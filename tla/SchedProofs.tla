---------------------------- MODULE SchedProofs -----------------------------
(***************************************************************************)
(* The safety properties of module Sched, for any number of tasks,         *)
(* priorities and ticks, from one inductive invariant.                     *)
(***************************************************************************)
EXTENDS Sched, KernelProofs, FiniteSetTheorems

-----------------------------------------------------------------------------
(* The inductive invariant.                                                *)

Label ==
    {"run", "yield", "delay", "delayUntil", "resumeAll", "locked", "suspendSelf", "suspendOther",
     "created", "free", "take", "wait"}

\* Where a task has the scheduler suspended, and where it need not be ready.
Locking == {"delay", "delayUntil", "resumeAll", "locked"}
Leaving == {"yield", "suspendSelf", "resumeAll"}

Typed ==
    /\ pc \in [Task -> Label]
    /\ arg \in [Task -> Tick \cup Task]
    /\ prev \in [Task -> Tick]
    /\ mode \in {"BOOT", "SYS", "SVC", "IRQ"}
    /\ svc \in Priority \cup {NULL}
    /\ use \in Uses

ListsOK == k \in Kernel /\ Apart(k) /\ Timed(k)

\* A task hangs in a list if and only if it exists and is not being freed.
\* In xPendingReadyList it is blocked, or its wait for a notification has just
\* timed out.  It waits for a notification only where it should, and has not
\* got one; asleep, it does not wait for any.
TaskGood(m, label, isrNotifies, t) ==
    LET waits == label \in {"take", "wait"}
    IN  /\ t \in Hung(m) <=> t \in m.live \ m.gone
        /\ t \in m.gone => t \in m.live
        /\ t \notin m.live => label = "run"
        /\ t \in ToSet(m.pending) =>
              t \in m.suspended \cup Blocked(m) \/ (waits /\ t \in ReadyTasks(m))
        /\ m.notify[t] = "WAITING" => waits /\ (isrNotifies => t \notin ToSet(m.pending))
        /\ t \in m.asleep => t \in m.suspended /\ m.notify[t] # "WAITING" /\ t \notin ToSet(m.pending)
        /\ waits /\ t \in (m.suspended \cup Blocked(m)) \ (m.asleep \cup ToSet(m.pending)) =>
              m.notify[t] = "WAITING" /\ (label = "take" => m.value[t] = 0)

TaskOK(t) == TaskGood(k, pc[t], "IsrNotify" \in use.calls, t)

\* Only the running task has the scheduler suspended, and no TCB is freed
\* twice.
ControlOK(t) ==
    /\ pc[t] \in Locking => mode # "BOOT" /\ k.cur = t /\ k.locks = 1
    /\ pc[t] \in {"delay", "delayUntil"} => arg[t] \in Tick \ {0}
    /\ pc[t] = "free" => arg[t] \in k.gone /\ \A u \in Task \ {t} : pc[u] = "free" => arg[u] # arg[t]
    /\ pc[t] = "created" => arg[t] \in Task

\* The current task is in the middle of something, and not in a switch.
Running == mode \in {"SYS", "IRQ"} \/ (mode = "SVC" /\ k.locks # 0)

\* The idle task is ready, the current task has a TCB and is ready unless it
\* is about to yield.  Ticks and tasks are pended only while the scheduler is
\* suspended.
CpuOK ==
    /\ mode # "BOOT" => k.running /\ IdleReady(k) /\ k.cur \in Hung(k)
    /\ pc[Idle] \in {"run", "yield"}
    /\ k.locks # 0 => k.locks = 1 /\ mode # "BOOT" /\ pc[k.cur] \in Locking
    /\ k.locks = 0 => k.pended = 0 /\ k.pending = <<>>
    /\ k.pended <= use.maxPended
    /\ svc # NULL => mode = "SVC" /\ k.locks = 0
    /\ Running /\ pc[k.cur] \notin Leaving => k.cur \in ReadyTasks(k)

\* Before the scheduler starts every task is ready.
BootOK ==
    mode = "BOOT" =>
        /\ ~k.running /\ ~k.yield /\ k.locks = 0
        /\ Idle \notin k.live /\ k.gone = {} /\ Hung(k) = ReadyTasks(k)
        /\ IF k.cur = NULL THEN k.live = {} ELSE k.cur \in Task /\ Highest(k)
        /\ \A t \in Task : pc[t] = "run"

\* No ready task has a higher priority than the current one, but for the one
\* it has just created.
Ahead ==
    \A u \in ReadyTasks(k) :
        k.prio[u] <= k.prio[k.cur] \/ (pc[k.cur] = "created" /\ u = arg[k.cur])

\* uxTopReadyPriority, or what vTaskSwitchContext has made of it, is high
\* enough; the current task is Ahead unless a switch is on its way.
PrioOK ==
    ~use.tickInHandler =>
        /\ svc = NULL => TopOK(k)
        /\ svc # NULL => \A u \in ReadyTasks(k) : k.prio[u] <= svc
        /\ Running /\ pc[k.cur] \notin Leaving /\ ~k.yield => Ahead

IInv ==
    /\ Typed /\ ListsOK /\ (\A t \in Task : TaskOK(t)) /\ (\A t \in Task : ControlOK(t))
    /\ CpuOK /\ BootOK /\ PrioOK

-----------------------------------------------------------------------------
(* What the steps have in common.                                          *)

\* Nothing has happened to a task.
LEMMA GoodSame ==
    ASSUME NEW m, NEW n, NEW label, NEW isr, NEW t, TaskGood(m, label, isr, t), Same(m, n, t)
    PROVE  TaskGood(n, label, isr, t)
<1>1. t \in Hung(n) <=> t \in Hung(m)
  BY DEF Same, Hung
<1> QED
  BY <1>1 DEF TaskGood, Same

\* Nothing has happened but to the tasks of T.
LEMMA TasksSame ==
    ASSUME \A t \in Task : TaskOK(t), NEW T, Others(k, k', T), use' = use,
           \A t \in Task \ T : pc'[t] = pc[t], \A t \in T : t \in Task => TaskOK(t)'
    PROVE  \A t \in Task : TaskOK(t)'
<1> SUFFICES ASSUME NEW t \in Task, t \notin T PROVE TaskOK(t)'
  OBVIOUS
<1> QED
  BY GoodSame DEF Others, TaskOK

\* What the other tasks are at, when the current one goes on or a handler
\* runs; some may have been freed.
LEMMA ControlSame ==
    ASSUME \A u \in Task : ControlOK(u), mode # "BOOT", mode' # "BOOT", NEW t \in Task, k.cur = t, ControlOK(t)',
           \A u \in Task \ {t} :
              \/ pc'[u] = "run"
              \/ pc'[u] = pc[u] /\ arg'[u] = arg[u] /\ (pc[u] = "free" /\ arg[u] \in k.gone => arg[u] \in k'.gone),
           pc'[t] = "free" => \A u \in Task \ {t} : pc[u] = "free" => arg[u] # arg'[t]
    PROVE  \A u \in Task : ControlOK(u)'
<1> SUFFICES ASSUME NEW u \in Task, u # t, pc'[u] # "run" PROVE ControlOK(u)'
  BY DEF ControlOK, Locking
<1>1. pc'[u] = pc[u] /\ arg'[u] = arg[u] /\ (pc[u] = "free" /\ arg[u] \in k.gone => arg[u] \in k'.gone)
  OBVIOUS
<1>2. pc[u] \notin Locking /\ ControlOK(u)
  BY DEF ControlOK
<1>3. ASSUME pc[u] = "free", NEW v \in Task \ {u}, pc'[v] = "free" PROVE arg'[v] # arg[u]
  <2>1. CASE v = t
    BY <1>3, <2>1
  <2>2. CASE v # t
    BY <1>2, <1>3, <2>2 DEF ControlOK
  <2> QED
    BY <2>1, <2>2
<1> QED
  BY <1>1, <1>2, <1>3 DEF ControlOK

\* Nobody is in an empty list.
LEMMA EmptyList == ToSet(<<>>) = {}
BY DEF ToSet

\* The current task, wherever there is one.
LEMMA CurrentTask ==
    ASSUME IInv, mode # "BOOT"
    PROVE  /\ k \in Kernel /\ Apart(k) /\ Timed(k) /\ IdleReady(k) /\ k.cur \in Task /\ k.cur \in Hung(k)
           /\ TaskOK(k.cur) /\ ControlOK(k.cur) /\ \A t \in Task : k.prio[t] \in Int
<1>1. k \in Kernel /\ Apart(k) /\ Timed(k) /\ IdleReady(k) /\ k.cur \in Hung(k)
  BY DEF IInv, ListsOK, CpuOK
<1>2. k.cur \in Task /\ \A t \in Task : k.prio[t] \in Int
  BY <1>1, KernelFields, TaskLists, ReadyHere DEF Hung, Blocked, Priority
<1> QED
  BY <1>1, <1>2 DEF IInv

-----------------------------------------------------------------------------
(* Start-up.                                                               *)

\* The lists after prvInitialiseTaskLists.
LEMMA InitInv == Init => IInv
<1> SUFFICES ASSUME Init PROVE IInv
  OBVIOUS
<1>1. /\ k \in Kernel /\ Apart(k) /\ Timed(k) /\ Hung(k) = {} /\ ReadyTasks(k) = {} /\ k.pending = <<>>
  BY Initial DEF Init
<1>2. /\ k.cur = NULL /\ k.live = {} /\ k.gone = {} /\ k.asleep = {} /\ k.suspended = {}
      /\ k.locks = 0 /\ k.pended = 0 /\ k.yield = FALSE /\ k.running = FALSE
      /\ k.notify = [t \in Task |-> "NOT_WAITING"]
  BY DEF Init, prvInitialiseTaskLists
<1>3. Typed
  BY TicksAssumption DEF Init, Typed, Label, Tick
<1>4. ASSUME NEW t \in Task PROVE TaskOK(t) /\ ControlOK(t) /\ pc[t] = "run"
  <2>1. pc[t] = "run" /\ t \notin ToSet(k.pending)
    BY <1>1 DEF Init, ToSet
  <2> QED
    BY <1>1, <1>2, <2>1 DEF TaskOK, TaskGood, ControlOK, Locking, Hung
<1>5. mode = "BOOT" /\ svc = NULL /\ use \in Uses
  BY DEF Init
<1>6. CpuOK
  BY <1>1, <1>2, <1>4, <1>5, TasksAssumption, SchedAssumption DEF CpuOK, Running
<1>7. BootOK
  BY <1>1, <1>2, <1>4 DEF BootOK
<1>8. PrioOK
  BY <1>1, <1>5 DEF PrioOK, TopOK, Running
<1> QED
  BY <1>1, <1>3, <1>4, <1>6, <1>7, <1>8 DEF IInv, ListsOK

\* A task created before the scheduler starts.
LEMMA BootTask ==
    ASSUME IInv, mode = "BOOT", NEW t \in Task, t \notin k.live, NEW p \in Priority
    PROVE  LET m == prvAddNewTaskToReadyList(k, t, p) IN
           /\ m \in Kernel /\ Apart(m) /\ Timed(m) /\ Others(k, m, {t}) /\ SameClock(k, m)
           /\ m.locks = 0 /\ m.running = k.running /\ ~m.yield
           /\ m.live = k.live \cup {t} /\ m.gone = {} /\ m.prio[t] = p
           /\ m.asleep = k.asleep /\ m.notify = k.notify /\ m.pending = k.pending
           /\ ReadyTasks(m) = ReadyTasks(k) \cup {t} /\ Hung(m) = ReadyTasks(m)
           /\ m.delayed = <<>> /\ m.overflow = <<>>
           /\ (TopOK(k) => TopOK(m)) /\ m.cur \in Task /\ Highest(m)
<1> DEFINE m == prvAddNewTaskToReadyList(k, t, p)
           first == k.cur = NULL
           takesOver == ~first /\ ~k.running /\ k.prio[k.cur] <= p
<1>1. k \in Kernel /\ Apart(k) /\ Timed(k) /\ TaskOK(t)
  BY DEF IInv, ListsOK
<1>2. /\ ~k.running /\ ~k.yield /\ k.locks = 0 /\ k.gone = {} /\ Hung(k) = ReadyTasks(k)
      /\ (k.cur = NULL => k.live = {}) /\ (k.cur # NULL => k.cur \in Task /\ Highest(k))
  BY DEF IInv, BootOK
<1>3. t \notin Hung(k)
  BY <1>1 DEF TaskOK, TaskGood
<1>4. /\ m \in Kernel /\ Apart(m) /\ Timed(m) /\ Others(k, m, {t}) /\ SameClock(k, m)
      /\ m.cur = (IF first \/ takesOver THEN t ELSE k.cur)
      /\ m.locks = k.locks /\ m.running = k.running /\ m.yield = k.yield
      /\ m.live = k.live \cup {t} /\ m.gone = k.gone /\ m.prio[t] = p
      /\ m.asleep = k.asleep /\ m.notify = k.notify /\ SameEvents(k, m)
      /\ ReadyTasks(m) = ReadyTasks(k) \cup {t} /\ Hung(m) = Hung(k) \cup {t}
      /\ m.delayed = k.delayed /\ m.overflow = k.overflow
      /\ (TopOK(k) => TopOK(m))
  BY <1>1, <1>2, <1>3, AddNew
<1> HIDE DEF m
<1>5. k.delayed = <<>> /\ k.overflow = <<>>
  <2>1. Blocked(k) = {}
    BY <1>2, <1>1 DEF Hung, Blocked, Apart
  <2> QED
    BY <1>1, <2>1, KernelFields, TaskLists DEF Blocked
<1>6. m.cur \in Task /\ m.cur \in ReadyTasks(m)
  BY <1>2, <1>4 DEF Highest
<1>7. ASSUME NEW u \in ReadyTasks(m) PROVE m.prio[u] <= m.prio[m.cur]
  <2>1. p \in Int /\ \A v \in Task : k.prio[v] \in Int
    BY <1>1, KernelFields DEF Priority
  <2>2. \A v \in ReadyTasks(k) : v \in Task /\ v # t /\ m.prio[v] = k.prio[v]
    BY <1>1, <1>3, <1>4, ReadyHere DEF Hung, Others, Same
  <2>3. CASE first
    <3>1. ReadyTasks(k) = {}
      <4>1. \A v \in ReadyTasks(k) : TaskOK(v) /\ v \in Hung(k)
        BY <2>2 DEF IInv, Hung
      <4> QED
        BY <1>2, <2>3, <4>1 DEF TaskOK, TaskGood
    <3> QED
      BY <1>4, <2>1, <2>3, <3>1
  <2>4. CASE takesOver
    BY <1>2, <1>4, <2>1, <2>2, <2>4 DEF Highest
  <2>5. CASE ~first /\ ~takesOver
    BY <1>2, <1>4, <2>1, <2>2, <2>5 DEF Highest
  <2> QED
    BY <2>3, <2>4, <2>5
<1>8. Highest(m)
  BY <1>6, <1>7 DEF Highest
<1>9. Hung(m) = ReadyTasks(m)
  BY <1>2, <1>4
<1> QED
  BY <1>2, <1>4, <1>5, <1>6, <1>8, <1>9 DEF m, SameEvents

\* main() creates a task before the scheduler runs.
LEMMA BootCreateInv ==
    ASSUME IInv, NEW t \in User, NEW p \in Priority, BootCreate(t, p), use' = use
    PROVE  IInv'
<1>1. mode = "BOOT" /\ t \in Task /\ t \notin k.live /\ t # Idle
  BY DEF BootCreate, User
<1>2. pc' = pc /\ arg' = arg /\ prev' = prev /\ mode' = mode /\ svc' = svc
  BY DEF BootCreate, Rest
<1> DEFINE m == prvAddNewTaskToReadyList(k, t, p)
<1>a. /\ m \in Kernel /\ Apart(m) /\ Timed(m) /\ Others(k, m, {t}) /\ SameClock(k, m)
      /\ m.locks = 0 /\ m.running = k.running /\ ~m.yield
      /\ m.live = k.live \cup {t} /\ m.gone = {} /\ m.prio[t] = p
      /\ m.asleep = k.asleep /\ m.notify = k.notify /\ m.pending = k.pending
      /\ ReadyTasks(m) = ReadyTasks(k) \cup {t} /\ Hung(m) = ReadyTasks(m)
      /\ m.delayed = <<>> /\ m.overflow = <<>>
      /\ (TopOK(k) => TopOK(m)) /\ m.cur \in Task /\ Highest(m)
  BY <1>1, BootTask
<1>b. k' = m
  BY DEF BootCreate
<1> HIDE DEF m
<1>3. /\ k' \in Kernel /\ Apart(k') /\ Timed(k') /\ Others(k, k', {t}) /\ SameClock(k, k')
      /\ k'.locks = 0 /\ k'.running = k.running /\ ~k'.yield
      /\ k'.live = k.live \cup {t} /\ k'.gone = {} /\ k'.prio[t] = p
      /\ k'.asleep = k.asleep /\ k'.notify = k.notify /\ k'.pending = k.pending
      /\ ReadyTasks(k') = ReadyTasks(k) \cup {t} /\ Hung(k') = ReadyTasks(k')
      /\ (TopOK(k) => TopOK(k')) /\ k'.cur \in Task /\ Highest(k')
  BY <1>a, <1>b
<1>4. /\ TaskOK(t) /\ \A u \in Task : TaskOK(u) /\ ControlOK(u) /\ pc[u] = "run"
  BY <1>1 DEF IInv, BootOK
<1>5. /\ svc = NULL /\ k.running = FALSE /\ Idle \notin k.live /\ k.pended = 0 /\ k.pending = <<>>
      /\ k.pended <= use.maxPended /\ (~use.tickInHandler => TopOK(k))
  BY <1>1 DEF IInv, BootOK, CpuOK, PrioOK
<1>6. Typed'
  BY <1>2 DEF IInv, Typed
<1>7. TaskOK(t)'
  <2>1. t \notin k.suspended \cup Blocked(k) /\ t \notin k.asleep
    BY <1>1, <1>4 DEF TaskOK, TaskGood, Hung
  <2>2. t \notin ToSet(k'.pending)
    BY <1>3, <1>5, EmptyList
  <2>3. k'.notify[t] # "WAITING" /\ t \notin k'.asleep
    BY <1>1, <1>3, <1>4, <2>1 DEF TaskOK, TaskGood
  <2>4. t \in Hung(k') /\ t \in k'.live /\ t \notin k'.gone
    BY <1>3
  <2> QED
    BY <1>1, <1>2, <1>4, <2>2, <2>3, <2>4 DEF TaskOK, TaskGood
<1>8. \A u \in Task : TaskOK(u)'
  BY <1>2, <1>3, <1>4, <1>7, TasksSame
<1>9. \A u \in Task : ControlOK(u)'
  BY <1>2, <1>4 DEF ControlOK, Locking
<1>10. CpuOK'
  BY <1>1, <1>2, <1>3, <1>4, <1>5, TasksAssumption DEF CpuOK, Running, SameClock
<1>11. BootOK'
  BY <1>1, <1>2, <1>3, <1>4, <1>5, TasksAssumption DEF BootOK
<1>12. PrioOK'
  BY <1>1, <1>2, <1>3, <1>5 DEF PrioOK, Running
<1> QED
  BY <1>3, <1>6, <1>8, <1>9, <1>10, <1>11, <1>12 DEF IInv, ListsOK

\* vTaskStartScheduler creates the idle task and starts the first task.
LEMMA StartInv ==
    ASSUME IInv, vTaskStartScheduler, use' = use
    PROVE  IInv'
<1> DEFINE a == prvAddNewTaskToReadyList(k, Idle, tskIDLE_PRIORITY)
           m == [a EXCEPT !.next = portMAX_DELAY, !.running = TRUE, !.tick = 0]
<1>1. mode = "BOOT" /\ Idle \in Task /\ Idle \notin k.live /\ tskIDLE_PRIORITY \in Priority
  BY TasksAssumption DEF vTaskStartScheduler, IInv, BootOK, tskIDLE_PRIORITY, Priority
<1>2. pc' = pc /\ arg' = arg /\ prev' = prev /\ mode' = "SYS" /\ svc' = svc /\ k' = m
  BY DEF vTaskStartScheduler
<1>3. /\ a \in Kernel /\ Apart(a) /\ Timed(a) /\ Others(k, a, {Idle}) /\ SameClock(k, a)
      /\ a.locks = 0 /\ a.running = k.running /\ ~a.yield
      /\ a.live = k.live \cup {Idle} /\ a.gone = {} /\ a.prio[Idle] = tskIDLE_PRIORITY
      /\ a.asleep = k.asleep /\ a.notify = k.notify /\ a.pending = k.pending
      /\ ReadyTasks(a) = ReadyTasks(k) \cup {Idle} /\ Hung(a) = ReadyTasks(a)
      /\ a.delayed = <<>> /\ a.overflow = <<>>
      /\ (TopOK(k) => TopOK(a)) /\ a.cur \in Task /\ Highest(a)
  BY <1>1, BootTask
<1> HIDE DEF a
<1>4. /\ m \in Kernel /\ Apart(m) /\ Timed(m) /\ Others(a, m, {})
      /\ ReadyTasks(m) = ReadyTasks(a) /\ Hung(m) = Hung(a) /\ SameTasks(a, m) /\ SameEvents(a, m)
      /\ m.running = TRUE /\ m.cur = a.cur /\ m.locks = a.locks /\ m.pended = a.pended
      /\ m.yield = a.yield /\ m.top = a.top
  BY <1>3, Start
<1> HIDE DEF m
<1>5. /\ TaskOK(Idle) /\ \A u \in Task : TaskOK(u) /\ ControlOK(u) /\ pc[u] = "run"
  BY <1>1 DEF IInv, BootOK
<1>6. /\ svc = NULL /\ k.pended = 0 /\ k.pending = <<>>
      /\ k.pended <= use.maxPended /\ (~use.tickInHandler => TopOK(k))
  BY <1>1 DEF IInv, BootOK, CpuOK, PrioOK
<1>7. Typed'
  BY <1>2 DEF IInv, Typed
<1>8. Others(k, k', {Idle})
  BY <1>2, <1>3, <1>4 DEF Others, Same
<1>9. /\ ReadyTasks(k') = ReadyTasks(a) /\ Hung(k') = ReadyTasks(a) /\ k'.live = a.live /\ k'.gone = {}
      /\ k'.asleep = k.asleep /\ k'.notify = k.notify /\ k'.pending = <<>> /\ k'.prio = a.prio
      /\ k'.cur = a.cur /\ k'.locks = 0 /\ k'.pended = 0 /\ k'.yield = a.yield /\ k'.running
      /\ k'.top = a.top
  BY <1>2, <1>3, <1>4, <1>6 DEF SameTasks, SameEvents, SameClock
<1>10. TaskOK(Idle)'
  <2>1. Idle \notin k.asleep
    BY <1>1, <1>5 DEF TaskOK, TaskGood, Hung
  <2>2. k.notify[Idle] # "WAITING"
    BY <1>1, <1>5 DEF TaskOK, TaskGood
  <2>3. Idle \notin ToSet(k'.pending)
    BY <1>9 DEF ToSet
  <2> QED
    BY <1>1, <1>2, <1>3, <1>5, <1>9, <2>1, <2>2, <2>3 DEF TaskOK, TaskGood, Hung
<1>11. \A u \in Task : TaskOK(u)'
  BY <1>2, <1>5, <1>8, <1>10, TasksSame
<1>12. \A u \in Task : ControlOK(u)'
  BY <1>2, <1>5 DEF ControlOK, Locking
<1>13. IdleReady(k')
  BY <1>3, <1>9 DEF IdleReady, tskIDLE_PRIORITY
<1>14. CpuOK'
  BY <1>1, <1>2, <1>3, <1>5, <1>6, <1>9, <1>13 DEF CpuOK, Running, Highest
<1>15. BootOK'
  BY <1>2 DEF BootOK
<1>16. PrioOK'
  BY <1>2, <1>3, <1>6, <1>9 DEF PrioOK, Running, TopOK, Highest, Ahead
<1> QED
  BY <1>2, <1>4, <1>7, <1>11, <1>12, <1>14, <1>15, <1>16 DEF IInv, ListsOK

-----------------------------------------------------------------------------
(* How the steps of the running system are put together.                   *)

\* What the types, the lists, the tasks and the control have to be after a
\* step in which t was current.
After(t) ==
    /\ mode \in {"SYS", "IRQ"} /\ mode' \in {"SYS", "IRQ"} /\ svc' = svc /\ use' = use /\ k.cur = t
    /\ pc' \in [Task -> Label] /\ arg' \in [Task -> Tick \cup Task] /\ prev' \in [Task -> Tick]
    /\ k' \in Kernel /\ Apart(k') /\ Timed(k') /\ \A u \in Task : TaskOK(u)'
    /\ k'.running = k.running /\ IdleReady(k') /\ k'.cur \in Hung(k')
    /\ \A u \in Task \ {t} :
          \/ pc'[u] = "run"
          \/ /\ pc'[u] = pc[u] /\ arg'[u] = arg[u]
             /\ pc[u] = "free" /\ arg[u] \in k.gone => arg[u] \in k'.gone
    /\ pc'[t] = "free" =>
          arg'[t] \in k'.gone /\ \A u \in Task \ {t} : pc[u] = "free" => arg[u] # arg'[t]
    /\ pc'[t] = "created" => arg'[t] \in Task
    /\ t = Idle => pc'[t] \in {"run", "yield"}

\* A step at the end of which the scheduler is not suspended: another task
\* has been chosen, or the same goes on.
LEMMA FreeStep ==
    ASSUME IInv, NEW t \in Task, After(t), pc'[t] \notin Locking,
           k'.locks = 0, k'.pended = 0, k'.pending = <<>>,
           k'.cur \in ReadyTasks(k') \/ (k'.cur = t /\ pc'[t] \in Leaving),
           ~use.tickInHandler => TopOK(k'),
           ~use.tickInHandler =>
              \/ Highest(k')
              \/ k'.cur = t /\ (k'.yield \/ pc'[t] \in Leaving)
              \/ k'.cur = t /\ \A u \in ReadyTasks(k') :
                    k'.prio[u] <= k'.prio[t] \/ (pc'[t] = "created" /\ u = arg'[t])
    PROVE  IInv'
<1>1. mode # "BOOT" /\ mode' # "BOOT" /\ svc = NULL /\ svc' = NULL /\ use' = use /\ k.cur = t
  BY DEF After, IInv, CpuOK
<1>2. Typed'
  BY <1>1 DEF After, IInv, Typed
<1>3. ListsOK'
  BY DEF After, ListsOK
<1>4. \A u \in Task : TaskOK(u)'
  BY DEF After
<1>5. ControlOK(t)'
  BY DEF After, ControlOK, Locking
<1>6. \A u \in Task : ControlOK(u)'
  <2>1. \A u \in Task : ControlOK(u)
    BY DEF IInv
  <2> QED
    BY <1>1, <1>5, <2>1, ControlSame DEF After
<1>7. pc'[Idle] \in {"run", "yield"}
  BY TasksAssumption DEF After, IInv, CpuOK
<1>8. use.maxPended \in Nat
  BY SchedAssumption, TicksAssumption DEF IInv, Typed
<1>9. CpuOK'
  <2>1. k'.running
    BY <1>1 DEF After, IInv, CpuOK
  <2> QED
    BY <1>1, <1>7, <1>8, <2>1 DEF After, CpuOK, Running
<1>10. BootOK'
  BY <1>1 DEF BootOK
<1>11. PrioOK'
  BY <1>1 DEF PrioOK, Highest, Ahead, Running
<1> QED
  BY <1>2, <1>3, <1>4, <1>6, <1>9, <1>10, <1>11 DEF IInv

\* A step at the end of which the scheduler is suspended: t goes on.
LEMMA LockedStep ==
    ASSUME IInv, NEW t \in Task, After(t), pc'[t] \in Locking, k'.cur = t,
           k'.locks = 1, k'.pended <= use.maxPended,
           pc'[t] \in {"delay", "delayUntil"} => arg'[t] \in Tick \ {0},
           t \in ReadyTasks(k') \/ pc'[t] \in Leaving,
           ~use.tickInHandler => TopOK(k'),
           ~use.tickInHandler =>
              \/ k'.yield \/ pc'[t] \in Leaving
              \/ \A u \in ReadyTasks(k') : k'.prio[u] <= k'.prio[t]
    PROVE  IInv'
<1>1. mode # "BOOT" /\ mode' # "BOOT" /\ svc = NULL /\ svc' = NULL /\ use' = use /\ k.cur = t
  BY DEF After, IInv, CpuOK
<1>2. Typed'
  BY <1>1 DEF After, IInv, Typed
<1>3. ListsOK'
  BY DEF After, ListsOK
<1>4. \A u \in Task : TaskOK(u)'
  BY DEF After
<1>5. ControlOK(t)'
  BY <1>1 DEF After, ControlOK, Locking
<1>6. \A u \in Task : ControlOK(u)'
  <2>1. \A u \in Task : ControlOK(u)
    BY DEF IInv
  <2> QED
    BY <1>1, <1>5, <2>1, ControlSame DEF After
<1>7. pc'[Idle] \in {"run", "yield"}
  BY TasksAssumption DEF After, IInv, CpuOK
<1>8. CpuOK'
  <2>1. k'.running
    BY <1>1 DEF After, IInv, CpuOK
  <2> QED
    BY <1>1, <1>7, <2>1 DEF After, CpuOK, Running
<1>9. BootOK'
  BY <1>1 DEF BootOK
<1>10. PrioOK'
  BY <1>1 DEF PrioOK, Ahead, Running
<1> QED
  BY <1>2, <1>3, <1>4, <1>6, <1>8, <1>9, <1>10 DEF IInv

\* Where the running task stands: what the labels imply.
LEMMA Standing ==
    ASSUME IInv, NEW t \in Task, mode \in {"SYS", "IRQ"}, k.cur = t
    PROVE  /\ k \in Kernel /\ Apart(k) /\ Timed(k) /\ IdleReady(k) /\ t \in Hung(k) /\ k.cur \in Task
           /\ TaskOK(t) /\ ControlOK(t) /\ svc = NULL /\ use \in Uses
           /\ pc \in [Task -> Label] /\ arg \in [Task -> Tick \cup Task] /\ prev \in [Task -> Tick]
           /\ \A u \in Task : k.prio[u] \in Int /\ TaskOK(u)
           /\ pc[t] \notin Locking => k.locks = 0 /\ k.pended = 0 /\ k.pending = <<>>
           /\ pc[t] \in Locking => k.locks = 1
           /\ k.pended <= use.maxPended
           /\ pc[t] \notin Leaving => t \in ReadyTasks(k)
           /\ t = Idle => pc[t] \in {"run", "yield"}
           /\ ~use.tickInHandler => TopOK(k)
           /\ ~use.tickInHandler /\ ~k.yield /\ pc[t] \notin Leaving /\ pc[t] # "created" => Highest(k)
<1>1. mode # "BOOT" /\ Running /\ svc = NULL
  BY DEF IInv, CpuOK, Running
<1>2. /\ k \in Kernel /\ Apart(k) /\ Timed(k) /\ IdleReady(k) /\ t \in Hung(k) /\ k.cur \in Task
      /\ TaskOK(t) /\ ControlOK(t) /\ \A u \in Task : k.prio[u] \in Int
  BY <1>1, CurrentTask
<1>3. /\ use \in Uses /\ pc \in [Task -> Label] /\ arg \in [Task -> Tick \cup Task] /\ prev \in [Task -> Tick]
  BY DEF IInv, Typed
<1>4. pc[t] \notin Locking => k.locks = 0 /\ k.pended = 0 /\ k.pending = <<>>
  BY DEF IInv, CpuOK
<1>5. pc[t] \in Locking => k.locks = 1
  BY <1>2 DEF ControlOK
<1>6. /\ k.pended <= use.maxPended /\ (pc[t] \notin Leaving => t \in ReadyTasks(k))
      /\ (t = Idle => pc[t] \in {"run", "yield"})
  BY <1>1 DEF IInv, CpuOK
<1>7. /\ ~use.tickInHandler => TopOK(k)
      /\ ~use.tickInHandler /\ ~k.yield /\ pc[t] \notin Leaving /\ pc[t] # "created" => Highest(k)
  BY <1>1, <1>6 DEF IInv, PrioOK, Ahead, Highest
<1> QED
  BY <1>1, <1>2, <1>3, <1>4, <1>5, <1>6, <1>7 DEF IInv

\* What happens in the kernel happens to the tasks of T, and is right.
Effect(T) ==
    /\ k' \in Kernel /\ Apart(k') /\ Timed(k') /\ Others(k, k', T)
    /\ \A u \in T : u \in Task => TaskOK(u)'
    /\ k'.running = k.running /\ k.gone \subseteq k'.gone /\ IdleReady(k') /\ k'.cur \in Hung(k')

\* Task t goes on to a label, with an argument.
Goes(t, label, v) == pc' = [pc EXCEPT ![t] = label] /\ arg' = [arg EXCEPT ![t] = v]

\* A step in which only t, the current task, goes on.
LEMMA AfterGo ==
    ASSUME IInv, NEW t \in Task, NEW T, NEW label \in Label, NEW v \in Tick \cup Task,
           mode \in {"SYS", "IRQ"}, mode' \in {"SYS", "IRQ"}, svc' = svc, use' = use, k.cur = t,
           prev' \in [Task -> Tick], Goes(t, label, v), Effect(T), t \in T,
           label = "free" => v \in k'.gone /\ v \notin k.gone,
           label = "created" => v \in Task,
           t = Idle => label \in {"run", "yield"}
    PROVE  After(t) /\ pc'[t] = label /\ arg'[t] = v
<1>1. pc \in [Task -> Label] /\ arg \in [Task -> Tick \cup Task] /\ \A u \in Task : TaskOK(u) /\ ControlOK(u)
  BY DEF IInv, Typed
<1>2. /\ pc'[t] = label /\ arg'[t] = v /\ \A u \in Task \ {t} : pc'[u] = pc[u] /\ arg'[u] = arg[u]
      /\ pc' \in [Task -> Label] /\ arg' \in [Task -> Tick \cup Task]
  BY <1>1 DEF Goes
<1>3. \A u \in Task : TaskOK(u)'
  BY <1>1, <1>2, TasksSame DEF Effect
<1>4. ASSUME label = "free", NEW u \in Task \ {t}, pc[u] = "free" PROVE arg[u] # v
  <2>1. arg[u] \in k.gone
    BY <1>1, <1>4 DEF ControlOK
  <2> QED
    BY <1>4, <2>1
<1> QED
  BY <1>2, <1>3, <1>4 DEF After, Effect

\* The same when t stays where it is.
LEMMA AfterStay ==
    ASSUME IInv, NEW t \in Task, NEW T,
           mode \in {"SYS", "IRQ"}, mode' \in {"SYS", "IRQ"}, svc' = svc, use' = use, k.cur = t,
           prev' = prev, pc' = pc, arg' = arg, Effect(T)
    PROVE  After(t) /\ pc'[t] = pc[t] /\ arg'[t] = arg[t]
<1>1. pc \in [Task -> Label] /\ arg \in [Task -> Tick \cup Task] /\ \A u \in Task : TaskOK(u) /\ ControlOK(u)
  BY DEF IInv, Typed
<1>2. \A u \in Task : TaskOK(u)'
  BY <1>1, TasksSame DEF Effect
<1>3. t = Idle => pc[t] \in {"run", "yield"}
  BY DEF IInv, CpuOK
<1>4. prev \in [Task -> Tick]
  BY DEF IInv, Typed
<1>5. (pc[t] = "created" => arg[t] \in Task)
  BY <1>1 DEF ControlOK
<1>6. pc[t] = "free" => arg[t] \in k'.gone /\ \A u \in Task \ {t} : pc[u] = "free" => arg[u] # arg[t]
  BY <1>1 DEF ControlOK, Effect
<1> QED
  BY <1>1, <1>2, <1>3, <1>4, <1>5, <1>6 DEF After, Effect

-----------------------------------------------------------------------------
(* Steps that leave the kernel alone.                                      *)

\* A step that leaves the kernel alone leaves every task alone.
LEMMA OthersNone == ASSUME NEW m, NEW T PROVE Others(m, m, T)
BY DEF Others, Same

\* t goes on to another label.
LEMMA LabelStep ==
    ASSUME IInv, NEW t \in Task, NEW label \in {"run", "yield"}, NEW v \in Tick \cup Task,
           mode = "SYS", mode' = "SYS", svc' = svc, use' = use, k.cur = t, k' = k,
           prev' = prev, Goes(t, label, v),
           pc[t] \notin Locking, pc[t] \notin {"take", "wait"}, pc[t] \notin Leaving,
           label = "run" /\ ~use.tickInHandler /\ ~k.yield => Highest(k)
    PROVE  IInv'
<1>1. /\ k \in Kernel /\ Apart(k) /\ Timed(k) /\ IdleReady(k) /\ t \in Hung(k)
      /\ TaskOK(t) /\ pc \in [Task -> Label] /\ prev \in [Task -> Tick]
      /\ k.locks = 0 /\ k.pended = 0 /\ k.pending = <<>> /\ t \in ReadyTasks(k)
      /\ (~use.tickInHandler => TopOK(k))
  BY Standing
<1>2. label \in Label /\ label \notin Locking
  BY DEF Label, Locking
<1>3. TaskOK(t)'
  <2>1. pc'[t] = label
    BY <1>1 DEF Goes
  <2>2. t \in k.live
    BY <1>1 DEF TaskOK, TaskGood
  <2>3. TaskGood(k, label, "IsrNotify" \in use.calls, t)
    BY <1>1, <2>2 DEF TaskOK, TaskGood
  <2> QED
    BY <2>1, <2>3 DEF TaskOK
<1>4. After(t) /\ pc'[t] = label
  <2> DEFINE T == {t}
  <2>1. Effect(T) /\ t \in T
    BY <1>1, <1>3, OthersNone DEF Effect
  <2> HIDE DEF T
  <2> QED
    BY <1>1, <1>2, <2>1, AfterGo
<1> QED
  BY <1>1, <1>2, <1>4, FreeStep DEF Leaving, After

\* The idle task yields to tasks of its own priority.
LEMMA IdleYieldInv ==
    ASSUME IInv, IdleYield, use' = use
    PROVE  IInv'
<1>1. /\ Idle \in Task /\ mode = "SYS" /\ k.cur = Idle /\ pc[Idle] = "run" /\ mode' = "SYS" /\ svc' = svc
      /\ k' = k /\ prev' = prev /\ pc' = [pc EXCEPT ![Idle] = "yield"] /\ arg' = arg
  BY TasksAssumption DEF IdleYield, At, Goto, Rest
<1>2. Goes(Idle, "yield", arg[Idle]) /\ arg[Idle] \in Tick \cup Task
  BY <1>1 DEF IInv, Typed, Goes
<1> QED
  BY <1>1, <1>2, LabelStep DEF Locking, Leaving

\* xTaskCreate reads the new TCB once more, and yields or not.
LEMMA CreateYieldInv ==
    ASSUME IInv, NEW t \in Task, CreateYield(t), use' = use
    PROVE  IInv'
<1>1. /\ mode = "SYS" /\ k.cur = t /\ pc[t] = "created" /\ mode' = "SYS" /\ svc' = svc
      /\ k' = k /\ prev' = prev /\ arg' = [arg EXCEPT ![t] = 0] /\ 0 \in Tick \cup Task
  BY TicksAssumption DEF CreateYield, At, Tick
<1>2. PICK yield \in IF arg[t] \in k.live THEN {k.prio[t] < k.prio[arg[t]]} ELSE BOOLEAN :
         pc' = [pc EXCEPT ![t] = IF yield THEN "yield" ELSE "run"]
  BY DEF CreateYield, Goto
<1> DEFINE label == IF yield THEN "yield" ELSE "run"
<1>3. label \in {"run", "yield"} /\ Goes(t, label, 0)
  BY <1>1, <1>2 DEF Goes
<1>4. ASSUME label = "run", ~use.tickInHandler, ~k.yield PROVE Highest(k)
  <2>1. /\ t \in ReadyTasks(k) /\ k \in Kernel /\ Apart(k) /\ \A u \in Task : k.prio[u] \in Int /\ TaskOK(u)
    BY <1>1, Standing DEF Leaving
  <2>2. \A u \in ReadyTasks(k) : k.prio[u] <= k.prio[t] \/ u = arg[t]
    BY <1>1, <1>4 DEF IInv, PrioOK, Ahead, Running, Leaving
  <2>3. ASSUME arg[t] \in ReadyTasks(k) PROVE k.prio[arg[t]] <= k.prio[t]
    <3>1. arg[t] \in Task
      BY <2>1, <2>3, ReadyHere
    <3>2. arg[t] \in k.live
      BY <2>1, <2>3, <3>1 DEF TaskOK, TaskGood, Hung
    <3>3. yield = (k.prio[t] < k.prio[arg[t]])
      BY <1>2, <3>2
    <3>4. ~yield
      BY <1>4
    <3>5. ~(k.prio[t] < k.prio[arg[t]])
      BY <3>3, <3>4
    <3> QED
      BY <2>1, <3>1, <3>5
  <2> QED
    BY <1>1, <2>1, <2>2, <2>3 DEF Highest
<1> HIDE DEF label
<1> QED
  BY <1>1, <1>3, <1>4, LabelStep DEF Locking, Leaving

\* vTaskSuspendAll by a task that runs.
LEMMA LockStart ==
    ASSUME IInv, NEW t \in Task, t # Idle, At(t, "run"), k' = vTaskSuspendAll(k), use' = use,
           NEW label \in {"delay", "delayUntil", "locked"}, NEW v \in Tick \cup Task,
           label # "locked" => v \in Tick \ {0},
           mode' = mode, svc' = svc, prev' = prev, Goes(t, label, v)
    PROVE  IInv'
<1> DEFINE m == WithCounts(k, k.pended, k.locks + 1)
           T == {t}
<1>1. mode = "SYS" /\ k.cur = t /\ pc[t] = "run" /\ pc[t] \notin Locking /\ pc[t] \notin Leaving
  BY DEF At, Locking, Leaving
<1>2. /\ k \in Kernel /\ Apart(k) /\ Timed(k) /\ IdleReady(k) /\ t \in Hung(k)
      /\ TaskOK(t) /\ pc \in [Task -> Label] /\ prev \in [Task -> Tick] /\ use \in Uses
      /\ k.locks = 0 /\ k.pended = 0 /\ k.pended <= use.maxPended /\ t \in ReadyTasks(k)
      /\ (~use.tickInHandler => TopOK(k)) /\ (~use.tickInHandler /\ ~k.yield => Highest(k))
  BY <1>1, Standing
<1>3. k' = m
  BY <1>2 DEF vTaskSuspendAll, WithCounts, Kernel
<1>4. /\ m \in Kernel /\ Apart(m) /\ Timed(m) /\ Others(k, m, {}) /\ m.pended = k.pended /\ m.locks = k.locks + 1
      /\ ReadyTasks(m) = ReadyTasks(k) /\ Hung(m) = Hung(k) /\ SameTasks(k, m) /\ SameEvents(k, m)
      /\ SameState(k, m)
      /\ m.cur = k.cur /\ m.running = k.running /\ m.yield = k.yield /\ m.top = k.top /\ m.tick = k.tick
  <2>1. k.pended \in Nat /\ k.locks + 1 \in Nat
    BY <1>2
  <2> QED
    BY <1>2, <2>1, SetCountsTimed
<1> HIDE DEF m
<1>5. label \in Label /\ label \in Locking /\ label \notin Leaving /\ label \notin {"free", "created"}
  BY DEF Label, Locking, Leaving
<1>6. Others(k, k', T) /\ t \in T /\ Same(k, k', t)
  BY <1>3, <1>4 DEF Others
<1>7. TaskOK(t)'
  <2>1. pc'[t] = label /\ t \in k.live
    BY <1>2 DEF TaskOK, TaskGood, Goes
  <2>2. TaskGood(k, label, "IsrNotify" \in use.calls, t)
    BY <1>1, <1>2, <2>1 DEF TaskOK, TaskGood
  <2>3. TaskGood(k', label, "IsrNotify" \in use.calls, t)
    BY <1>6, <2>2, GoodSame
  <2> QED
    BY <2>1, <2>3 DEF TaskOK
<1>8. /\ k'.cur = t /\ k'.locks = 1 /\ k'.pended <= use.maxPended /\ t \in ReadyTasks(k')
      /\ (~use.tickInHandler => TopOK(k'))
      /\ (~use.tickInHandler /\ ~k'.yield => \A u \in ReadyTasks(k') : k'.prio[u] <= k'.prio[t])
  BY <1>1, <1>2, <1>3, <1>4 DEF SameTasks, TopOK, Highest
<1>9. Effect(T)
  BY <1>1, <1>2, <1>3, <1>4, <1>6, <1>7 DEF Effect, SameTasks, IdleReady
<1> HIDE DEF T
<1>10. After(t) /\ pc'[t] = label /\ arg'[t] = v
  BY <1>1, <1>2, <1>5, <1>6, <1>9, AfterGo
<1> QED
  BY <1>5, <1>8, <1>10, LockedStep

\* vTaskDelay suspends the scheduler.
LEMMA vTaskDelayInv ==
    ASSUME IInv, NEW t \in Task, NEW n \in Tick, vTaskDelay(t, n), use' = use
    PROVE  IInv'
<1>1. /\ At(t, "run") /\ t # Idle /\ mode' = mode /\ svc' = svc /\ prev' = prev
      /\ n \in Tick \cup Task /\ mode = "SYS" /\ k.cur = t /\ pc[t] = "run"
  BY DEF vTaskDelay, At
<1>2. CASE n > 0
  <2>1. k' = vTaskSuspendAll(k) /\ Goes(t, "delay", n)
    BY <1>2 DEF vTaskDelay, Goto, Goes
  <2>2. n \in Tick \ {0}
    BY <1>2
  <2> QED
    BY <1>1, <2>1, <2>2, LockStart
<1>3. CASE ~(n > 0)
  <2>1. k' = k /\ pc' = [pc EXCEPT ![t] = "yield"] /\ arg' = arg
    BY <1>3 DEF vTaskDelay, Goto
  <2>2. Goes(t, "yield", arg[t]) /\ arg[t] \in Tick \cup Task
    BY <2>1 DEF IInv, Typed, Goes
  <2> QED
    BY <1>1, <2>1, <2>2, LabelStep DEF Locking, Leaving
<1> QED
  BY <1>2, <1>3

\* xTaskDelayUntil suspends the scheduler.
LEMMA xTaskDelayUntilInv ==
    ASSUME IInv, NEW t \in Task, NEW n \in Tick, xTaskDelayUntil(t, n), use' = use
    PROVE  IInv'
<1>1. /\ At(t, "run") /\ t # Idle /\ mode' = mode /\ svc' = svc /\ prev' = prev /\ n > 0
      /\ k' = vTaskSuspendAll(k) /\ Goes(t, "delayUntil", n)
  BY DEF xTaskDelayUntil, Goto, Goes
<1>2. n \in Tick \ {0} /\ n \in Tick \cup Task
  BY <1>1
<1> QED
  BY <1>1, <1>2, LockStart

\* The application suspends the scheduler.
LEMMA SuspendAllInv ==
    ASSUME IInv, NEW t \in Task, SuspendAll(t), use' = use
    PROVE  IInv'
<1>1. /\ At(t, "run") /\ t # Idle /\ mode' = mode /\ svc' = svc /\ prev' = prev
      /\ k' = vTaskSuspendAll(k) /\ pc' = [pc EXCEPT ![t] = "locked"] /\ arg' = arg
  BY DEF SuspendAll, Goto, Rest
<1>2. Goes(t, "locked", arg[t]) /\ arg[t] \in Tick \cup Task
  BY <1>1 DEF IInv, Typed, Goes
<1> QED
  BY <1>1, <1>2, LockStart

-----------------------------------------------------------------------------
(* The delays.                                                             *)

\* The current task joins a delayed list, the scheduler being suspended.
LEMMA DelayBlocks ==
    ASSUME IInv, NEW t \in Task, mode = "SYS", k.cur = t, pc[t] \in {"delay", "delayUntil"}, use' = use,
           NEW n \in Tick \ {0}, k' = prvAddCurrentTaskToDelayedList(k, n, FALSE),
           mode' = mode, svc' = svc, prev' \in [Task -> Tick], Goes(t, "resumeAll", 0)
    PROVE  IInv'
<1> DEFINE m == prvAddCurrentTaskToDelayedList(k, n, FALSE)
           T == {t}
<1>1. pc[t] \in Locking /\ pc[t] \notin Leaving /\ t # Idle
  BY DEF Locking, Leaving, IInv, CpuOK
<1>2. /\ k \in Kernel /\ Apart(k) /\ Timed(k) /\ IdleReady(k) /\ t \in Hung(k) /\ k.cur \in Task
      /\ TaskOK(t) /\ pc \in [Task -> Label] /\ prev \in [Task -> Tick] /\ use \in Uses
      /\ k.locks = 1 /\ k.pended <= use.maxPended /\ t \in ReadyTasks(k)
      /\ (~use.tickInHandler => TopOK(k))
  BY <1>1, Standing
<1>3. m \in Kernel /\ Apart(m) /\ Timed(m) /\ Blocks(k, m, k.cur) /\ k.cur \in Blocked(m)
  BY <1>2, AddDelayed
<1> HIDE DEF m
<1>4. Others(k, k', T) /\ t \in T /\ Blocks(k, k', t) /\ t \in Blocked(k') /\ k' = m
  <2>1. k' = m /\ Blocks(k, k', t)
    BY <1>3 DEF m
  <2> QED
    BY <1>3, <2>1, BlocksOthers
<1>5. /\ k'.live = k.live /\ k'.gone = k.gone /\ k'.asleep = k.asleep /\ k'.notify = k.notify
      /\ k'.pending = k.pending /\ k'.prio = k.prio /\ k'.top = k.top /\ k'.cur = t /\ k'.locks = 1
      /\ k'.pended = k.pended /\ k'.running = k.running /\ ReadyTasks(k') = ReadyTasks(k) \ {t}
  BY <1>2, <1>4 DEF Blocks, SameTasks, SameEvents, SameCpu, SameClock
<1>6. TaskOK(t)'
  <2>1. pc'[t] = "resumeAll"
    BY <1>2 DEF Goes
  <2>2. t \in Hung(k') /\ t \in k.live /\ t \notin k.gone /\ t \notin k.asleep /\ k.notify[t] # "WAITING"
    BY <1>2, <1>4 DEF TaskOK, TaskGood, Hung, Apart
  <2>3. TaskGood(k', "resumeAll", "IsrNotify" \in use.calls, t)
    BY <1>4, <1>5, <2>2 DEF TaskGood
  <2> QED
    BY <2>1, <2>3 DEF TaskOK
<1>7. Effect(T) /\ (~use.tickInHandler => TopOK(k')) /\ k'.pended <= use.maxPended
  BY <1>1, <1>2, <1>3, <1>4, <1>5, <1>6 DEF Effect, IdleReady, TopOK, Hung
<1>8. "resumeAll" \in Label /\ "resumeAll" \in Locking /\ "resumeAll" \in Leaving /\ 0 \in Tick \cup Task
  BY TicksAssumption DEF Label, Locking, Leaving, Tick
<1> HIDE DEF T
<1>9. After(t) /\ pc'[t] = "resumeAll"
  BY <1>1, <1>4, <1>7, <1>8, AfterGo
<1> QED
  BY <1>5, <1>7, <1>8, <1>9, LockedStep

\* The label of a task changes, outside the waits for a notification, and
\* nothing else of it does.
LEMMA LabelTask ==
    ASSUME NEW t, TaskOK(t), Same(k, k', t), use' = use, NEW label, pc'[t] = label,
           t \in k.live, pc[t] \notin {"take", "wait"}, label \notin {"take", "wait"}
    PROVE  TaskOK(t)'
<1>1. TaskGood(k, label, "IsrNotify" \in use.calls, t)
  BY DEF TaskOK, TaskGood
<1>2. TaskGood(k', label, "IsrNotify" \in use.calls, t)
  BY <1>1, GoodSame
<1> QED
  BY <1>2 DEF TaskOK

\* A delay that xTaskDelayUntil asks for is not zero, and does not wrap.
LEMMA Distance ==
    ASSUME NEW a \in Tick, NEW b \in Tick, NEW p \in Tick, xShouldDelay(a, p, b)
    PROVE  (b - a) % TickMod \in Tick \ {0}
<1>1. a # b
  BY TicksAssumption, Z3 DEF Tick, xShouldDelay
<1>2. (b - a) % TickMod = IF b >= a THEN b - a ELSE b - a + TickMod
  BY TicksAssumption, Z3 DEF Tick
<1> QED
  BY <1>1, <1>2, TicksAssumption, Z3 DEF Tick

\* vTaskDelay moves the running task to a delayed list.
LEMMA DelayAddInv ==
    ASSUME IInv, NEW t \in Task, DelayAdd(t), use' = use
    PROVE  IInv'
<1>1. /\ mode = "SYS" /\ k.cur = t /\ pc[t] = "delay" /\ mode' = mode /\ svc' = svc /\ prev' = prev
      /\ k' = prvAddCurrentTaskToDelayedList(k, arg[t], FALSE) /\ Goes(t, "resumeAll", 0)
  BY DEF DelayAdd, At, Goto, Goes
<1>2. ControlOK(t) /\ prev \in [Task -> Tick]
  BY <1>1, Standing
<1>3. arg[t] \in Tick \ {0}
  BY <1>1, <1>2 DEF ControlOK
<1> QED
  BY <1>1, <1>2, <1>3, DelayBlocks

\* xTaskDelayUntil moves the running task to a delayed list if the time it
\* asks for has not passed.
LEMMA DelayUntilAddInv ==
    ASSUME IInv, NEW t \in Task, DelayUntilAdd(t), use' = use
    PROVE  IInv'
<1> DEFINE w == TimeToWake(prev[t], arg[t])
           n == (w - k.tick) % TickMod
           T == {t}
<1>1. /\ mode = "SYS" /\ k.cur = t /\ pc[t] = "delayUntil" /\ mode' = mode /\ svc' = svc
      /\ prev' = [prev EXCEPT ![t] = w]
      /\ k' = (IF xShouldDelay(k.tick, prev[t], w) THEN prvAddCurrentTaskToDelayedList(k, n, FALSE) ELSE k)
      /\ Goes(t, "resumeAll", 0)
  BY DEF DelayUntilAdd, At, Goto, Goes
<1>2. /\ ControlOK(t) /\ TaskOK(t) /\ prev \in [Task -> Tick] /\ pc \in [Task -> Label] /\ k \in Kernel
      /\ Apart(k) /\ Timed(k) /\ IdleReady(k) /\ t \in Hung(k) /\ k.locks = 1 /\ k.pended <= use.maxPended
      /\ (~use.tickInHandler => TopOK(k)) /\ t # Idle
  BY <1>1, Standing DEF Locking
<1>3. arg[t] \in Tick /\ prev[t] \in Tick /\ k.tick \in Tick
  BY <1>1, <1>2, KernelFields DEF ControlOK
<1>4. w \in Tick
  <2>1. arg[t] \in Nat
    BY <1>3, TicksAssumption DEF Tick
  <2> QED
    BY <1>3, <2>1, TickAfter
<1> HIDE DEF w
<1>5. prev' \in [Task -> Tick]
  BY <1>1, <1>2, <1>4
<1>6. CASE xShouldDelay(k.tick, prev[t], w)
  <2>1. n \in Tick \ {0}
    BY <1>3, <1>4, <1>6, Distance
  <2> HIDE DEF n
  <2> QED
    BY <1>1, <1>5, <1>6, <2>1, DelayBlocks
<1>7. CASE ~xShouldDelay(k.tick, prev[t], w)
  <2>1. k' = k /\ "resumeAll" \in Label /\ "resumeAll" \in Locking /\ "resumeAll" \in Leaving /\ 0 \in Tick \cup Task
    BY <1>1, <1>7, TicksAssumption DEF Label, Locking, Leaving, Tick
  <2>2. pc'[t] = "resumeAll" /\ t \in k.live /\ Others(k, k', {t}) /\ Same(k, k', t)
    <3>1. pc'[t] = "resumeAll"
      BY <1>1, <1>2 DEF Goes
    <3>2. t \in k.live
      BY <1>2 DEF TaskOK, TaskGood
    <3>3. Others(k, k', {t})
      BY <2>1, OthersNone
    <3>4. Same(k, k', t)
      BY <2>1 DEF Same
    <3> QED
      BY <3>1, <3>2, <3>3, <3>4
  <2>3. TaskOK(t)'
    BY <1>1, <1>2, <2>2, LabelTask
  <2>4. Effect(T) /\ t \in T
    BY <1>1, <1>2, <2>1, <2>2, <2>3 DEF Effect, Others
  <2> HIDE DEF T
  <2>5. After(t) /\ pc'[t] = "resumeAll"
    BY <1>1, <1>2, <1>5, <2>1, <2>4, AfterGo
  <2> QED
    BY <1>1, <1>2, <2>1, <2>5, LockedStep
<1> QED
  BY <1>6, <1>7

\* xTaskResumeAll by the task that has the scheduler suspended.
LEMMA Unlock ==
    ASSUME IInv, NEW t \in Task, mode = "SYS", k.cur = t, pc[t] \in {"resumeAll", "locked"}, use' = use,
           k' = xTaskResumeAll(k).k, mode' = mode, svc' = svc, prev' = prev,
           NEW label, label = (IF pc[t] = "locked" \/ xTaskResumeAll(k).yielded THEN "run" ELSE "yield"),
           Goes(t, label, arg[t])
    PROVE  IInv'
<1> DEFINE r == xTaskResumeAll(k)
           m == r.k
           P == ToSet(k.pending)
           W == ReadyTasks(m) \ (ReadyTasks(k) \cup P)
           V == P \cup W
           T == V \cup {t}
<1>1. pc[t] \in Locking /\ pc[t] \notin {"take", "wait"} /\ (pc[t] = "locked" => pc[t] \notin Leaving)
  BY DEF Locking, Leaving
<1>2. /\ k \in Kernel /\ Apart(k) /\ Timed(k) /\ IdleReady(k) /\ t \in Hung(k) /\ k.cur \in Task
      /\ TaskOK(t) /\ pc \in [Task -> Label] /\ arg \in [Task -> Tick \cup Task] /\ prev \in [Task -> Tick]
      /\ k.locks = 1 /\ (pc[t] = "locked" => t \in ReadyTasks(k)) /\ \A u \in Task : TaskOK(u)
      /\ (~use.tickInHandler => TopOK(k)) /\ (t = Idle => pc[t] \in {"run", "yield"})
      /\ (~use.tickInHandler /\ ~k.yield /\ pc[t] = "locked" => Highest(k))
  BY <1>1, Standing
<1>3. /\ r.yielded \in BOOLEAN /\ m \in Kernel /\ Apart(m) /\ Timed(m) /\ Roused(k, m, P, W)
      /\ m.locks = 0 /\ m.pended = 0 /\ m.pending = <<>> /\ ~m.yield
      /\ (TopOK(k) => TopOK(m))
      /\ (r.yielded => m.cur \in ReadyTasks(m) /\ (TopOK(k) => Highest(m)))
      /\ (~r.yielded => m.cur = k.cur /\ ~k.yield /\ (Highest(k) => Highest(m)))
  BY <1>2, ResumeScheduler
<1>4. Others(k, m, V)
  BY <1>3, RousedOthers
<1>5. /\ label \in Label /\ label \notin Locking /\ label \notin {"take", "wait", "free", "created"} /\ t # Idle
      /\ (label = "yield" => label \in Leaving) /\ (label # "run" => label = "yield")
  BY <1>1, <1>2 DEF Label, Locking, Leaving
<1> HIDE DEF r, m, P, W
<1>6. k' = m /\ label = (IF pc[t] = "locked" \/ r.yielded THEN "run" ELSE "yield")
  BY DEF m, r
<1>7. ReadyTasks(m) = ReadyTasks(k) \cup V /\ SameTasks(k, m) /\ m.running = k.running /\ W \subseteq Blocked(k)
  BY <1>3 DEF Roused
<1>8. pc'[t] = label /\ \A u \in Task \ {t} : pc'[u] = pc[u]
  BY <1>2 DEF Goes
<1>9. ASSUME NEW u \in Task, u \in V PROVE TaskOK(u)'
  <2>1. TaskOK(u) /\ u \in ReadyTasks(m) /\ u \in Hung(m) /\ u \notin m.suspended \cup Blocked(m)
    BY <1>2, <1>3, <1>7, <1>9 DEF Hung, Apart, Blocked
  <2>2. u \in Hung(k) /\ u \notin k.asleep
    <3>1. CASE u \in P
      BY <2>1, <3>1 DEF TaskOK, TaskGood, P, Hung
    <3>2. CASE u \in W
      <4>1. u \in Blocked(k) /\ u \notin k.suspended
        BY <1>2, <1>7, <3>2 DEF Apart, Blocked
      <4> QED
        BY <2>1, <4>1 DEF TaskOK, TaskGood, Hung
    <3> QED
      BY <1>9, <3>1, <3>2
  <2>3. u \notin ToSet(m.pending)
    BY <1>3, EmptyList
  <2>4. m.notify[u] = "WAITING" => pc'[u] \in {"take", "wait"}
    BY <1>1, <1>7, <1>8, <2>1 DEF TaskOK, TaskGood, SameTasks
  <2>5. TaskGood(m, pc'[u], "IsrNotify" \in use.calls, u)
    BY <1>7, <2>1, <2>2, <2>3, <2>4 DEF TaskOK, TaskGood, SameTasks
  <2> QED
    BY <1>6, <2>5 DEF TaskOK
<1>10. t \in k.live \ k.gone
  BY <1>2 DEF TaskOK, TaskGood
<1>11. TaskOK(t)'
  <2>1. ASSUME t \notin V PROVE TaskOK(t)'
    <3>1. Same(k, k', t)
      BY <1>4, <1>6, <2>1 DEF Others
    <3> HIDE DEF V
    <3> QED
      BY <1>1, <1>2, <1>5, <1>8, <1>10, <3>1, LabelTask
  <2> QED
    BY <1>9, <2>1
<1>12. m.cur \in Hung(m)
  <2>1. t \in Hung(m)
    BY <1>6, <1>7, <1>10, <1>11 DEF TaskOK, TaskGood, SameTasks
  <2> QED
    BY <1>3, <2>1 DEF Hung
<1>13. Effect(T) /\ t \in T
  <2>1. Others(k, k', T)
    BY <1>4, <1>6 DEF Others
  <2>2. IdleReady(k')
    BY <1>2, <1>6, <1>7 DEF IdleReady, SameTasks
  <2> QED
    BY <1>3, <1>6, <1>7, <1>9, <1>11, <1>12, <2>1, <2>2 DEF Effect, SameTasks
<1>14. k'.cur \in ReadyTasks(k') \/ (k'.cur = t /\ label \in Leaving)
  BY <1>2, <1>3, <1>5, <1>6, <1>7
<1>15. ~use.tickInHandler => TopOK(k') /\ (Highest(k') \/ (k'.cur = t /\ label \in Leaving))
  BY <1>2, <1>3, <1>5, <1>6
<1>16. arg[t] \in Tick \cup Task
  BY <1>2
<1> HIDE DEF V, T
<1>17. After(t) /\ pc'[t] = label
  BY <1>2, <1>5, <1>13, <1>16, AfterGo
<1> QED
  BY <1>3, <1>5, <1>6, <1>14, <1>15, <1>17, FreeStep

\* The end of a delay: xTaskResumeAll catches up with the ticks and wakes it
\* missed, and the task yields.
LEMMA DelayResumeInv ==
    ASSUME IInv, NEW t \in Task, DelayResume(t), use' = use
    PROVE  IInv'
<1> DEFINE label == IF pc[t] = "locked" \/ xTaskResumeAll(k).yielded THEN "run" ELSE "yield"
<1>1. /\ mode = "SYS" /\ k.cur = t /\ pc[t] = "resumeAll" /\ mode' = mode /\ svc' = svc /\ prev' = prev /\ arg' = arg
      /\ k' = xTaskResumeAll(k).k /\ pc' = [pc EXCEPT ![t] = label]
  BY DEF DelayResume, At, Goto, Rest
<1>2. Goes(t, label, arg[t])
  BY <1>1 DEF Goes, IInv, Typed
<1>3. label = (IF pc[t] = "locked" \/ xTaskResumeAll(k).yielded THEN "run" ELSE "yield")
  OBVIOUS
<1> HIDE DEF label
<1> QED
  BY <1>1, <1>2, <1>3, Unlock

\* The application resumes the scheduler.
LEMMA ResumeAllInv ==
    ASSUME IInv, NEW t \in Task, ResumeAll(t), use' = use
    PROVE  IInv'
<1> DEFINE label == IF pc[t] = "locked" \/ xTaskResumeAll(k).yielded THEN "run" ELSE "yield"
<1>1. /\ mode = "SYS" /\ k.cur = t /\ pc[t] = "locked" /\ mode' = mode /\ svc' = svc /\ prev' = prev /\ arg' = arg
      /\ k' = xTaskResumeAll(k).k /\ pc' = [pc EXCEPT ![t] = label]
  BY DEF ResumeAll, At, Goto, Rest
<1>2. Goes(t, label, arg[t])
  BY <1>1 DEF Goes, IInv, Typed
<1>3. label = (IF pc[t] = "locked" \/ xTaskResumeAll(k).yielded THEN "run" ELSE "yield")
  OBVIOUS
<1> HIDE DEF label
<1> QED
  BY <1>1, <1>2, <1>3, Unlock

\* vTaskSwitchContext with the scheduler enabled.
LEMMA SwitchTimed ==
    ASSUME NEW a \in Kernel, Apart(a), Timed(a), IdleReady(a), a.locks = 0
    PROVE  LET m == vTaskSwitchContext(a) IN
           /\ m \in Kernel /\ Apart(m) /\ Timed(m) /\ Others(a, m, {})
           /\ ReadyTasks(m) = ReadyTasks(a) /\ Blocked(m) = Blocked(a) /\ m.suspended = a.suspended
           /\ SameTasks(a, m) /\ SameClock(a, m) /\ SameEvents(a, m)
           /\ m.locks = 0 /\ m.running = a.running /\ m.yield = FALSE
           /\ m.cur \in ReadyTasks(m) /\ (TopOK(a) => TopOK(m) /\ Highest(m))
<1> DEFINE m == vTaskSwitchContext(a)
<1>1. /\ m \in Kernel /\ Apart(m) /\ Switched(a, m)
      /\ m.yield = FALSE /\ m.cur \in ReadyTasks(a) /\ m.top = a.prio[m.cur]
      /\ (\A u \in ReadyTasks(a) : a.prio[u] <= a.top) => \A u \in ReadyTasks(a) : a.prio[u] <= a.prio[m.cur]
  BY SwitchContext
<1> HIDE DEF m
<1>2. Others(a, m, {})
  BY <1>1, SwitchedOthers
<1>3. /\ ReadyTasks(m) = ReadyTasks(a) /\ Blocked(m) = Blocked(a) /\ m.suspended = a.suspended
      /\ SameTasks(a, m) /\ SameClock(a, m) /\ SameEvents(a, m)
      /\ m.locks = 0 /\ m.running = a.running
  BY <1>1 DEF Switched, Blocked
<1>4. Timed(m)
  BY <1>1 DEF Switched, SameClock, Timed
<1>5. TopOK(a) => TopOK(m) /\ Highest(m)
  BY <1>1, <1>3 DEF TopOK, Highest, SameTasks
<1> QED
  BY <1>1, <1>2, <1>3, <1>4, <1>5 DEF m

\* Nobody is put into xPendingReadyList.
LEMMA PendingEmpty ==
    ASSUME NEW T, k \in Kernel, k' \in Kernel, Others(k, k', T), k.pending = <<>>, \A u \in T : u \notin ToSet(k'.pending)
    PROVE  k'.pending = <<>>
<1>1. k'.pending \in TaskList
  BY KernelFields
<1>2. ToSet(k'.pending) \subseteq Task
  BY <1>1, TaskLists
<1>3. ToSet(k.pending) = {}
  BY EmptyList
<1>4. ToSet(k'.pending) = {}
  BY <1>2, <1>3 DEF Others, Same
<1> QED
  BY <1>1, <1>4, TaskLists

\* A task the application has a handle of.
LEMMA HandleTask ==
    ASSUME IInv, NEW u \in Task, Handle(u)
    PROVE  u \in Hung(k) /\ u \in k.live /\ u \notin k.gone /\ TaskOK(u)
<1>1. u \in Hung(k) /\ TaskOK(u)
  BY DEF Handle, Hung, IInv
<1> QED
  BY <1>1 DEF TaskOK, TaskGood

\* Whoever is current is in a list as long as it is right.
LEMMA CurHung ==
    ASSUME NEW t, TaskOK(t)', t \in k'.live \ k'.gone
    PROVE  t \in Hung(k')
BY DEF TaskOK, TaskGood

\* vTaskSuspend takes a task out of all its lists, a wait for a notification
\* included.
LEMMA vTaskSuspendInv ==
    ASSUME IInv, NEW t \in Task, NEW u \in Task, vTaskSuspend(t, u), use' = use
    PROVE  IInv'
<1> DEFINE m == SuspendTask(k, u)
           T == {t, u}
           label == IF u = t THEN "suspendSelf" ELSE "suspendOther"
<1>1. /\ mode = "SYS" /\ k.cur = t /\ pc[t] = "run" /\ t # Idle /\ u # Idle /\ Handle(u)
      /\ k' = m /\ pc' = [pc EXCEPT ![t] = label] /\ mode' = mode /\ svc' = svc /\ prev' = prev /\ arg' = arg
  BY DEF vTaskSuspend, At, Goto, Rest
<1>2. pc[t] \notin Locking /\ pc[t] \notin Leaving
  BY <1>1 DEF Locking, Leaving
<1>3. /\ k \in Kernel /\ Apart(k) /\ Timed(k) /\ IdleReady(k) /\ t \in Hung(k)
      /\ TaskOK(t) /\ pc \in [Task -> Label] /\ arg \in [Task -> Tick \cup Task] /\ prev \in [Task -> Tick]
      /\ k.locks = 0 /\ k.pended = 0 /\ k.pending = <<>> /\ t \in ReadyTasks(k)
      /\ (~use.tickInHandler => TopOK(k)) /\ (~use.tickInHandler /\ ~k.yield => Highest(k))
  BY <1>1, <1>2, Standing
<1>4. u \in Hung(k) /\ u \in k.live /\ u \notin k.gone /\ t \in k.live /\ t \notin k.gone
  BY <1>1, <1>3, HandleTask DEF TaskOK, TaskGood
<1>5. /\ m \in Kernel /\ Apart(m) /\ Timed(m) /\ Others(k, m, {u}) /\ Steady(k, m)
      /\ m.top = k.top /\ m.live = k.live /\ m.gone = k.gone /\ m.prio = k.prio
      /\ u \in m.suspended /\ u \in m.asleep /\ u \notin ToSet(m.pending)
      /\ m.notify[u] # "WAITING"
  BY <1>3, Suspend
<1> HIDE DEF m
<1>6. /\ label \in Label /\ label \notin Locking /\ label \notin {"take", "wait", "free", "created"}
      /\ (u = t => label \in Leaving)
  BY DEF Label, Locking, Leaving
<1> HIDE DEF label
<1>7. pc'[t] = label /\ Goes(t, label, arg[t]) /\ arg[t] \in Tick \cup Task
  BY <1>1, <1>3 DEF Goes
<1>8. TaskOK(u)'
  <2>1. u \in Hung(m)
    BY <1>5 DEF Hung
  <2>2. TaskGood(m, pc'[u], "IsrNotify" \in use.calls, u)
    BY <1>4, <1>5, <2>1 DEF TaskGood
  <2> QED
    BY <1>1, <2>2 DEF TaskOK
<1>9. t # u => Same(k, k', t) /\ TaskOK(t)'
  <2> SUFFICES ASSUME t # u PROVE Same(k, k', t) /\ TaskOK(t)'
    OBVIOUS
  <2>1. Same(k, k', t)
    BY <1>1, <1>5 DEF Others
  <2> QED
    BY <1>1, <1>3, <1>4, <1>6, <1>7, <2>1, LabelTask
<1>10. t \in Hung(k')
  BY <1>1, <1>4, <1>5, <1>8, <1>9, CurHung
<1>11. ReadyTasks(k') = ReadyTasks(k) \ {u}
  <2>1. u \notin ReadyTasks(k')
    BY <1>1, <1>5 DEF Apart
  <2>2. \A v \in Task \ {u} : v \in ReadyTasks(k') <=> v \in ReadyTasks(k)
    BY <1>1, <1>5 DEF Others, Same
  <2>3. \A v \in ReadyTasks(k') \cup ReadyTasks(k) : v \in Task
    BY <1>1, <1>3, <1>5, ReadyHere
  <2> QED
    BY <2>1, <2>2, <2>3
<1>12. k'.pending = <<>>
  BY <1>1, <1>3, <1>5, PendingEmpty
<1>13. Effect(T) /\ t \in T
  <2>1. Others(k, k', T)
    BY <1>1, <1>5 DEF Others
  <2>2. IdleReady(k')
    BY <1>1, <1>3, <1>5, <1>11 DEF IdleReady
  <2> QED
    BY <1>1, <1>5, <1>8, <1>9, <1>10, <2>1, <2>2 DEF Effect, Steady, SameCpu
<1>14. /\ k'.cur = t /\ k'.locks = 0 /\ k'.pended = 0 /\ k'.yield = k.yield
       /\ (~use.tickInHandler => TopOK(k'))
       /\ (~use.tickInHandler /\ ~k'.yield /\ u # t => Highest(k'))
       /\ (t \in ReadyTasks(k') \/ label \in Leaving)
  BY <1>1, <1>3, <1>5, <1>6, <1>11 DEF Steady, SameCpu, SameClock, TopOK, Highest
<1> HIDE DEF T
<1>15. After(t)
  BY <1>1, <1>3, <1>6, <1>7, <1>13, AfterGo
<1> QED
  BY <1>6, <1>7, <1>12, <1>14, <1>15, FreeStep

\* The second critical section of vTaskSuspend.
LEMMA SuspendResetInv ==
    ASSUME IInv, NEW t \in Task, SuspendReset(t), use' = use
    PROVE  IInv'
<1> DEFINE m == prvResetNextTaskUnblockTime(k)
           T == {t}
           label == IF pc[t] = "suspendSelf" THEN "yield" ELSE "run"
<1>1. /\ mode = "SYS" /\ k.cur = t /\ pc[t] \in {"suspendSelf", "suspendOther"}
      /\ k' = m /\ pc' = [pc EXCEPT ![t] = label] /\ mode' = mode /\ svc' = svc /\ prev' = prev /\ arg' = arg
  BY DEF SuspendReset, At, Goto, Rest
<1>2. pc[t] \notin Locking /\ (pc[t] # "suspendSelf" => pc[t] \notin Leaving) /\ pc[t] \notin {"run", "yield", "take", "wait", "created"}
  BY <1>1 DEF Locking, Leaving
<1>3. /\ k \in Kernel /\ Apart(k) /\ Timed(k) /\ IdleReady(k) /\ t \in Hung(k)
      /\ TaskOK(t) /\ pc \in [Task -> Label] /\ arg \in [Task -> Tick \cup Task] /\ prev \in [Task -> Tick]
      /\ k.locks = 0 /\ k.pended = 0 /\ k.pending = <<>> /\ (pc[t] # "suspendSelf" => t \in ReadyTasks(k)) /\ t # Idle
      /\ (~use.tickInHandler => TopOK(k)) /\ (~use.tickInHandler /\ ~k.yield /\ pc[t] # "suspendSelf" => Highest(k))
  BY <1>1, <1>2, Standing
<1>4. /\ m \in Kernel /\ Apart(m) /\ Timed(m) /\ Others(k, m, {}) /\ Steady(k, m)
      /\ m.top = k.top /\ SameTasks(k, m) /\ SameState(k, m) /\ SameEvents(k, m)
      /\ ReadyTasks(m) = ReadyTasks(k) /\ Hung(m) = Hung(k)
  BY <1>3, ResetTimed
<1> HIDE DEF m
<1>5. /\ label \in Label /\ label \notin Locking /\ label \notin {"take", "wait", "free", "created"}
      /\ (pc[t] = "suspendSelf" => label \in Leaving)
  BY DEF Label, Locking, Leaving
<1> HIDE DEF label
<1>6. pc'[t] = label /\ Goes(t, label, arg[t]) /\ arg[t] \in Tick \cup Task
  BY <1>1, <1>3 DEF Goes
<1>7. TaskOK(t)'
  <2>1. Same(k, k', t) /\ t \in k.live
    BY <1>1, <1>3, <1>4 DEF Others, TaskOK, TaskGood
  <2> QED
    BY <1>2, <1>3, <1>5, <1>6, <2>1, LabelTask
<1>8. Effect(T) /\ t \in T
  BY <1>1, <1>3, <1>4, <1>7 DEF Effect, Steady, SameCpu, SameTasks, IdleReady, Others
<1>9. /\ k'.cur = t /\ k'.locks = 0 /\ k'.pended = 0 /\ k'.yield = k.yield /\ k'.pending = <<>>
      /\ (~use.tickInHandler => TopOK(k'))
      /\ (~use.tickInHandler /\ ~k'.yield /\ pc[t] # "suspendSelf" => Highest(k'))
      /\ (t \in ReadyTasks(k') \/ label \in Leaving)
  BY <1>1, <1>3, <1>4, <1>5 DEF Steady, SameCpu, SameClock, SameEvents, SameTasks, TopOK, Highest
<1> HIDE DEF T
<1>10. After(t)
  BY <1>1, <1>3, <1>5, <1>6, <1>8, AfterGo
<1> QED
  BY <1>5, <1>6, <1>9, <1>10, FreeStep

\* A kernel state reached with the scheduler enabled, before the current task
\* is chosen anew: something has happened to the tasks of T.
Middle(m, T) ==
    /\ m \in Kernel /\ Apart(m) /\ Timed(m) /\ Others(k, m, T)
    /\ \A u \in T : u \in Task => TaskGood(m, pc[u], "IsrNotify" \in use.calls, u)
    /\ IdleReady(m) /\ m.locks = 0 /\ m.pended = 0 /\ m.pending = <<>>
    /\ m.running = k.running /\ k.gone \subseteq m.gone /\ m.cur = k.cur /\ k.cur \in Hung(m)
    /\ ~use.tickInHandler => TopOK(m)

\* The current task may go on.
MayStay(m, t) ==
    /\ t \in ReadyTasks(m) \/ pc[t] \in Leaving
    /\ ~use.tickInHandler =>
          \/ m.yield \/ pc[t] \in Leaving
          \/ \A u \in ReadyTasks(m) : m.prio[u] <= m.prio[t] \/ (pc[t] = "created" /\ u = arg[t])

\* The current task t stays, or another one is chosen.
LEMMA MaybeSwitch ==
    ASSUME IInv, NEW t \in Task, mode \in {"SYS", "IRQ"}, k.cur = t, pc[t] \notin Locking, use' = use,
           mode' = mode, svc' = svc, prev' = prev, pc' = pc, arg' = arg,
           NEW m, NEW T, Middle(m, T), NEW y \in BOOLEAN, k' = IF y THEN vTaskSwitchContext(m) ELSE m,
           ~y => MayStay(m, t)
    PROVE  IInv'
<1>1. CASE y
  <2> DEFINE n == vTaskSwitchContext(m)
  <2>1. /\ m \in Kernel /\ Apart(m) /\ Timed(m) /\ IdleReady(m) /\ m.locks = 0 /\ Others(k, m, T)
        /\ m.pended = 0 /\ m.pending = <<>> /\ m.running = k.running /\ k.gone \subseteq m.gone
        /\ (~use.tickInHandler => TopOK(m))
    BY DEF Middle
  <2>2. /\ n \in Kernel /\ Apart(n) /\ Timed(n) /\ Others(m, n, {})
        /\ ReadyTasks(n) = ReadyTasks(m) /\ Blocked(n) = Blocked(m) /\ n.suspended = m.suspended
        /\ SameTasks(m, n) /\ SameClock(m, n) /\ SameEvents(m, n)
        /\ n.locks = 0 /\ n.running = m.running /\ n.yield = FALSE
        /\ n.cur \in ReadyTasks(n) /\ (TopOK(m) => TopOK(n) /\ Highest(n))
    BY <2>1, SwitchTimed
  <2> HIDE DEF n
  <2>3. k' = n
    BY <1>1 DEF n
  <2>4. ASSUME NEW u \in T, u \in Task PROVE TaskOK(u)'
    <3>1. TaskGood(m, pc[u], "IsrNotify" \in use.calls, u) /\ Same(m, n, u)
      BY <2>2, <2>4 DEF Middle, Others
    <3>2. TaskGood(n, pc[u], "IsrNotify" \in use.calls, u)
      BY <3>1, GoodSame
    <3> QED
      BY <2>3, <3>2 DEF TaskOK
  <2>5. Others(k, n, T)
    BY <2>1, <2>2 DEF Others, Same
  <2>6. Effect(T)
    BY <2>1, <2>2, <2>3, <2>4, <2>5 DEF Effect, IdleReady, SameTasks, Hung
  <2>7. After(t) /\ pc'[t] = pc[t]
    BY <2>6, AfterStay
  <2> QED
    BY <2>1, <2>2, <2>3, <2>7, FreeStep DEF SameClock, SameEvents
<1>2. CASE ~y
  <2>1. k' = m
    BY <1>2
  <2>2. /\ m \in Kernel /\ Apart(m) /\ Timed(m) /\ IdleReady(m) /\ m.locks = 0 /\ Others(k, m, T)
        /\ m.pended = 0 /\ m.pending = <<>> /\ m.running = k.running /\ k.gone \subseteq m.gone
        /\ m.cur = t /\ t \in Hung(m) /\ (~use.tickInHandler => TopOK(m))
    BY DEF Middle
  <2>3. ASSUME NEW u \in T, u \in Task PROVE TaskOK(u)'
    BY <2>1, <2>3 DEF Middle, TaskOK
  <2>4. Effect(T)
    BY <2>1, <2>2, <2>3 DEF Effect
  <2>5. After(t) /\ pc'[t] = pc[t] /\ arg'[t] = arg[t]
    BY <2>4, AfterStay
  <2>6. /\ t \in ReadyTasks(m) \/ pc[t] \in Leaving
        /\ ~use.tickInHandler =>
              \/ m.yield \/ pc[t] \in Leaving
              \/ \A u \in ReadyTasks(m) : m.prio[u] <= m.prio[t] \/ (pc[t] = "created" /\ u = arg[t])
    BY <1>2 DEF MayStay
  <2> QED
    BY <2>1, <2>2, <2>5, <2>6, FreeStep
<1> QED
  BY <1>1, <1>2

\* A task that is in a list stays in one when it becomes ready, and then
\* nobody waits for it.
LEMMA RisenGood ==
    ASSUME NEW a, NEW m, NEW label, NEW isr, NEW u \in Task, TaskGood(a, label, isr, u), u \in Hung(a),
           Risen(a, m, u), a.pending = <<>>, u \notin m.asleep, m.notify[u] = "WAITING" => a.notify[u] = "WAITING"
    PROVE  TaskGood(m, label, isr, u)
<1>1. u \in ReadyTasks(m) /\ u \in Hung(m) /\ u \notin m.suspended \cup Blocked(m) /\ m.live = a.live /\ m.gone = a.gone
  BY DEF Risen, Hung, Apart, Blocked
<1>2. u \notin ToSet(m.pending)
  BY EmptyList DEF Risen
<1> QED
  BY <1>1, <1>2 DEF TaskGood

\* The current task has made another one ready.
LEMMA RisenMiddle ==
    ASSUME IInv, NEW t \in Task, mode \in {"SYS", "IRQ"}, k.cur = t, pc[t] \notin Locking, NEW u \in Task, NEW m, Risen(k, m, u),
           TaskGood(m, pc[u], "IsrNotify" \in use.calls, u)
    PROVE  Middle(m, {u})
<1>1. /\ k \in Kernel /\ Apart(k) /\ IdleReady(k) /\ t \in Hung(k) /\ k.locks = 0 /\ k.pended = 0 /\ k.pending = <<>>
      /\ (~use.tickInHandler => TopOK(k))
  BY Standing
<1>2. t \in Hung(m)
  <2>1. CASE t = u
    BY <2>1 DEF Risen, Hung
  <2>2. CASE t # u
    BY <1>1, <2>2 DEF Risen, Others, Same, Hung
  <2> QED
    BY <2>1, <2>2
<1>3. IdleReady(m)
  BY <1>1 DEF Risen, IdleReady
<1> QED
  BY <1>1, <1>2, <1>3 DEF Middle, Risen, SameClock, SameCpu

\* Nothing has happened.
LEMMA NothingMiddle ==
    ASSUME IInv, NEW t \in Task, mode \in {"SYS", "IRQ"}, k.cur = t, pc[t] \notin Locking
    PROVE  Middle(k, {})
<1>1. /\ k \in Kernel /\ Apart(k) /\ Timed(k) /\ IdleReady(k) /\ t \in Hung(k) /\ k.locks = 0 /\ k.pended = 0 /\ k.pending = <<>>
      /\ (~use.tickInHandler => TopOK(k))
  BY Standing
<1> QED
  BY <1>1, OthersNone DEF Middle

\* vTaskResume, with the switch to the resumed task.
LEMMA vTaskResumeInv ==
    ASSUME IInv, NEW t \in Task, NEW u \in Task, vTaskResume(t, u), use' = use
    PROVE  IInv'
<1> DEFINE r == ResumeTask(k, u)
           m == r.k
           T == {u}
           N == {}
<1>1. /\ mode = "SYS" /\ k.cur = t /\ pc[t] = "run" /\ Handle(u) /\ k' = (IF r.yield THEN vTaskSwitchContext(m) ELSE m)
      /\ pc' = pc /\ mode' = mode /\ svc' = svc /\ prev' = prev /\ arg' = arg
  BY DEF vTaskResume, At, Rest
<1>2. pc[t] \notin Locking /\ pc[t] \notin Leaving
  BY <1>1 DEF Locking, Leaving
<1>3. /\ k \in Kernel /\ Apart(k) /\ Timed(k) /\ k.cur \in Task /\ k.pending = <<>> /\ t \in ReadyTasks(k)
      /\ (~use.tickInHandler /\ ~k.yield => Highest(k)) /\ \A v \in Task : k.prio[v] \in Int
  BY <1>1, <1>2, Standing
<1>4. \/ m = k /\ r.yield = FALSE
      \/ /\ u \in k.suspended /\ Risen(k, m, u) /\ m.yield = k.yield
         /\ u \notin m.asleep /\ m.notify = k.notify /\ r.yield \in BOOLEAN /\ (~r.yield => k.prio[u] < k.prio[k.cur])
  BY <1>3, Resume
<1> HIDE DEF r, m
<1>5. CASE m = k /\ r.yield = FALSE
  <2>1. Middle(m, N)
    BY <1>1, <1>2, <1>5, NothingMiddle
  <2> HIDE DEF N
  <2>2. MayStay(m, t)
    BY <1>1, <1>3, <1>5 DEF MayStay, Highest
  <2> QED
    BY <1>1, <1>2, <1>5, <2>1, <2>2, MaybeSwitch
<1>6. CASE /\ u \in k.suspended /\ Risen(k, m, u) /\ m.yield = k.yield
           /\ u \notin m.asleep /\ m.notify = k.notify /\ r.yield \in BOOLEAN /\ (~r.yield => k.prio[u] < k.prio[k.cur])
  <2>1. TaskOK(u) /\ u \in Hung(k)
    BY <1>1, HandleTask
  <2>2. TaskGood(m, pc[u], "IsrNotify" \in use.calls, u)
    BY <1>3, <1>6, <2>1, RisenGood DEF TaskOK
  <2>3. Middle(m, T)
    BY <1>1, <1>2, <1>6, <2>2, RisenMiddle
  <2> HIDE DEF T
  <2>4. ~r.yield => MayStay(m, t)
    BY <1>1, <1>3, <1>6 DEF MayStay, Highest, Risen
  <2>5. r.yield \in BOOLEAN
    BY <1>6
  <2> QED
    BY <1>1, <1>2, <2>3, <2>4, <2>5, MaybeSwitch
<1> QED
  BY <1>4, <1>5, <1>6

\* A task notifies another, with the switch to it.
LEMMA NotifyInv ==
    ASSUME IInv, NEW t \in Task, NEW u \in Task, NEW a \in eNotifyAction, Notify(t, u, a), use' = use
    PROVE  IInv'
<1> DEFINE r == xTaskGenericNotify(k, u, a)
           m == r.k
           T == {u}
<1>1. /\ mode = "SYS" /\ k.cur = t /\ pc[t] = "run" /\ Handle(u) /\ k' = (IF r.yield THEN vTaskSwitchContext(m) ELSE m)
      /\ pc' = pc /\ mode' = mode /\ svc' = svc /\ prev' = prev /\ arg' = arg
  BY DEF Notify, At, Rest
<1>2. pc[t] \notin Locking /\ pc[t] \notin Leaving
  BY <1>1 DEF Locking, Leaving
<1>3. /\ k \in Kernel /\ Apart(k) /\ Timed(k) /\ k.cur \in Task /\ k.pending = <<>> /\ t \in ReadyTasks(k) /\ IdleReady(k)
      /\ t \in Hung(k) /\ k.locks = 0 /\ k.pended = 0 /\ (~use.tickInHandler => TopOK(k))
      /\ (~use.tickInHandler /\ ~k.yield => Highest(k)) /\ \A v \in Task : k.prio[v] \in Int
  BY <1>1, <1>2, Standing
<1>4. /\ m.notify[u] = "RECEIVED" /\ m.asleep = k.asleep /\ m.yield = k.yield
      /\ \/ k.notify[u] # "WAITING" /\ Marked(k, m, u) /\ r.yield = FALSE
         \/ /\ k.notify[u] = "WAITING" /\ Risen(k, m, u)
            /\ r.yield \in BOOLEAN /\ (~r.yield => k.prio[u] <= k.prio[k.cur])
  BY <1>3, GenericNotify
<1> HIDE DEF r, m
<1>5. TaskOK(u) /\ u \in Hung(k)
  BY <1>1, HandleTask
<1>6. CASE k.notify[u] # "WAITING" /\ Marked(k, m, u) /\ r.yield = FALSE
  <2>1. TaskGood(m, pc[u], "IsrNotify" \in use.calls, u)
    <3>1. Hung(m) = Hung(k)
      BY <1>6 DEF Marked, SameState, Hung
    <3> QED
      BY <1>4, <1>5, <1>6, <3>1 DEF TaskOK, TaskGood, Marked, SameState, SameEvents
  <2>2. Middle(m, T)
    <3>1. t \in Hung(m) /\ IdleReady(m)
      BY <1>3, <1>6 DEF Marked, SameState, Hung, IdleReady
    <3>2. ~use.tickInHandler => TopOK(m)
      BY <1>3, <1>6 DEF Marked, TopOK
    <3> QED
      BY <1>1, <1>3, <1>6, <2>1, <3>1, <3>2 DEF Middle, Marked, SameClock, SameCpu, SameEvents
  <2> HIDE DEF T
  <2>3. MayStay(m, t)
    BY <1>1, <1>3, <1>4, <1>6 DEF MayStay, Highest, Marked
  <2> QED
    BY <1>1, <1>2, <1>6, <2>2, <2>3, MaybeSwitch
<1>7. CASE /\ k.notify[u] = "WAITING" /\ Risen(k, m, u)
           /\ r.yield \in BOOLEAN /\ (~r.yield => k.prio[u] <= k.prio[k.cur])
  <2>1. u \notin k.asleep
    BY <1>5, <1>7 DEF TaskOK, TaskGood
  <2>2. TaskGood(m, pc[u], "IsrNotify" \in use.calls, u)
    BY <1>3, <1>4, <1>5, <1>7, <2>1, RisenGood DEF TaskOK
  <2>3. Middle(m, T)
    BY <1>1, <1>2, <1>7, <2>2, RisenMiddle
  <2> HIDE DEF T
  <2>4. ~r.yield => MayStay(m, t)
    BY <1>1, <1>3, <1>4, <1>7 DEF MayStay, Highest, Risen
  <2>5. r.yield \in BOOLEAN
    BY <1>7
  <2> QED
    BY <1>1, <1>2, <2>3, <2>4, <2>5, MaybeSwitch
<1> QED
  BY <1>4, <1>6, <1>7

\* vTaskPrioritySet moves a ready task to the list of its new priority, and
\* switches when it must.
LEMMA PrioritySetInv ==
    ASSUME IInv, NEW t \in Task, NEW u \in Task, NEW p \in Priority, PrioritySet(t, u, p), use' = use
    PROVE  IInv'
<1> DEFINE r == vTaskPrioritySet(k, u, p)
           m == r.k
           T == {u}
<1>1. /\ mode = "SYS" /\ k.cur = t /\ pc[t] = "run" /\ Handle(u) /\ u # Idle
      /\ k' = (IF r.yield THEN vTaskSwitchContext(m) ELSE m)
      /\ pc' = pc /\ mode' = mode /\ svc' = svc /\ prev' = prev /\ arg' = arg
  BY DEF PrioritySet, At, Rest
<1>2. pc[t] \notin Locking /\ pc[t] \notin Leaving
  BY <1>1 DEF Locking, Leaving
<1>3. /\ k \in Kernel /\ Apart(k) /\ Timed(k) /\ k.cur \in Task /\ k.pending = <<>> /\ t \in ReadyTasks(k) /\ IdleReady(k)
      /\ t \in Hung(k) /\ k.locks = 0 /\ k.pended = 0 /\ (~use.tickInHandler => TopOK(k))
      /\ (~use.tickInHandler /\ ~k.yield => Highest(k))
  BY <1>1, <1>2, Standing
<1>4. /\ r.yield \in BOOLEAN /\ Reprioritised(k, m, u, p) /\ (Highest(k) /\ ~r.yield => Highest(m))
  BY <1>3, SetPriority
<1> HIDE DEF r, m
<1>5. TaskOK(u)
  BY <1>1, HandleTask
<1>6. Hung(m) = Hung(k) /\ Blocked(m) = Blocked(k)
  BY <1>4 DEF Reprioritised, Hung, Blocked
<1>7. k.prio \in [Task -> Priority]
  BY <1>3, KernelFields
<1>8. TaskGood(m, pc[u], "IsrNotify" \in use.calls, u)
  BY <1>4, <1>5, <1>6 DEF TaskOK, TaskGood, Reprioritised, SameEvents
<1>9. Others(k, m, T)
  BY <1>4, <1>6, <1>7 DEF Reprioritised, Others, Same, SameEvents
<1>10. IdleReady(m)
  BY <1>1, <1>3, <1>4, <1>7, TasksAssumption DEF IdleReady, Reprioritised
<1>11. Middle(m, T)
  BY <1>1, <1>3, <1>4, <1>6, <1>8, <1>9, <1>10 DEF Middle, Reprioritised, Steady, SameClock, SameCpu, SameEvents
<1>12. ~r.yield => MayStay(m, t)
  BY <1>1, <1>3, <1>4 DEF MayStay, Highest, Reprioritised, Steady, SameCpu
<1> HIDE DEF T
<1> QED
  BY <1>1, <1>2, <1>4, <1>11, <1>12, MaybeSwitch

\* The ready tasks when one task may have left.
LEMMA ReadyLess ==
    ASSUME NEW a \in Kernel, NEW m \in Kernel, Apart(a), Apart(m), NEW u, Others(a, m, {u}), u \notin ReadyTasks(m)
    PROVE  ReadyTasks(m) = ReadyTasks(a) \ {u}
<1>1. \A v \in Task \ {u} : v \in ReadyTasks(m) <=> v \in ReadyTasks(a)
  BY DEF Others, Same
<1>2. \A v \in ReadyTasks(m) \cup ReadyTasks(a) : v \in Task
  BY ReadyHere
<1> QED
  BY <1>1, <1>2

\* A running task creates another one.
LEMMA xTaskCreateInv ==
    ASSUME IInv, NEW t \in Task, NEW u \in User, NEW p \in Priority, xTaskCreate(t, u, p), use' = use
    PROVE  IInv'
<1> DEFINE m == prvAddNewTaskToReadyList(k, u, p)
           T == {t, u}
<1>1. /\ mode = "SYS" /\ k.cur = t /\ pc[t] = "run" /\ t # Idle /\ u \notin k.live /\ u \in Task /\ u # Idle
      /\ k' = m /\ pc' = [pc EXCEPT ![t] = "created"] /\ arg' = [arg EXCEPT ![t] = u]
      /\ mode' = mode /\ svc' = svc /\ prev' = prev
  BY DEF xTaskCreate, At, Goto, User
<1>2. pc[t] \notin Locking /\ pc[t] \notin Leaving
  BY <1>1 DEF Locking, Leaving
<1>3. /\ k \in Kernel /\ Apart(k) /\ Timed(k) /\ IdleReady(k) /\ t \in Hung(k)
      /\ TaskOK(t) /\ TaskOK(u) /\ pc \in [Task -> Label] /\ arg \in [Task -> Tick \cup Task] /\ prev \in [Task -> Tick]
      /\ k.locks = 0 /\ k.pended = 0 /\ k.pending = <<>> /\ t \in ReadyTasks(k)
      /\ (~use.tickInHandler => TopOK(k)) /\ (~use.tickInHandler /\ ~k.yield => Highest(k))
  BY <1>1, <1>2, Standing
<1>4. t \in k.live /\ t \notin k.gone /\ t # u /\ u \notin Hung(k) /\ u \notin k.gone /\ pc[u] = "run"
  BY <1>1, <1>3 DEF TaskOK, TaskGood
<1>5. k.running /\ k.cur # NULL
  BY <1>1, TasksAssumption DEF IInv, CpuOK
<1>6. /\ m \in Kernel /\ Apart(m) /\ Timed(m) /\ Others(k, m, {u}) /\ SameClock(k, m)
      /\ m.cur = k.cur
      /\ m.locks = k.locks /\ m.running = k.running /\ m.yield = k.yield
      /\ m.live = k.live \cup {u} /\ m.gone = k.gone
      /\ m.asleep = k.asleep /\ m.notify = k.notify /\ SameEvents(k, m)
      /\ ReadyTasks(m) = ReadyTasks(k) \cup {u} /\ Hung(m) = Hung(k) \cup {u}
      /\ (TopOK(k) => TopOK(m))
  <2>1. k.cur = NULL \/ k.cur \in Task
    BY <1>1
  <2> DEFINE first == k.cur = NULL
             takesOver == ~first /\ ~k.running /\ k.prio[k.cur] <= p
  <2>2. /\ m \in Kernel /\ Apart(m) /\ Timed(m) /\ Others(k, m, {u}) /\ SameClock(k, m)
        /\ m.cur = (IF first \/ takesOver THEN u ELSE k.cur)
        /\ m.locks = k.locks /\ m.running = k.running /\ m.yield = k.yield
        /\ m.live = k.live \cup {u} /\ m.gone = k.gone /\ m.prio[u] = p
        /\ m.asleep = k.asleep /\ m.notify = k.notify /\ SameEvents(k, m)
        /\ ReadyTasks(m) = ReadyTasks(k) \cup {u} /\ Hung(m) = Hung(k) \cup {u}
        /\ m.delayed = k.delayed /\ m.overflow = k.overflow
        /\ (TopOK(k) => TopOK(m))
    <3>1. k \in Kernel /\ Apart(k) /\ Timed(k) /\ u \in Task /\ u \notin Hung(k)
      BY <1>1, <1>3, <1>4
    <3> QED
      BY <2>1, <3>1, AddNew
  <2> HIDE DEF m
  <2> QED
    BY <1>5, <2>2
<1> HIDE DEF m
<1>7. "created" \in Label /\ "created" \notin Locking /\ "created" \notin {"take", "wait", "free"}
  BY DEF Label, Locking
<1>8. pc'[t] = "created" /\ pc'[u] = "run" /\ Goes(t, "created", u)
  BY <1>1, <1>3, <1>4 DEF Goes
<1>9. TaskOK(u)'
  <2>1. u \notin ToSet(m.pending)
    BY <1>3, <1>6, EmptyList DEF SameEvents
  <2>2. u \notin m.asleep
    BY <1>3, <1>4, <1>6 DEF TaskOK, TaskGood, Hung
  <2>3. m.notify[u] # "WAITING"
    BY <1>3, <1>4, <1>6 DEF TaskOK, TaskGood
  <2>4. TaskGood(m, "run", "IsrNotify" \in use.calls, u)
    BY <1>4, <1>6, <2>1, <2>2, <2>3 DEF TaskGood
  <2> QED
    BY <1>1, <1>8, <2>4 DEF TaskOK
<1>10. Same(k, k', t) /\ t \in Hung(k') /\ t \in ReadyTasks(k')
  BY <1>1, <1>3, <1>4, <1>6 DEF Others
<1>11. TaskOK(t)'
  BY <1>1, <1>3, <1>4, <1>7, <1>8, <1>10, LabelTask
<1>12. Effect(T) /\ t \in T
  <2>1. Others(k, k', T)
    BY <1>1, <1>6 DEF Others
  <2>2. IdleReady(k')
    BY <1>1, <1>3, <1>6, TasksAssumption DEF IdleReady, Others, Same
  <2> QED
    BY <1>1, <1>6, <1>9, <1>10, <1>11, <2>1, <2>2 DEF Effect
<1>13. /\ k'.cur = t /\ k'.locks = 0 /\ k'.pended = 0 /\ k'.pending = <<>> /\ k'.yield = k.yield
       /\ (~use.tickInHandler => TopOK(k'))
  BY <1>1, <1>3, <1>6 DEF SameClock, SameEvents
<1>14. ~use.tickInHandler /\ ~k'.yield => \A v \in ReadyTasks(k') : k'.prio[v] <= k'.prio[t] \/ v = u
  <2> SUFFICES ASSUME ~use.tickInHandler, ~k'.yield, NEW v \in ReadyTasks(k'), v # u PROVE k'.prio[v] <= k'.prio[t]
    OBVIOUS
  <2>1. v \in ReadyTasks(k) /\ v \in Task
    BY <1>1, <1>3, <1>6, ReadyHere
  <2>2. k'.prio[v] = k.prio[v] /\ k'.prio[t] = k.prio[t]
    BY <1>1, <1>6, <1>10, <2>1 DEF Others, Same
  <2> QED
    BY <1>1, <1>3, <1>13, <2>1, <2>2 DEF Highest
<1> HIDE DEF T
<1>15. After(t) /\ arg'[t] = u
  BY <1>1, <1>3, <1>7, <1>8, <1>12, AfterGo
<1> QED
  BY <1>7, <1>8, <1>10, <1>13, <1>14, <1>15, FreeStep

\* vTaskDelete takes a task out of its lists; the running one is left to the
\* idle task.
LEMMA vTaskDeleteInv ==
    ASSUME IInv, NEW t \in Task, NEW u \in Task, vTaskDelete(t, u), use' = use
    PROVE  IInv'
<1> DEFINE m == DeleteTask(k, u)
           T == {t, u}
<1>1. /\ mode = "SYS" /\ k.cur = t /\ pc[t] = "run" /\ t # Idle /\ u # Idle /\ Handle(u)
      /\ k' = m /\ pc' = [pc EXCEPT ![t] = IF u = t THEN "yield" ELSE "free"]
      /\ arg' = (IF u = t THEN arg ELSE [arg EXCEPT ![t] = u])
      /\ mode' = mode /\ svc' = svc /\ prev' = prev
  BY DEF vTaskDelete, At, Goto
<1>2. pc[t] \notin Locking /\ pc[t] \notin Leaving
  BY <1>1 DEF Locking, Leaving
<1>3. /\ k \in Kernel /\ Apart(k) /\ Timed(k) /\ IdleReady(k) /\ t \in Hung(k)
      /\ TaskOK(t) /\ pc \in [Task -> Label] /\ arg \in [Task -> Tick \cup Task] /\ prev \in [Task -> Tick]
      /\ k.locks = 0 /\ k.pended = 0 /\ k.pending = <<>> /\ t \in ReadyTasks(k)
      /\ (~use.tickInHandler => TopOK(k)) /\ (~use.tickInHandler /\ ~k.yield => Highest(k))
  BY <1>1, <1>2, Standing
<1>4. t \in k.live /\ t \notin k.gone /\ u \in k.live /\ u \notin k.gone /\ TaskOK(u)
  BY <1>1, <1>3, HandleTask DEF TaskOK, TaskGood
<1>5. CASE u = t
  <2>1. /\ m \in Kernel /\ Apart(m) /\ Timed(m) /\ Others(k, m, {u}) /\ Steady(k, m)
        /\ m.top = k.top /\ SameTasks(k, m) /\ u \in ToSet(m.dead) /\ u \notin ToSet(m.pending)
    BY <1>1, <1>3, <1>5, DeleteSelf
  <2> HIDE DEF m
  <2>2. "yield" \in Label /\ "yield" \notin Locking /\ "yield" \in Leaving
    BY DEF Label, Locking, Leaving
  <2>3. pc'[t] = "yield" /\ Goes(t, "yield", arg[t]) /\ arg[t] \in Tick \cup Task
    BY <1>1, <1>3, <1>5 DEF Goes
  <2>4. t \in Hung(m) /\ t \notin ReadyTasks(m) /\ t \notin m.suspended \cup Blocked(m)
    BY <1>5, <2>1 DEF Hung, Apart, Blocked
  <2>5. t \notin k.suspended
    BY <1>3 DEF Apart
  <2>6. m.notify[t] # "WAITING" /\ t \notin m.asleep
    BY <1>1, <1>3, <2>1, <2>5 DEF TaskOK, TaskGood, SameTasks
  <2>7. TaskOK(t)'
    <3>1. TaskGood(m, "yield", "IsrNotify" \in use.calls, t)
      BY <1>4, <1>5, <2>1, <2>4, <2>6 DEF TaskGood, SameTasks
    <3> QED
      BY <1>1, <2>3, <3>1 DEF TaskOK
  <2>8. ReadyTasks(m) = ReadyTasks(k) \ {t}
    BY <1>3, <1>5, <2>1, <2>4, ReadyLess
  <2>9. k'.pending = <<>>
    BY <1>1, <1>3, <2>1, PendingEmpty
  <2>10. Effect(T) /\ t \in T
    <3>1. Others(k, k', T)
      BY <1>1, <2>1 DEF Others
    <3> QED
      BY <1>1, <1>3, <1>5, <2>1, <2>4, <2>7, <2>8, <3>1 DEF Effect, Steady, SameCpu, SameTasks, IdleReady
  <2>11. /\ k'.cur = t /\ k'.locks = 0 /\ k'.pended = 0 /\ (~use.tickInHandler => TopOK(k'))
    BY <1>1, <1>3, <2>1, <2>8 DEF Steady, SameCpu, SameClock, SameTasks, TopOK
  <2> HIDE DEF T
  <2>12. After(t)
    BY <1>1, <1>3, <2>2, <2>3, <2>10, AfterGo
  <2> QED
    BY <2>2, <2>3, <2>9, <2>11, <2>12, FreeStep
<1>6. CASE u # t
  <2>1. /\ m \in Kernel /\ Apart(m) /\ Timed(m) /\ Others(k, m, {u}) /\ Steady(k, m)
        /\ m.top = k.top /\ m.live = k.live /\ m.prio = k.prio
        /\ m.notify = k.notify /\ m.value = k.value
        /\ m.asleep = k.asleep \ {u} /\ m.gone = k.gone \cup {u}
        /\ u \notin Hung(m) /\ u \notin ToSet(m.pending)
    BY <1>1, <1>3, <1>6, DeleteOther
  <2> HIDE DEF m
  <2>2. "free" \in Label /\ "free" \notin Locking /\ "free" \notin {"take", "wait"}
    BY DEF Label, Locking
  <2>3. pc'[t] = "free" /\ Goes(t, "free", u) /\ pc'[u] = pc[u]
    BY <1>1, <1>3, <1>6 DEF Goes
  <2>4. TaskOK(u)'
    <3>1. TaskGood(m, pc[u], "IsrNotify" \in use.calls, u)
      BY <1>4, <2>1 DEF TaskOK, TaskGood, Hung
    <3> QED
      BY <1>1, <2>3, <3>1 DEF TaskOK
  <2>5. Same(k, k', t)
    BY <1>1, <1>6, <2>1 DEF Others
  <2>6. TaskOK(t)'
    BY <1>1, <1>3, <1>4, <2>2, <2>3, <2>5, LabelTask
  <2>7. ReadyTasks(m) = ReadyTasks(k) \ {u}
    BY <1>3, <2>1, ReadyLess DEF Hung
  <2>8. k'.pending = <<>>
    BY <1>1, <1>3, <2>1, PendingEmpty
  <2>9. Effect(T) /\ t \in T
    <3>1. Others(k, k', T)
      BY <1>1, <2>1 DEF Others
    <3>2. t \in Hung(k')
      BY <1>1, <1>3, <1>6, <2>7 DEF Hung
    <3>3. IdleReady(k')
      BY <1>1, <1>3, <2>1, <2>7 DEF IdleReady
    <3> QED
      BY <1>1, <2>1, <2>4, <2>6, <3>1, <3>2, <3>3 DEF Effect, Steady, SameCpu
  <2>10. /\ k'.cur = t /\ k'.locks = 0 /\ k'.pended = 0 /\ k'.yield = k.yield /\ t \in ReadyTasks(k')
         /\ (~use.tickInHandler => TopOK(k')) /\ (~use.tickInHandler /\ ~k'.yield => Highest(k'))
    BY <1>1, <1>3, <1>6, <2>1, <2>7 DEF Steady, SameCpu, SameClock, TopOK, Highest
  <2> HIDE DEF T
  <2>11. u \in k'.gone /\ u \notin k.gone
    BY <1>1, <1>4, <2>1
  <2>12. After(t)
    BY <1>1, <1>3, <2>2, <2>3, <2>9, <2>11, AfterGo
  <2> QED
    BY <2>2, <2>3, <2>8, <2>10, <2>12, FreeStep
<1> QED
  BY <1>5, <1>6

\* The second step of vTaskDelete frees the TCB, once.
LEMMA DeleteFreeInv ==
    ASSUME IInv, NEW t \in Task, DeleteFree(t), use' = use
    PROVE  IInv'
<1> PICK u : u = arg[t]
  OBVIOUS
<1> DEFINE m == prvDeleteTCB(k, u)
<1>1. /\ mode = "SYS" /\ k.cur = t /\ pc[t] = "free" /\ k' = m
      /\ arg' = [arg EXCEPT ![t] = 0, ![u] = 0] /\ pc' = [pc EXCEPT ![t] = "run", ![u] = "run"]
      /\ prev' = [prev EXCEPT ![u] = 0] /\ mode' = mode /\ svc' = svc
  BY DEF DeleteFree, At
<1>2. pc[t] \notin Locking /\ pc[t] \notin Leaving
  BY <1>1 DEF Locking, Leaving
<1>3. /\ k \in Kernel /\ Apart(k) /\ Timed(k) /\ IdleReady(k) /\ t \in Hung(k)
      /\ TaskOK(t) /\ ControlOK(t) /\ pc \in [Task -> Label] /\ arg \in [Task -> Tick \cup Task] /\ prev \in [Task -> Tick]
      /\ k.locks = 0 /\ k.pended = 0 /\ k.pending = <<>> /\ t \in ReadyTasks(k) /\ \A v \in Task : TaskOK(v)
      /\ (~use.tickInHandler => TopOK(k)) /\ (~use.tickInHandler /\ ~k.yield => Highest(k)) /\ t # Idle
  BY <1>1, <1>2, Standing
<1>4. u \in k.gone /\ u \in Task /\ \A v \in Task \ {t} : pc[v] = "free" => arg[v] # u
  BY <1>1, <1>3, KernelFields DEF ControlOK
<1>5. TaskOK(u) /\ u \in k.live /\ u \notin Hung(k) /\ t # u /\ t \in k.live
  BY <1>3, <1>4 DEF TaskOK, TaskGood
<1>6. /\ m \in Kernel /\ Apart(m) /\ Timed(m) /\ Others(k, m, {u}) /\ Steady(k, m)
      /\ m.top = k.top /\ SameState(k, m) /\ SameEvents(k, m) /\ m.asleep = k.asleep
      /\ m.live = k.live \ {u} /\ m.gone = k.gone \ {u} /\ u \notin Hung(m)
      /\ m.notify[u] = "NOT_WAITING"
  <2>1. k \in Kernel /\ Apart(k) /\ Timed(k) /\ u \in Task /\ u \notin Hung(k)
    BY <1>3, <1>4, <1>5
  <2> QED
    BY <2>1, FreeTCB
<1> HIDE DEF m
<1>7. /\ pc'[t] = "run" /\ pc'[u] = "run" /\ arg'[u] = 0 /\ \A v \in Task \ {t, u} : pc'[v] = pc[v] /\ arg'[v] = arg[v]
  BY <1>1, <1>3, <1>4
<1>8. /\ pc' \in [Task -> Label] /\ arg' \in [Task -> Tick \cup Task] /\ prev' \in [Task -> Tick]
  <2>1. 0 \in Tick /\ "run" \in Label
    BY TicksAssumption DEF Tick, Label
  <2> QED
    BY <1>1, <1>3, <2>1
<1>9. TaskOK(u)'
  <2>1. u \notin ToSet(m.pending) /\ u \notin m.asleep
    BY <1>3, <1>5, <1>6, EmptyList DEF SameEvents, TaskOK, TaskGood, Hung
  <2>2. TaskGood(m, "run", "IsrNotify" \in use.calls, u)
    BY <1>6, <2>1 DEF TaskGood
  <2> QED
    BY <1>1, <1>7, <2>2 DEF TaskOK
<1>10. TaskOK(t)'
  <2>1. Same(k, k', t)
    BY <1>1, <1>5, <1>6 DEF Others
  <2> QED
    BY <1>1, <1>3, <1>5, <1>7, <2>1, LabelTask
<1>11. \A v \in Task : TaskOK(v)'
  <2> SUFFICES ASSUME NEW v \in Task, v \notin {t, u} PROVE TaskOK(v)'
    BY <1>9, <1>10
  <2>1. Same(k, k', v) /\ TaskOK(v) /\ pc'[v] = pc[v]
    BY <1>1, <1>3, <1>6, <1>7 DEF Others
  <2>2. TaskGood(k', pc[v], "IsrNotify" \in use.calls, v)
    BY <2>1, GoodSame DEF TaskOK
  <2> QED
    BY <2>1, <2>2 DEF TaskOK
<1>12. ReadyTasks(m) = ReadyTasks(k) \ {u}
  BY <1>3, <1>6, ReadyLess DEF Hung
<1>13. \A v \in ReadyTasks(m) : v \in Task /\ m.prio[v] = k.prio[v]
  BY <1>3, <1>6, <1>12, ReadyHere DEF Others, Same
<1>14. t \in ReadyTasks(m) /\ Idle \in ReadyTasks(m) /\ t \in Hung(m)
  BY <1>3, <1>5, <1>12 DEF Hung, IdleReady
<1>15. IdleReady(k')
  BY <1>1, <1>3, <1>13, <1>14 DEF IdleReady
<1>16. After(t)
  <2>1. ASSUME NEW v \in Task \ {t}, pc'[v] # "run"
        PROVE  pc'[v] = pc[v] /\ arg'[v] = arg[v] /\ (pc[v] = "free" /\ arg[v] \in k.gone => arg[v] \in k'.gone)
    BY <1>1, <1>4, <1>6, <1>7, <2>1
  <2> QED
    BY <1>1, <1>3, <1>6, <1>7, <1>8, <1>11, <1>14, <1>15, <2>1 DEF After, Steady, SameCpu
<1>17. /\ k'.cur = t /\ k'.locks = 0 /\ k'.pended = 0 /\ k'.yield = k.yield /\ t \in ReadyTasks(k') /\ k'.pending = <<>>
       /\ (~use.tickInHandler => TopOK(k')) /\ (~use.tickInHandler /\ ~k'.yield => Highest(k'))
  BY <1>1, <1>3, <1>6, <1>12, <1>13, <1>14 DEF Steady, SameCpu, SameClock, SameEvents, TopOK, Highest
<1> QED
  BY <1>7, <1>16, <1>17, FreeStep DEF Locking

\* The idle task frees a TCB.
LEMMA IdleReapInv ==
    ASSUME IInv, IdleReap, use' = use
    PROVE  IInv'
<1> PICK u : u = Head(k.dead)
  OBVIOUS
<1> DEFINE m == prvCheckTasksWaitingTermination(k)
           t == Idle
<1>1. /\ mode = "SYS" /\ k.cur = t /\ pc[t] = "run" /\ k' = m /\ k.dead # <<>> /\ t \in Task
      /\ arg' = [arg EXCEPT ![u] = 0] /\ pc' = [pc EXCEPT ![u] = "run"]
      /\ prev' = [prev EXCEPT ![u] = 0] /\ mode' = mode /\ svc' = svc
  BY TasksAssumption DEF IdleReap, At
<1>2. pc[t] \notin Locking /\ pc[t] \notin Leaving
  BY <1>1 DEF Locking, Leaving
<1>3. /\ k \in Kernel /\ Apart(k) /\ Timed(k) /\ IdleReady(k) /\ t \in Hung(k)
      /\ TaskOK(t) /\ pc \in [Task -> Label] /\ arg \in [Task -> Tick \cup Task] /\ prev \in [Task -> Tick]
      /\ k.locks = 0 /\ k.pended = 0 /\ k.pending = <<>> /\ t \in ReadyTasks(k) /\ \A v \in Task : TaskOK(v)
      /\ (~use.tickInHandler => TopOK(k)) /\ (~use.tickInHandler /\ ~k.yield => Highest(k))
  BY <1>1, <1>2, Standing
<1>4. /\ u \in ToSet(k.dead) /\ u \in Task
      /\ m \in Kernel /\ Apart(m) /\ Timed(m) /\ Others(k, m, {u}) /\ Steady(k, m)
      /\ m.top = k.top /\ SameEvents(k, m) /\ m.asleep = k.asleep
      /\ m.live = k.live \ {u} /\ m.gone = k.gone \ {u} /\ u \notin Hung(m)
      /\ m.notify[u] = "NOT_WAITING"
  BY <1>1, <1>3, Reap
<1> HIDE DEF m, t
<1>5. TaskOK(u) /\ u \in Hung(k) /\ t # u /\ u \notin k.suspended
  BY <1>3, <1>4 DEF Apart, Hung
<1>6. u \notin k.gone /\ u \notin k.asleep
  BY <1>5 DEF TaskOK, TaskGood
<1>7. /\ pc'[t] = "run" /\ pc'[u] = "run" /\ \A v \in Task \ {u} : pc'[v] = pc[v] /\ arg'[v] = arg[v]
  BY <1>1, <1>3, <1>4, <1>5
<1>8. /\ pc' \in [Task -> Label] /\ arg' \in [Task -> Tick \cup Task] /\ prev' \in [Task -> Tick]
  <2>1. 0 \in Tick /\ "run" \in Label
    BY TicksAssumption DEF Tick, Label
  <2> QED
    BY <1>1, <1>3, <2>1
<1>9. TaskOK(u)'
  <2>1. u \notin ToSet(m.pending) /\ u \notin m.asleep
    BY <1>3, <1>4, <1>6, EmptyList DEF SameEvents
  <2>2. TaskGood(m, "run", "IsrNotify" \in use.calls, u)
    BY <1>4, <2>1 DEF TaskGood
  <2> QED
    BY <1>1, <1>7, <2>2 DEF TaskOK
<1>10. \A v \in Task : TaskOK(v)'
  <2> SUFFICES ASSUME NEW v \in Task, v # u PROVE TaskOK(v)'
    BY <1>9
  <2>1. Same(k, k', v) /\ TaskOK(v) /\ pc'[v] = pc[v]
    BY <1>1, <1>3, <1>4, <1>7 DEF Others
  <2>2. TaskGood(k', pc[v], "IsrNotify" \in use.calls, v)
    BY <2>1, GoodSame DEF TaskOK
  <2> QED
    BY <2>1, <2>2 DEF TaskOK
<1>11. ReadyTasks(m) = ReadyTasks(k) \ {u}
  BY <1>3, <1>4, ReadyLess DEF Hung
<1>12. \A v \in ReadyTasks(m) : v \in Task /\ m.prio[v] = k.prio[v]
  BY <1>3, <1>4, <1>11, ReadyHere DEF Others, Same
<1>13. t \in ReadyTasks(m) /\ Idle \in ReadyTasks(m) /\ t \in Hung(m)
  BY <1>3, <1>5, <1>11 DEF Hung, t
<1>14. IdleReady(k')
  BY <1>1, <1>3, <1>12, <1>13 DEF IdleReady
<1>15. After(t)
  <2>1. ASSUME NEW v \in Task \ {t}, pc'[v] # "run"
        PROVE  pc'[v] = pc[v] /\ arg'[v] = arg[v] /\ (pc[v] = "free" /\ arg[v] \in k.gone => arg[v] \in k'.gone)
    BY <1>1, <1>4, <1>6, <1>7, <2>1
  <2> QED
    BY <1>1, <1>3, <1>4, <1>7, <1>8, <1>10, <1>13, <1>14, <2>1 DEF After, Steady, SameCpu
<1>16. /\ k'.cur = t /\ k'.locks = 0 /\ k'.pended = 0 /\ k'.yield = k.yield /\ t \in ReadyTasks(k') /\ k'.pending = <<>>
       /\ (~use.tickInHandler => TopOK(k')) /\ (~use.tickInHandler /\ ~k'.yield => Highest(k'))
  BY <1>1, <1>3, <1>4, <1>11, <1>12, <1>13 DEF Steady, SameCpu, SameClock, SameEvents, TopOK, Highest
<1> QED
  BY <1>1, <1>7, <1>15, <1>16, FreeStep DEF Locking

\* The running task starts to wait for a notification; its value may have
\* been cleared before.
LEMMA WaitBlocks ==
    ASSUME IInv, NEW t \in Task, t # Idle, At(t, "run"), use' = use, mode' = mode, svc' = svc, prev' = prev,
           NEW n \in Tick, NEW label \in {"take", "wait"}, Goes(t, label, arg[t]),
           NEW a, Marked(k, a, t), a.yield = k.yield, label = "take" => a.value[t] = 0,
           k' = AwaitNotification(a, n)
    PROVE  IInv'
<1> DEFINE m == AwaitNotification(a, n)
           T == {t}
<1>1. mode = "SYS" /\ k.cur = t /\ pc[t] = "run" /\ pc[t] \notin Locking /\ pc[t] \notin Leaving
  BY DEF At, Locking, Leaving
<1>2. /\ k \in Kernel /\ Apart(k) /\ Timed(k) /\ IdleReady(k) /\ t \in Hung(k)
      /\ TaskOK(t) /\ pc \in [Task -> Label] /\ arg \in [Task -> Tick \cup Task] /\ prev \in [Task -> Tick]
      /\ k.locks = 0 /\ k.pended = 0 /\ k.pending = <<>> /\ t \in ReadyTasks(k)
      /\ (~use.tickInHandler => TopOK(k)) /\ (~use.tickInHandler /\ ~k.yield => Highest(k))
  BY <1>1, Standing
<1>3. t \in k.live /\ t \notin k.gone /\ t \notin k.asleep
  BY <1>2 DEF TaskOK, TaskGood, Apart
<1>4. /\ a \in Kernel /\ Apart(a) /\ Timed(a) /\ Others(k, a, T) /\ a.cur = t /\ IdleReady(a) /\ a.locks = 0
      /\ a.live = k.live /\ a.gone = k.gone /\ a.asleep = k.asleep /\ a.pending = <<>> /\ a.prio = k.prio
      /\ ReadyTasks(a) = ReadyTasks(k) /\ a.top = k.top /\ a.running = k.running /\ a.pended = 0
      /\ (~use.tickInHandler => TopOK(a))
  BY <1>1, <1>2 DEF Marked, SameClock, SameCpu, SameEvents, IdleReady, TopOK
<1>5. /\ m.notify[t] = "WAITING" /\ m.value[t] = a.value[t] /\ m.asleep = a.asleep /\ m.pending = a.pending
      /\ m.prio = a.prio /\ m.live = a.live /\ m.gone = a.gone
      /\ \/ Marked(a, m, t) /\ m.yield = a.yield
         \/ /\ m \in Kernel /\ Apart(m) /\ Timed(m) /\ Others(a, m, T) /\ SameClock(a, m)
            /\ m.locks = 0 /\ m.running = a.running /\ ~m.yield
            /\ t \in Blocked(m) \cup m.suspended
            /\ m.cur \in ReadyTasks(m) /\ (TopOK(a) => TopOK(m) /\ Highest(m))
  BY <1>4, Await
<1> HIDE DEF m
<1>6. label \in Label /\ label \notin Locking /\ label \notin {"free", "created"} /\ k' = m /\ pc'[t] = label
  BY <1>2 DEF Label, Locking, Goes, m
<1>7. CASE Marked(a, m, t) /\ m.yield = a.yield
  <2>1. /\ m \in Kernel /\ Apart(m) /\ Timed(m) /\ Others(a, m, T) /\ m.cur = t /\ m.locks = 0
        /\ ReadyTasks(m) = ReadyTasks(k) /\ m.top = k.top /\ m.running = k.running /\ m.pended = 0 /\ m.pending = <<>>
    BY <1>4, <1>7 DEF Marked, SameClock, SameCpu, SameEvents
  <2>2. t \in Hung(m) /\ t \notin m.suspended \cup Blocked(m)
    BY <1>2, <2>1 DEF Hung, Apart, Blocked
  <2>3. TaskOK(t)'
    <3>1. TaskGood(m, label, "IsrNotify" \in use.calls, t)
      BY <1>3, <1>4, <1>5, <2>1, <2>2, EmptyList DEF TaskGood
    <3> QED
      BY <1>6, <3>1 DEF TaskOK
  <2>4. Others(k, m, T)
    BY <1>4, <2>1 DEF Others, Same
  <2>5. Effect(T) /\ t \in T
    BY <1>2, <1>4, <1>5, <1>6, <2>1, <2>2, <2>3, <2>4 DEF Effect, IdleReady
  <2>6. (~use.tickInHandler => TopOK(m)) /\ (~use.tickInHandler /\ ~m.yield => Highest(m))
    BY <1>1, <1>2, <1>4, <1>5, <1>7, <2>1 DEF TopOK, Highest
  <2>7. arg[t] \in Tick \cup Task
    BY <1>2
  <2> HIDE DEF T
  <2>8. After(t)
    BY <1>1, <1>2, <1>6, <2>5, <2>7, AfterGo
  <2> QED
    BY <1>2, <1>6, <2>1, <2>6, <2>8, FreeStep
<1>8. CASE /\ m \in Kernel /\ Apart(m) /\ Timed(m) /\ Others(a, m, T) /\ SameClock(a, m)
           /\ m.locks = 0 /\ m.running = a.running /\ ~m.yield
           /\ t \in Blocked(m) \cup m.suspended
           /\ m.cur \in ReadyTasks(m) /\ (TopOK(a) => TopOK(m) /\ Highest(m))
  <2>1. t \in Hung(m)
    BY <1>8 DEF Hung
  <2>2. TaskOK(t)'
    <3>1. TaskGood(m, label, "IsrNotify" \in use.calls, t)
      BY <1>3, <1>4, <1>5, <2>1, EmptyList DEF TaskGood
    <3> QED
      BY <1>6, <3>1 DEF TaskOK
  <2>3. Others(k, m, T)
    BY <1>4, <1>8 DEF Others, Same
  <2>4. IdleReady(m)
    BY <1>4, <1>5, <1>8, TasksAssumption DEF IdleReady, Others, Same
  <2>5. Effect(T) /\ t \in T
    BY <1>4, <1>5, <1>6, <1>8, <2>2, <2>3, <2>4 DEF Effect, Hung
  <2>6. m.pended = 0 /\ m.pending = <<>> /\ arg[t] \in Tick \cup Task
    BY <1>2, <1>4, <1>5, <1>8 DEF SameClock
  <2> HIDE DEF T
  <2>7. After(t)
    BY <1>1, <1>2, <1>6, <2>5, <2>6, AfterGo
  <2> QED
    BY <1>4, <1>6, <1>8, <2>6, <2>7, FreeStep
<1> QED
  BY <1>5, <1>7, <1>8

\* The wait is over before it begins, or it ends.
LEMMA WaitMoves ==
    ASSUME IInv, NEW t \in Task, t # Idle, mode = "SYS", k.cur = t, pc[t] \in {"run", "take", "wait"},
           use' = use, mode' = mode, svc' = svc, prev' = prev,
           NEW label \in {"run", "take", "wait"}, Goes(t, label, arg[t]),
           Marked(k, k', t), k'.yield = k.yield, k'.notify[t] # "WAITING"
    PROVE  IInv'
<1> DEFINE T == {t}
<1>1. pc[t] \notin Locking /\ pc[t] \notin Leaving /\ pc[t] # "created"
  BY DEF At, Locking, Leaving
<1>2. /\ k \in Kernel /\ Apart(k) /\ Timed(k) /\ IdleReady(k) /\ t \in Hung(k)
      /\ TaskOK(t) /\ pc \in [Task -> Label] /\ arg \in [Task -> Tick \cup Task] /\ prev \in [Task -> Tick]
      /\ k.locks = 0 /\ k.pended = 0 /\ k.pending = <<>> /\ t \in ReadyTasks(k)
      /\ (~use.tickInHandler => TopOK(k)) /\ (~use.tickInHandler /\ ~k.yield => Highest(k))
  BY <1>1, Standing
<1>3. t \in k.live /\ t \notin k.gone /\ t \notin k.asleep
  BY <1>2 DEF TaskOK, TaskGood, Apart
<1>4. /\ k' \in Kernel /\ Apart(k') /\ Timed(k') /\ Others(k, k', T) /\ k'.cur = t /\ IdleReady(k') /\ k'.locks = 0
      /\ k'.live = k.live /\ k'.gone = k.gone /\ k'.asleep = k.asleep /\ k'.pending = <<>> /\ k'.pended = 0
      /\ ReadyTasks(k') = ReadyTasks(k) /\ k'.running = k.running
      /\ (~use.tickInHandler => TopOK(k')) /\ (~use.tickInHandler /\ ~k'.yield => Highest(k'))
  BY <1>2 DEF Marked, SameClock, SameCpu, SameEvents, IdleReady, TopOK, Highest
<1>5. label \in Label /\ label \notin Locking /\ label \notin {"free", "created"} /\ pc'[t] = label
  BY <1>2 DEF Label, Locking, Goes
<1>6. t \in Hung(k') /\ t \notin k'.suspended \cup Blocked(k')
  BY <1>2, <1>4 DEF Hung, Apart, Blocked
<1>7. TaskOK(t)'
  <2>1. TaskGood(k', label, "IsrNotify" \in use.calls, t)
    BY <1>3, <1>4, <1>6, EmptyList DEF TaskGood
  <2> QED
    BY <1>5, <2>1 DEF TaskOK
<1>8. Effect(T) /\ t \in T
  BY <1>4, <1>6, <1>7 DEF Effect
<1>9. arg[t] \in Tick \cup Task
  BY <1>2
<1> HIDE DEF T
<1>10. After(t)
  BY <1>2, <1>5, <1>8, <1>9, AfterGo
<1> QED
  BY <1>2, <1>4, <1>5, <1>10, FreeStep

\* Nothing was marked.
LEMMA MarkedSelf ==
    ASSUME NEW a \in Kernel, Apart(a), Timed(a), NEW t
    PROVE  Marked(a, a, t)
BY OthersNone DEF Marked, SameState, SameClock, SameCpu, SameEvents

\* A task that runs has been notified of all it waits for.
LEMMA RunsNotWaiting ==
    ASSUME IInv, NEW t \in Task, At(t, "run")
    PROVE  /\ mode = "SYS" /\ k.cur = t /\ pc[t] = "run" /\ k.notify[t] # "WAITING"
           /\ k \in Kernel /\ Apart(k) /\ Timed(k) /\ k.value[t] \in Nat
           /\ k.notify[t] \in {"NOT_WAITING", "WAITING", "RECEIVED"}
<1>1. mode = "SYS" /\ k.cur = t /\ pc[t] = "run"
  BY DEF At
<1>2. k \in Kernel /\ Apart(k) /\ Timed(k) /\ TaskOK(t)
  BY <1>1, Standing
<1> QED
  BY <1>1, <1>2, KernelFields DEF TaskOK, TaskGood

\* ulTaskGenericNotifyTake blocks unless the value is not 0.
LEMMA TakeInv ==
    ASSUME IInv, NEW t \in Task, NEW n \in Tick, ulTaskGenericNotifyTake(t, n), use' = use
    PROVE  IInv'
<1>1. /\ At(t, "run") /\ t # Idle /\ k' = (IF k.value[t] = 0 THEN AwaitNotification(k, n) ELSE k)
      /\ pc' = [pc EXCEPT ![t] = "take"] /\ mode' = mode /\ svc' = svc /\ prev' = prev /\ arg' = arg
  BY DEF ulTaskGenericNotifyTake, Goto, Rest
<1>2. Goes(t, "take", arg[t])
  BY <1>1 DEF Goes, IInv, Typed
<1>3. /\ mode = "SYS" /\ k.cur = t /\ pc[t] = "run" /\ k.notify[t] # "WAITING"
      /\ k \in Kernel /\ Apart(k) /\ Timed(k)
  BY <1>1, RunsNotWaiting
<1>4. Marked(k, k, t)
  BY <1>3, MarkedSelf
<1>5. CASE k.value[t] = 0
  BY <1>1, <1>2, <1>4, <1>5, WaitBlocks
<1>6. CASE k.value[t] # 0
  <2>1. k' = k
    BY <1>1, <1>6
  <2>2. Marked(k, k', t) /\ k'.yield = k.yield /\ k'.notify[t] # "WAITING"
    BY <1>3, <1>4, <2>1
  <2> QED
    BY <1>1, <1>2, <1>3, <2>2, WaitMoves
<1> QED
  BY <1>5, <1>6

\* xTaskGenericNotifyWait blocks unless a notification has been received.
LEMMA NotifyWaitInv ==
    ASSUME IInv, NEW t \in Task, NEW n \in Tick, NEW clear \in BOOLEAN, xTaskGenericNotifyWait(t, n, clear), use' = use
    PROVE  IInv'
<1> DEFINE v == IF clear THEN 0 ELSE k.value[t]
           a == WithNotify(k, t, k.notify[t], v)
<1>1. /\ At(t, "run") /\ t # Idle
      /\ k' = (IF k.notify[t] = "RECEIVED" THEN k
               ELSE AwaitNotification([k EXCEPT !.value[t] = v], n))
      /\ pc' = [pc EXCEPT ![t] = "wait"] /\ mode' = mode /\ svc' = svc /\ prev' = prev /\ arg' = arg
  BY DEF xTaskGenericNotifyWait, Goto, Rest
<1>2. Goes(t, "wait", arg[t])
  BY <1>1 DEF Goes, IInv, Typed
<1>3. /\ mode = "SYS" /\ k.cur = t /\ pc[t] = "run" /\ k.notify[t] # "WAITING"
      /\ k \in Kernel /\ Apart(k) /\ Timed(k) /\ k.value[t] \in Nat
      /\ k.notify[t] \in {"NOT_WAITING", "WAITING", "RECEIVED"}
  BY <1>1, RunsNotWaiting
<1>4. [k EXCEPT !.value[t] = v] = a
  BY <1>3 DEF WithNotify, Kernel, NotifyStates
<1>5. v \in Nat
  BY <1>3
<1> HIDE DEF v
<1>6. Marked(k, a, t) /\ a.yield = k.yield
  BY <1>3, <1>5, SetNotify
<1> HIDE DEF a
<1>7. CASE k.notify[t] = "RECEIVED"
  <2>1. k' = k /\ Marked(k, k, t)
    BY <1>1, <1>3, <1>7, MarkedSelf
  <2>2. Marked(k, k', t) /\ k'.yield = k.yield /\ k'.notify[t] # "WAITING"
    BY <1>3, <2>1
  <2> QED
    BY <1>1, <1>2, <1>3, <2>2, WaitMoves
<1>8. CASE k.notify[t] # "RECEIVED"
  BY <1>1, <1>2, <1>4, <1>6, <1>8, WaitBlocks
<1> QED
  BY <1>7, <1>8

\* The second critical section of a wait.
LEMMA WaitEnds ==
    ASSUME IInv, NEW t \in Task, mode = "SYS", k.cur = t, pc[t] \in {"take", "wait"}, use' = use,
           NEW v \in Nat, k' = WithNotify(k, t, "NOT_WAITING", v),
           pc' = [pc EXCEPT ![t] = "run"], mode' = mode, svc' = svc, prev' = prev, arg' = arg
    PROVE  IInv'
<1>1. k \in Kernel /\ Apart(k) /\ Timed(k) /\ t # Idle /\ arg \in [Task -> Tick \cup Task]
  BY Standing
<1>2. Marked(k, k', t) /\ k'.yield = k.yield /\ k'.notify[t] = "NOT_WAITING"
  BY <1>1, SetNotify
<1>3. Goes(t, "run", arg[t])
  BY <1>1 DEF Goes
<1> QED
  BY <1>1, <1>2, <1>3, WaitMoves

\* The second critical section of ulTaskGenericNotifyTake.
LEMMA TakeValueInv ==
    ASSUME IInv, NEW t \in Task, NEW clear \in BOOLEAN, TakeValue(t, clear), use' = use
    PROVE  IInv'
<1> DEFINE v == IF clear \/ k.value[t] = 0 THEN 0 ELSE k.value[t] - 1
<1>1. /\ mode = "SYS" /\ k.cur = t /\ pc[t] = "take"
      /\ k' = [k EXCEPT !.notify[t] = "NOT_WAITING", !.value[t] = v]
      /\ pc' = [pc EXCEPT ![t] = "run"] /\ mode' = mode /\ svc' = svc /\ prev' = prev /\ arg' = arg
  BY DEF TakeValue, At, Goto, Rest
<1>2. k.value[t] \in Nat
  <2>1. k \in Kernel
    BY <1>1, Standing
  <2> QED
    BY <2>1, KernelFields
<1>3. v \in Nat
  BY <1>2
<1>4. k' = WithNotify(k, t, "NOT_WAITING", v)
  BY <1>1 DEF WithNotify
<1> HIDE DEF v
<1> QED
  BY <1>1, <1>3, <1>4, WaitEnds

\* The second critical section of xTaskGenericNotifyWait.
LEMMA WaitEndInv ==
    ASSUME IInv, NEW t \in Task, NEW clear \in BOOLEAN, WaitEnd(t, clear), use' = use
    PROVE  IInv'
<1> DEFINE v == IF clear /\ k.notify[t] = "RECEIVED" THEN 0 ELSE k.value[t]
<1>1. /\ mode = "SYS" /\ k.cur = t /\ pc[t] = "wait"
      /\ k' = [k EXCEPT !.notify[t] = "NOT_WAITING", !.value[t] = v]
      /\ pc' = [pc EXCEPT ![t] = "run"] /\ mode' = mode /\ svc' = svc /\ prev' = prev /\ arg' = arg
  BY DEF WaitEnd, At, Goto, Rest
<1>2. k.value[t] \in Nat
  <2>1. k \in Kernel
    BY <1>1, Standing
  <2> QED
    BY <2>1, KernelFields
<1>3. v \in Nat
  BY <1>2
<1>4. k' = WithNotify(k, t, "NOT_WAITING", v)
  BY <1>1 DEF WithNotify
<1> HIDE DEF v
<1> QED
  BY <1>1, <1>3, <1>4, WaitEnds

\* The notification of some task has changed.
LEMMA MarkedMiddle ==
    ASSUME IInv, NEW t \in Task, mode \in {"SYS", "IRQ"}, k.cur = t, pc[t] \notin Locking, NEW u \in Task, NEW m, Marked(k, m, u),
           TaskGood(m, pc[u], "IsrNotify" \in use.calls, u)
    PROVE  Middle(m, {u})
<1>1. /\ k \in Kernel /\ Apart(k) /\ IdleReady(k) /\ t \in Hung(k) /\ k.locks = 0 /\ k.pended = 0 /\ k.pending = <<>>
      /\ (~use.tickInHandler => TopOK(k))
  BY Standing
<1>2. t \in Hung(m) /\ IdleReady(m)
  BY <1>1 DEF Marked, SameState, Hung, IdleReady
<1>3. ~use.tickInHandler => TopOK(m)
  BY <1>1 DEF Marked, TopOK
<1> QED
  BY <1>1, <1>2, <1>3 DEF Middle, Marked, SameClock, SameCpu, SameEvents

\* A notification state or value is cleared.
LEMMA NotifyClearInv ==
    ASSUME IInv, NEW t \in Task, NEW u \in Task, NotifyClear(t, u), use' = use
    PROVE  IInv'
<1> DEFINE T == {u}
<1>1. /\ mode = "SYS" /\ k.cur = t /\ pc[t] = "run" /\ Handle(u)
      /\ (k' = xTaskGenericNotifyStateClear(k, u) \/ k' = ulTaskGenericNotifyValueClear(k, u))
      /\ pc' = pc /\ mode' = mode /\ svc' = svc /\ prev' = prev /\ arg' = arg
  BY DEF NotifyClear, At, Rest
<1>2. pc[t] \notin Locking /\ pc[t] \notin Leaving
  BY <1>1 DEF Locking, Leaving
<1>3. /\ k \in Kernel /\ Apart(k) /\ Timed(k) /\ t \in ReadyTasks(k)
      /\ (~use.tickInHandler /\ ~k.yield => Highest(k))
  BY <1>1, <1>2, Standing
<1>4. TaskOK(u) /\ u \in Hung(k) /\ k.value[u] \in Nat /\ k.notify[u] \in {"NOT_WAITING", "WAITING", "RECEIVED"}
  BY <1>1, <1>3, HandleTask, KernelFields
<1>5. PICK s \in {"NOT_WAITING", "WAITING", "RECEIVED"}, v \in Nat :
         k' = WithNotify(k, u, s, v) /\ (s = k.notify[u] \/ (k.notify[u] = "RECEIVED" /\ s = "NOT_WAITING")) /\ v \in {0, k.value[u]}
  <2>1. CASE k' = xTaskGenericNotifyStateClear(k, u)
    <3> DEFINE s == IF k.notify[u] = "RECEIVED" THEN "NOT_WAITING" ELSE k.notify[u]
               v == k.value[u]
    <3>1. k' = WithNotify(k, u, s, v)
      BY <1>3, <1>4, <2>1 DEF WithNotify, Kernel, NotifyValues, xTaskGenericNotifyStateClear
    <3>2. /\ s \in {"NOT_WAITING", "WAITING", "RECEIVED"} /\ v \in Nat /\ v \in {0, k.value[u]}
          /\ (s = k.notify[u] \/ (k.notify[u] = "RECEIVED" /\ s = "NOT_WAITING"))
      BY <1>4
    <3> HIDE DEF s, v
    <3> QED
      BY <3>1, <3>2
  <2>2. CASE k' = ulTaskGenericNotifyValueClear(k, u)
    <3> DEFINE s == k.notify[u]
               v == 0
    <3>1. k' = WithNotify(k, u, s, v)
      BY <1>3, <1>4, <2>2 DEF WithNotify, Kernel, NotifyStates, ulTaskGenericNotifyValueClear
    <3>2. s \in {"NOT_WAITING", "WAITING", "RECEIVED"} /\ v \in Nat /\ v \in {0, k.value[u]} /\ s = k.notify[u]
      BY <1>4
    <3> HIDE DEF s, v
    <3> QED
      BY <3>1, <3>2
  <2> QED
    BY <1>1, <2>1, <2>2
<1>6. Marked(k, k', u) /\ k'.yield = k.yield /\ k'.notify[u] = s /\ k'.value[u] = v
  BY <1>3, <1>5, SetNotify
<1>7. TaskGood(k', pc[u], "IsrNotify" \in use.calls, u)
  <2>1. Hung(k') = Hung(k)
    BY <1>6 DEF Marked, SameState, Hung
  <2> QED
    BY <1>4, <1>5, <1>6, <2>1 DEF TaskOK, TaskGood, Marked, SameState, SameEvents
<1>8. PICK m : m = k'
  OBVIOUS
<1>9. Middle(m, T)
  BY <1>1, <1>2, <1>6, <1>7, <1>8, MarkedMiddle
<1>10. MayStay(m, t)
  BY <1>1, <1>3, <1>6, <1>8 DEF MayStay, Highest, Marked
<1> HIDE DEF T
<1>11. PICK y \in BOOLEAN : y = FALSE
  OBVIOUS
<1> QED
  BY <1>1, <1>2, <1>8, <1>9, <1>10, <1>11, MaybeSwitch

-----------------------------------------------------------------------------
(* Handlers.                                                               *)

\* A step that no task takes: pc, arg and prev stay what they are.
LEMMA HandlerStep ==
    ASSUME IInv, NEW T, mode # "BOOT", mode' \in {"SYS", "SVC", "IRQ"}, svc' \in Priority \cup {NULL}, use' = use,
           pc' = pc, arg' = arg, prev' = prev,
           k' \in Kernel, Apart(k'), Timed(k'), Others(k, k', T), \A u \in T : u \in Task => TaskOK(u)',
           k.gone \subseteq k'.gone, k'.locks = k.locks, k.locks # 0 => k'.cur = k.cur,
           CpuOK', PrioOK'
    PROVE  IInv'
<1>1. Typed'
  BY DEF IInv, Typed
<1>2. \A u \in Task : TaskOK(u)'
  <2>1. \A u \in Task : TaskOK(u)
    BY DEF IInv
  <2> QED
    BY <2>1, TasksSame
<1>3. ASSUME NEW u \in Task PROVE ControlOK(u)'
  <2>1. ControlOK(u)
    BY DEF IInv
  <2> QED
    BY <2>1 DEF ControlOK
<1>4. BootOK' /\ ListsOK'
  BY DEF BootOK, ListsOK
<1> QED
  BY <1>1, <1>2, <1>3, <1>4 DEF IInv

\* What a handler finds.
LEMMA HandlerStart ==
    ASSUME IInv, mode # "BOOT"
    PROVE  /\ k \in Kernel /\ Apart(k) /\ Timed(k) /\ IdleReady(k) /\ k.cur \in Task /\ k.cur \in Hung(k)
           /\ k.running /\ pc[Idle] \in {"run", "yield"} /\ use \in Uses /\ svc \in Priority \cup {NULL}
           /\ (k.locks # 0 => k.locks = 1 /\ pc[k.cur] \in Locking)
           /\ (k.locks = 0 => k.pended = 0 /\ k.pending = <<>>)
           /\ k.pended <= use.maxPended /\ (svc # NULL => mode = "SVC" /\ k.locks = 0)
           /\ \A u \in Task : k.prio[u] \in Int /\ TaskOK(u)
<1>1. /\ k \in Kernel /\ Apart(k) /\ Timed(k) /\ IdleReady(k) /\ k.cur \in Task /\ k.cur \in Hung(k)
      /\ \A t \in Task : k.prio[t] \in Int
  BY CurrentTask
<1> QED
  BY <1>1 DEF IInv, CpuOK, Typed

\* A task yields.
LEMMA SWIInv ==
    ASSUME IInv, NEW t \in Task, SWI(t), use' = use
    PROVE  IInv'
<1> DEFINE T == {t}
           label == IF pc[t] = "yield" THEN "run" ELSE pc[t]
<1>1. /\ mode = "SYS" /\ k.cur = t /\ pc[t] \in {"yield", "run", "locked"} /\ (t = Idle => pc[t] = "yield")
      /\ mode' = "SVC" /\ pc' = [pc EXCEPT ![t] = label] /\ k' = k /\ arg' = arg /\ prev' = prev /\ svc' = svc
  BY DEF SWI, At, Goto
<1>2. /\ k \in Kernel /\ Apart(k) /\ Timed(k) /\ IdleReady(k) /\ t \in Hung(k) /\ k.cur \in Task
      /\ TaskOK(t) /\ ControlOK(t) /\ svc = NULL /\ use \in Uses /\ pc \in [Task -> Label]
      /\ (pc[t] \notin Locking => k.locks = 0) /\ (~use.tickInHandler => TopOK(k))
      /\ (pc[t] \notin Leaving => t \in ReadyTasks(k)) /\ pc[Idle] \in {"run", "yield"}
      /\ (~use.tickInHandler /\ ~k.yield /\ pc[t] \notin Leaving /\ pc[t] # "created" => Highest(k))
  BY <1>1, Standing DEF IInv, CpuOK
<1>3. label \in Label /\ label \in {"run", "locked"} /\ (label = "locked" => pc[t] = "locked")
  BY <1>1, <1>2 DEF Label
<1> HIDE DEF label
<1>4. pc'[t] = label /\ \A u \in Task \ {t} : pc'[u] = pc[u]
  BY <1>1, <1>2
<1>5. Typed'
  BY <1>1, <1>3 DEF IInv, Typed
<1>6. \A u \in Task : TaskOK(u)'
  <2>1. \A u \in Task : TaskOK(u)
    BY DEF IInv
  <2>2. t \in k.live /\ Same(k, k', t) /\ Others(k, k', T)
    <3>1. t \in k.live
      BY <1>2 DEF TaskOK, TaskGood
    <3>2. Same(k, k', t)
      BY <1>1 DEF Same
    <3> HIDE DEF T
    <3>3. Others(k, k', T)
      BY <1>1, OthersNone
    <3> QED
      BY <3>1, <3>2, <3>3
  <2>3. TaskOK(t)'
    BY <1>1, <1>2, <1>3, <1>4, <2>2, LabelTask
  <2>4. \A u \in T : u \in Task => TaskOK(u)'
    BY <2>3
  <2>5. \A u \in Task \ T : pc'[u] = pc[u]
    BY <1>4
  <2> HIDE DEF T
  <2> QED
    BY <2>1, <2>2, <2>4, <2>5, TasksSame
<1>7. \A u \in Task : ControlOK(u)'
  <2>1. \A u \in Task : ControlOK(u)
    BY DEF IInv
  <2>2. ControlOK(t)'
    BY <1>1, <1>2, <1>3, <1>4 DEF ControlOK, Locking
  <2> QED
    BY <1>1, <1>3, <1>4, <2>1, <2>2, ControlSame
<1>8. pc'[Idle] \in {"run", "yield"}
  BY <1>1, <1>2, <1>3, <1>4, TasksAssumption
<1>9. label = "locked" => t \in ReadyTasks(k) /\ (~use.tickInHandler /\ ~k.yield => Highest(k))
  BY <1>2, <1>3 DEF Leaving
<1>10. k.locks # 0 => label = "locked"
  BY <1>1, <1>2, <1>3 DEF Locking, label
<1>11. CpuOK'
  BY <1>1, <1>2, <1>3, <1>4, <1>8, <1>9, <1>10 DEF IInv, CpuOK, Running, Locking
<1>12. PrioOK'
  BY <1>1, <1>2, <1>4, <1>9, <1>10 DEF PrioOK, Running, Ahead, Highest
<1> QED
  BY <1>1, <1>5, <1>6, <1>7, <1>11, <1>12 DEF IInv, ListsOK, BootOK

\* xYieldPending is set or reset.
LEMMA YieldTimed ==
    ASSUME NEW a \in Kernel, Apart(a), Timed(a), NEW y \in BOOLEAN
    PROVE  LET m == [a EXCEPT !.yield = y] IN
           /\ m \in Kernel /\ Apart(m) /\ Timed(m) /\ Others(a, m, {})
           /\ ReadyTasks(m) = ReadyTasks(a) /\ Hung(m) = Hung(a) /\ SameTasks(a, m) /\ SameClock(a, m)
           /\ SameEvents(a, m) /\ SameCpu(a, m) /\ m.yield = y /\ m.top = a.top
<1> DEFINE m == [a EXCEPT !.yield = y]
<1>1. /\ m \in Kernel /\ Apart(m) /\ m.yield = y /\ Switched(a, m) /\ m.cur = a.cur /\ m.top = a.top /\ m.ready = a.ready
  BY SetYield
<1> HIDE DEF m
<1>2. Others(a, m, {})
  BY <1>1, SwitchedOthers
<1>3. Timed(m)
  BY <1>1 DEF Switched, SameClock, Timed
<1>4. /\ ReadyTasks(m) = ReadyTasks(a) /\ Hung(m) = Hung(a) /\ SameTasks(a, m) /\ SameClock(a, m)
      /\ SameEvents(a, m) /\ SameCpu(a, m)
  BY <1>1 DEF Switched, Hung, Blocked, SameCpu
<1> QED
  BY <1>1, <1>2, <1>3, <1>4 DEF m

\* vTaskSwitchContext in the SWI handler, up to the read of
\* uxTopReadyPriority; a tick may come after it.
LEMMA SvcEnterInv ==
    ASSUME IInv, SvcEnter, use' = use
    PROVE  IInv'
<1> DEFINE y == k.locks # 0
           m == [k EXCEPT !.yield = y]
           N == {}
<1>1. /\ mode = "SVC" /\ svc = NULL /\ k' = m /\ pc' = pc /\ arg' = arg /\ prev' = prev
      /\ (k.locks # 0 => mode' = "SYS" /\ svc' = NULL) /\ (k.locks = 0 => mode' = "SVC" /\ svc' = k.top)
  BY DEF SvcEnter
<1>2. /\ k \in Kernel /\ Apart(k) /\ Timed(k) /\ IdleReady(k) /\ k.cur \in Task /\ k.cur \in Hung(k)
      /\ k.running /\ pc[Idle] \in {"run", "yield"} /\ use \in Uses /\ svc \in Priority \cup {NULL}
      /\ (k.locks # 0 => k.locks = 1 /\ pc[k.cur] \in Locking)
      /\ (k.locks = 0 => k.pended = 0 /\ k.pending = <<>>)
      /\ k.pended <= use.maxPended
  BY <1>1, HandlerStart
<1>3. /\ m \in Kernel /\ Apart(m) /\ Timed(m) /\ Others(k, m, N)
      /\ ReadyTasks(m) = ReadyTasks(k) /\ Hung(m) = Hung(k) /\ SameTasks(k, m) /\ SameClock(k, m)
      /\ SameEvents(k, m) /\ SameCpu(k, m) /\ m.yield = y /\ m.top = k.top
  BY <1>2, YieldTimed
<1> HIDE DEF m
<1>4. k.top \in Priority /\ k.top # NULL
  BY <1>2, KernelFields, SchedAssumption
<1>5. k.locks # 0 /\ pc[k.cur] \notin Leaving => k.cur \in ReadyTasks(k)
  BY <1>1 DEF IInv, CpuOK, Running
<1>6. ~use.tickInHandler => TopOK(k)
  BY <1>1 DEF IInv, PrioOK
<1>7. CpuOK'
  BY <1>1, <1>2, <1>3, <1>5 DEF CpuOK, Running, IdleReady, SameTasks, SameClock, SameEvents, SameCpu
<1>8. PrioOK'
  BY <1>1, <1>3, <1>4, <1>6 DEF PrioOK, Running, TopOK, SameTasks, SameCpu
<1>9. \A u \in N : u \in Task => TaskOK(u)'
  OBVIOUS
<1> HIDE DEF N
<1>10. k.gone \subseteq k'.gone /\ k'.locks = k.locks /\ k'.cur = k.cur
  BY <1>1, <1>3 DEF SameTasks, SameCpu
<1> QED
  BY <1>1, <1>3, <1>4, <1>7, <1>8, <1>9, <1>10, HandlerStep

\* The scan for a ready list that is not empty goes one priority down, and
\* never below the idle priority.
LEMMA SvcScanInv ==
    ASSUME IInv, SvcScan, use' = use
    PROVE  IInv'
<1> DEFINE N == {}
<1>1. /\ mode = "SVC" /\ svc # NULL /\ listLIST_IS_EMPTY(k.ready[svc]) /\ svc' = svc - 1
      /\ k' = k /\ pc' = pc /\ arg' = arg /\ prev' = prev /\ mode' = mode
  BY DEF SvcScan
<1>2. /\ k \in Kernel /\ Apart(k) /\ Timed(k) /\ IdleReady(k) /\ k.cur \in Task /\ k.cur \in Hung(k)
      /\ svc \in Priority /\ k.locks = 0 /\ \A u \in Task : k.prio[u] \in Int
  BY <1>1, HandlerStart
<1>3. \A u \in ReadyTasks(k) : u \in Task /\ k.prio[u] # svc
  <2>1. Items(k.ready[svc]) = {}
    BY <1>1, <1>2, ReadyRings
  <2> QED
    BY <1>2, <2>1, ReadyHere
<1>4. svc # 0
  BY <1>2, <1>3 DEF IdleReady
<1>5. svc - 1 \in Priority /\ svc \in Int /\ svc' # NULL
  BY <1>1, <1>2, <1>4, TasksAssumption, SchedAssumption DEF Priority
<1>6. ~use.tickInHandler => \A u \in ReadyTasks(k) : k.prio[u] <= svc - 1
  <2> SUFFICES ASSUME ~use.tickInHandler, NEW u \in ReadyTasks(k) PROVE k.prio[u] <= svc - 1
    OBVIOUS
  <2>1. k.prio[u] <= svc
    BY <1>1 DEF IInv, PrioOK
  <2> QED
    BY <1>2, <1>3, <1>5, <2>1
<1>7. CpuOK'
  BY <1>1, <1>2 DEF IInv, CpuOK, Running
<1>8. PrioOK'
  BY <1>1, <1>2, <1>5, <1>6 DEF PrioOK, Running
<1> HIDE DEF N
<1>9. Others(k, k', N) /\ \A u \in N : u \in Task => TaskOK(u)'
  BY <1>1, OthersNone DEF N
<1> QED
  BY <1>1, <1>2, <1>5, <1>7, <1>8, <1>9, HandlerStep

\* The scan has found a list: its next task runs.
LEMMA SvcSelectInv ==
    ASSUME IInv, SvcSelect, use' = use
    PROVE  IInv'
<1> DEFINE m == SelectFrom(k, svc)
           N == {}
<1>1. /\ mode = "SVC" /\ svc # NULL /\ ~listLIST_IS_EMPTY(k.ready[svc]) /\ k' = m /\ svc' = NULL /\ mode' = "SYS"
      /\ pc' = pc /\ arg' = arg /\ prev' = prev
  BY DEF SvcSelect
<1>2. /\ k \in Kernel /\ Apart(k) /\ Timed(k) /\ IdleReady(k) /\ svc \in Priority /\ k.locks = 0
      /\ k.running /\ pc[Idle] \in {"run", "yield"} /\ use \in Uses /\ k.pended = 0 /\ k.pending = <<>>
      /\ k.pended <= use.maxPended
  BY <1>1, HandlerStart
<1>3. Items(k.ready[svc]) # {}
  BY <1>1, <1>2, ReadyRings
<1>4. /\ m \in Kernel /\ Apart(m) /\ Switched(k, m) /\ m.yield = k.yield /\ m.top = svc
      /\ m.cur \in ReadyTasks(k) /\ k.prio[m.cur] = svc
  BY <1>2, <1>3, Select
<1> HIDE DEF m
<1>5. Others(k, m, N)
  BY <1>4, SwitchedOthers
<1>6. Timed(m)
  BY <1>2, <1>4 DEF Switched, SameClock, Timed
<1>7. /\ ReadyTasks(m) = ReadyTasks(k) /\ SameTasks(k, m) /\ SameClock(k, m)
      /\ SameEvents(k, m) /\ m.locks = 0 /\ m.running = k.running
  BY <1>2, <1>4 DEF Switched
<1>8. ~use.tickInHandler => \A u \in ReadyTasks(k) : k.prio[u] <= svc
  BY <1>1 DEF IInv, PrioOK
<1>9. CpuOK'
  BY <1>1, <1>2, <1>4, <1>7 DEF CpuOK, Running, IdleReady, SameTasks, SameClock, SameEvents, Hung
<1>10. PrioOK'
  BY <1>1, <1>4, <1>7, <1>8 DEF PrioOK, TopOK, Ahead, SameTasks
<1>11. \A u \in N : u \in Task => TaskOK(u)'
  OBVIOUS
<1> HIDE DEF N
<1>12. k.gone \subseteq k'.gone /\ k'.locks = k.locks
  BY <1>1, <1>2, <1>7 DEF SameTasks
<1> QED
  BY <1>1, <1>2, <1>4, <1>5, <1>6, <1>9, <1>10, <1>11, <1>12, HandlerStep

\* An interrupt handler starts or ends.
LEMMA IrqInv ==
    ASSUME IInv, IrqEnter \/ IrqExit, use' = use
    PROVE  IInv'
<1> DEFINE N == {}
<1>1. /\ mode \in {"SYS", "IRQ"} /\ mode' \in {"SYS", "IRQ"}
      /\ k' = k /\ pc' = pc /\ arg' = arg /\ prev' = prev /\ svc' = svc
  BY DEF IrqEnter, IrqExit
<1>2. /\ k \in Kernel /\ Apart(k) /\ Timed(k) /\ svc \in Priority \cup {NULL} /\ svc = NULL
  BY <1>1, HandlerStart
<1>3. CpuOK'
  BY <1>1, <1>2 DEF IInv, CpuOK, Running
<1>4. PrioOK'
  BY <1>1, <1>2 DEF IInv, PrioOK, Running, Ahead
<1> HIDE DEF N
<1>5. Others(k, k', N) /\ \A u \in N : u \in Task => TaskOK(u)'
  BY <1>1, OthersNone DEF N
<1> QED
  BY <1>1, <1>2, <1>3, <1>4, <1>5, HandlerStep

\* What an interrupt handler may do to a task u.
IsrEffect(u) ==
    /\ k' \in Kernel /\ Apart(k') /\ Timed(k') /\ Others(k, k', {u}) /\ SameClock(k, k') /\ SameCpu(k, k')
    /\ k'.live = k.live /\ k'.gone = k.gone /\ k'.prio = k.prio /\ (TopOK(k) => TopOK(k'))
    /\ k.locks = 0 => k'.pending = k.pending
    /\ ReadyTasks(k) \subseteq ReadyTasks(k') /\ ReadyTasks(k') \subseteq ReadyTasks(k) \cup {u}
    /\ ~k'.yield => ~k.yield /\ (u \in ReadyTasks(k') => u \in ReadyTasks(k) \/ k.prio[u] <= k.prio[k.cur])

\* A FromISR function that has the effect on u it should have.
LEMMA IsrStep ==
    ASSUME IInv, mode = "IRQ", NEW u \in Task, IsrEffect(u), TaskOK(u)', use' = use,
           pc' = pc, arg' = arg, prev' = prev, mode' = mode, svc' = svc
    PROVE  IInv'
<1> DEFINE T == {u}
<1>1. /\ k \in Kernel /\ Apart(k) /\ Timed(k) /\ IdleReady(k) /\ k.cur \in Task /\ k.cur \in Hung(k)
      /\ k.running /\ pc[Idle] \in {"run", "yield"} /\ use \in Uses /\ svc = NULL /\ svc \in Priority \cup {NULL}
      /\ (k.locks # 0 => k.locks = 1 /\ pc[k.cur] \in Locking)
      /\ (k.locks = 0 => k.pended = 0 /\ k.pending = <<>>)
      /\ k.pended <= use.maxPended /\ \A v \in Task : TaskOK(v)
  BY HandlerStart
<1>2. k.cur \in Hung(k')
  <2>1. CASE k.cur = u
    BY <1>1, <2>1, CurHung DEF TaskOK, TaskGood, IsrEffect
  <2>2. CASE k.cur # u
    BY <1>1, <2>2 DEF IsrEffect, Others, Same, Hung
  <2> QED
    BY <2>1, <2>2
<1>3. IdleReady(k')
  BY <1>1 DEF IsrEffect, IdleReady
<1>4. pc[k.cur] \notin Leaving => k.cur \in ReadyTasks(k)
  BY DEF IInv, CpuOK, Running
<1>5. CpuOK'
  BY <1>1, <1>2, <1>3, <1>4 DEF CpuOK, IsrEffect, SameClock, SameCpu
<1>6. PrioOK'
  <2> SUFFICES ASSUME ~use.tickInHandler PROVE TopOK(k') /\ (pc[k.cur] \notin Leaving /\ ~k'.yield => Ahead')
    BY <1>1 DEF PrioOK, IsrEffect, SameCpu
  <2>1. TopOK(k) /\ (pc[k.cur] \notin Leaving /\ ~k.yield => Ahead)
    BY <1>1 DEF IInv, PrioOK, Running
  <2> QED
    BY <2>1 DEF IsrEffect, SameCpu, Ahead
<1>7. \A v \in T : v \in Task => TaskOK(v)'
  OBVIOUS
<1>8. Others(k, k', T)
  BY DEF IsrEffect
<1> HIDE DEF T
<1> QED
  BY <1>1, <1>5, <1>6, <1>7, <1>8, HandlerStep DEF IsrEffect, SameCpu

\* The three things it does.
LEMMA IsrNothing ==
    ASSUME IInv, mode = "IRQ", k' = k, use' = use, pc' = pc, arg' = arg, prev' = prev, mode' = mode, svc' = svc
    PROVE  IInv'
<1> DEFINE N == {}
<1>1. k \in Kernel /\ Apart(k) /\ Timed(k) /\ svc \in Priority \cup {NULL}
  BY HandlerStart
<1>2. CpuOK' /\ PrioOK'
  BY DEF IInv, CpuOK, PrioOK, Running, Ahead
<1> HIDE DEF N
<1>3. Others(k, k', N) /\ \A u \in N : u \in Task => TaskOK(u)'
  BY OthersNone DEF N
<1> QED
  BY <1>1, <1>2, <1>3, HandlerStep

\* A FromISR function has made u ready.
LEMMA IsrRises ==
    ASSUME NEW u \in Task, Risen(k, k', u), k.locks = 0, ~k'.yield => ~k.yield /\ k.prio[u] <= k.prio[k.cur]
    PROVE  IsrEffect(u)
BY DEF Risen, IsrEffect

\* A FromISR function has made u pending, the scheduler being suspended.
LEMMA IsrPends ==
    ASSUME NEW u \in Task, Pends(k, k', u), k.locks # 0, ~k'.yield => ~k.yield
    PROVE  IsrEffect(u)
<1>1. ReadyTasks(k') = ReadyTasks(k)
  BY DEF Pends, SameState, ReadyTasks
<1> QED
  BY <1>1 DEF Pends, IsrEffect, TopOK

\* A FromISR function has only written the notification fields of u.
LEMMA IsrMarks ==
    ASSUME NEW u \in Task, Marked(k, k', u), k'.yield = k.yield
    PROVE  IsrEffect(u)
BY DEF Marked, IsrEffect, TopOK, SameEvents

\* An interrupt resumes a task.
LEMMA IsrResumeInv ==
    ASSUME IInv, NEW u \in Task, IsrResume(u), "Isr" \in use.calls, use' = use
    PROVE  IInv'
<1>1. /\ mode = "IRQ" /\ Handle(u) /\ k' = xTaskResumeFromISR(k, u)
      /\ pc' = pc /\ arg' = arg /\ prev' = prev /\ mode' = mode /\ svc' = svc
  BY DEF IsrResume, Rest
<1>2. /\ k \in Kernel /\ Apart(k) /\ Timed(k) /\ k.cur \in Task /\ use \in Uses /\ TaskOK(u)
      /\ (k.locks = 0 => k.pending = <<>>) /\ k.prio[u] \in Int /\ k.prio[k.cur] \in Int
  BY <1>1, HandlerStart
<1>3. "IsrNotify" \notin use.calls
  BY <1>2, SchedAssumption
<1>4. u \in Hung(k) /\ u \in k.live /\ u \notin k.gone
  BY <1>1, HandleTask
<1>5. \/ k' = k
      \/ /\ u \in k.suspended /\ u \notin ToSet(k.pending)
         /\ u \notin k'.asleep /\ k'.notify = k.notify /\ k'.value = k.value
         /\ \/ k.locks = 0 /\ Risen(k, k', u) /\ (~k'.yield => ~k.yield /\ k.prio[u] < k.prio[k.cur])
            \/ k.locks # 0 /\ Pends(k, k', u) /\ k'.yield = k.yield
  BY <1>1, <1>2, ResumeFromISR
<1>6. CASE k' = k
  BY <1>1, <1>6, IsrNothing
<1>7. CASE /\ u \notin k'.asleep /\ k'.notify = k.notify
           /\ k.locks = 0 /\ Risen(k, k', u) /\ (~k'.yield => ~k.yield /\ k.prio[u] < k.prio[k.cur])
  <2>1. TaskGood(k', pc[u], "IsrNotify" \in use.calls, u)
    <3>1. PICK m : m = k'
      OBVIOUS
    <3>2. /\ TaskGood(k, pc[u], "IsrNotify" \in use.calls, u) /\ Risen(k, m, u) /\ k.pending = <<>>
          /\ u \notin m.asleep /\ (m.notify[u] = "WAITING" => k.notify[u] = "WAITING")
      BY <1>2, <1>7, <3>1 DEF TaskOK
    <3> QED
      BY <1>4, <3>1, <3>2, RisenGood
  <2>2. TaskOK(u)'
    BY <1>1, <2>1 DEF TaskOK
  <2>3. IsrEffect(u)
    BY <1>2, <1>7, IsrRises
  <2> QED
    BY <1>1, <2>2, <2>3, IsrStep
<1>8. CASE /\ u \in k.suspended /\ u \notin k'.asleep /\ k'.notify = k.notify
           /\ k.locks # 0 /\ Pends(k, k', u) /\ k'.yield = k.yield
  <2>1. Hung(k') = Hung(k)
    BY <1>8 DEF Pends, SameState, Hung, ReadyTasks, Blocked
  <2>2. TaskGood(k', pc[u], "IsrNotify" \in use.calls, u)
    BY <1>2, <1>3, <1>4, <1>8, <2>1 DEF TaskOK, TaskGood, Pends, SameState
  <2>3. TaskOK(u)'
    BY <1>1, <2>2 DEF TaskOK
  <2>4. IsrEffect(u)
    BY <1>8, IsrPends
  <2> QED
    BY <1>1, <2>3, <2>4, IsrStep
<1> QED
  BY <1>5, <1>6, <1>7, <1>8

\* An interrupt notifies a task.
LEMMA IsrNotifyInv ==
    ASSUME IInv, NEW u \in Task, NEW a \in eNotifyAction, IsrNotify(u, a), "IsrNotify" \in use.calls, use' = use
    PROVE  IInv'
<1>1. /\ mode = "IRQ" /\ Handle(u) /\ k' = xTaskGenericNotifyFromISR(k, u, a)
      /\ pc' = pc /\ arg' = arg /\ prev' = prev /\ mode' = mode /\ svc' = svc
  BY DEF IsrNotify, Rest, vTaskGenericNotifyGiveFromISR
<1>2. /\ k \in Kernel /\ Apart(k) /\ Timed(k) /\ k.cur \in Task /\ use \in Uses /\ TaskOK(u)
      /\ (k.locks = 0 => k.pending = <<>>)
  BY <1>1, HandlerStart
<1>3. k.notify[u] = "WAITING" => u \notin ToSet(k.pending) /\ pc[u] \in {"take", "wait"} /\ u \notin k.asleep
  BY <1>2 DEF TaskOK, TaskGood
<1>4. u \in Hung(k) /\ u \in k.live /\ u \notin k.gone /\ u \in ReadyTasks(k) \cup Blocked(k) \cup k.suspended
  BY <1>1, HandleTask DEF Handle
<1>5. /\ k'.notify[u] = "RECEIVED" /\ k'.asleep = k.asleep
      /\ \/ k.notify[u] # "WAITING" /\ Marked(k, k', u) /\ k'.yield = k.yield
         \/ /\ k.notify[u] = "WAITING"
            /\ \/ k.locks = 0 /\ Risen(k, k', u)
               \/ k.locks # 0 /\ Pends(k, k', u)
            /\ ~k'.yield => ~k.yield /\ k.prio[u] <= k.prio[k.cur]
  BY <1>1, <1>2, <1>3, GenericNotifyFromISR
<1>6. CASE k.notify[u] # "WAITING" /\ Marked(k, k', u) /\ k'.yield = k.yield
  <2>1. Hung(k') = Hung(k)
    BY <1>6 DEF Marked, SameState, Hung
  <2>2. TaskGood(k', pc[u], "IsrNotify" \in use.calls, u)
    BY <1>2, <1>5, <1>6, <2>1 DEF TaskOK, TaskGood, Marked, SameState, SameEvents
  <2>3. TaskOK(u)'
    BY <1>1, <2>2 DEF TaskOK
  <2>4. IsrEffect(u)
    BY <1>6, IsrMarks
  <2> QED
    BY <1>1, <2>3, <2>4, IsrStep
<1>7. CASE k.notify[u] = "WAITING" /\ k.locks = 0 /\ Risen(k, k', u) /\ (~k'.yield => ~k.yield /\ k.prio[u] <= k.prio[k.cur])
  <2>1. TaskGood(k', pc[u], "IsrNotify" \in use.calls, u)
    <3>1. PICK m : m = k'
      OBVIOUS
    <3>2. /\ TaskGood(k, pc[u], "IsrNotify" \in use.calls, u) /\ Risen(k, m, u) /\ k.pending = <<>>
          /\ u \notin m.asleep /\ (m.notify[u] = "WAITING" => k.notify[u] = "WAITING")
      BY <1>2, <1>3, <1>5, <1>7, <3>1 DEF TaskOK
    <3> QED
      BY <1>4, <3>1, <3>2, RisenGood
  <2>2. TaskOK(u)'
    BY <1>1, <2>1 DEF TaskOK
  <2>3. IsrEffect(u)
    BY <1>7, IsrRises
  <2> QED
    BY <1>1, <2>2, <2>3, IsrStep
<1>8. CASE k.notify[u] = "WAITING" /\ k.locks # 0 /\ Pends(k, k', u) /\ (~k'.yield => ~k.yield)
  <2>1. Hung(k') = Hung(k) /\ ReadyTasks(k') = ReadyTasks(k) /\ Blocked(k') = Blocked(k)
    BY <1>8 DEF Pends, SameState, Hung, ReadyTasks, Blocked
  <2>2. TaskGood(k', pc[u], "IsrNotify" \in use.calls, u)
    BY <1>3, <1>4, <1>5, <1>8, <2>1 DEF TaskGood, Pends, SameState
  <2>3. TaskOK(u)'
    BY <1>1, <2>2 DEF TaskOK
  <2>4. IsrEffect(u)
    BY <1>8, IsrPends
  <2> QED
    BY <1>1, <2>3, <2>4, IsrStep
<1> QED
  BY <1>5, <1>6, <1>7, <1>8

-----------------------------------------------------------------------------
(* The tick.                                                               *)

\* The tick with the scheduler suspended.
LEMMA TickPended ==
    ASSUME IInv, mode # "BOOT", mode' = mode, k.locks # 0, k.pended < use.maxPended,
           k' = [k EXCEPT !.pended = @ + 1], use' = use, pc' = pc, arg' = arg, prev' = prev, svc' = svc
    PROVE  IInv'
<1> DEFINE m == WithCounts(k, k.pended + 1, k.locks)
           N == {}
<1>1. /\ k \in Kernel /\ Apart(k) /\ Timed(k) /\ IdleReady(k) /\ k.cur \in Task /\ k.cur \in Hung(k)
      /\ k.running /\ pc[Idle] \in {"run", "yield"} /\ use \in Uses /\ svc = NULL /\ svc \in Priority \cup {NULL}
      /\ k.locks = 1 /\ pc[k.cur] \in Locking
  BY HandlerStart
<1>2. k' = m /\ k.pended \in Nat /\ use.maxPended \in Nat /\ k.locks \in Nat /\ k.pended + 1 \in Nat
  <2>1. k' = m
    BY <1>1 DEF WithCounts, Kernel
  <2>2. k.pended \in Nat /\ k.locks \in Nat
    BY <1>1, KernelFields
  <2>3. use.maxPended \in Nat
    BY <1>1, SchedAssumption, TicksAssumption
  <2> QED
    BY <2>1, <2>2, <2>3
<1>3. /\ m \in Kernel /\ Apart(m) /\ Timed(m) /\ Others(k, m, N) /\ m.pended = k.pended + 1 /\ m.locks = k.locks
      /\ ReadyTasks(m) = ReadyTasks(k) /\ Hung(m) = Hung(k) /\ SameTasks(k, m) /\ SameEvents(k, m)
      /\ SameState(k, m)
      /\ m.cur = k.cur /\ m.running = k.running /\ m.yield = k.yield /\ m.top = k.top /\ m.tick = k.tick
  <2> DEFINE p == k.pended + 1
             l == k.locks
  <2>1. p \in Nat /\ l \in Nat
    BY <1>2
  <2> HIDE DEF p, l
  <2>2. LET n == WithCounts(k, p, l) IN
        /\ n \in Kernel /\ Apart(n) /\ Timed(n) /\ Others(k, n, {}) /\ n.pended = p /\ n.locks = l
        /\ ReadyTasks(n) = ReadyTasks(k) /\ Hung(n) = Hung(k) /\ SameTasks(k, n) /\ SameEvents(k, n)
        /\ SameState(k, n)
        /\ n.cur = k.cur /\ n.running = k.running /\ n.yield = k.yield /\ n.top = k.top /\ n.tick = k.tick
    BY <1>1, <2>1, SetCountsTimed
  <2> QED
    BY <2>2 DEF p, l
<1> HIDE DEF m
<1>4. CpuOK'
  BY <1>1, <1>2, <1>3 DEF IInv, CpuOK, Running, IdleReady, SameTasks
<1>5. PrioOK'
  BY <1>1, <1>2, <1>3 DEF IInv, PrioOK, Running, Ahead, TopOK, SameTasks
<1>6. \A u \in N : u \in Task => TaskOK(u)'
  OBVIOUS
<1> HIDE DEF N
<1>7. mode' \in {"SYS", "SVC", "IRQ"}
  BY DEF IInv, Typed
<1> QED
  BY <1>1, <1>2, <1>3, <1>4, <1>5, <1>6, <1>7, HandlerStep DEF SameTasks

\* The tick with the scheduler enabled.
LEMMA TickMiddle ==
    ASSUME IInv, mode # "BOOT", mode # "SVC" \/ use.tickInHandler, k.locks = 0
    PROVE  LET m == Ticked(k).k IN Middle(m, ReadyTasks(m) \ ReadyTasks(k))
<1> DEFINE r == Ticked(k)
           m == r.k
           W == ReadyTasks(m) \ ReadyTasks(k)
<1>1. /\ k \in Kernel /\ Apart(k) /\ Timed(k) /\ IdleReady(k) /\ k.cur \in Task /\ k.cur \in Hung(k)
      /\ k.pended = 0 /\ k.pending = <<>> /\ \A u \in Task : TaskOK(u) /\ k.prio[u] \in Int
  BY HandlerStart
<1>2. m \in Kernel /\ Apart(m) /\ Timed(m) /\ Woken(k, m, W) /\ m.pended = k.pended
  BY <1>1, TickTasks
<1> HIDE DEF m, r, W
<1>3. Others(k, m, W)
  BY <1>2, WokenOthers
<1>4. /\ W \subseteq Blocked(k) /\ ReadyTasks(m) = ReadyTasks(k) \cup W /\ SameTasks(k, m) /\ SameCpu(k, m)
      /\ ToSet(m.pending) = ToSet(k.pending) \ W /\ m.top >= k.top /\ \A u \in W : m.top >= k.prio[u]
  BY <1>2 DEF Woken, EventsLeft
<1>5. m.pending = <<>> /\ ToSet(m.pending) = {}
  <2>1. ToSet(m.pending) = {}
    BY <1>1, <1>4, EmptyList
  <2> QED
    BY <1>2, <2>1, KernelFields, TaskLists
<1>6. ASSUME NEW u \in W, u \in Task PROVE TaskGood(m, pc[u], "IsrNotify" \in use.calls, u)
  <2>1. TaskOK(u) /\ u \in Hung(k) /\ u \notin k.suspended
    BY <1>1, <1>4, <1>6 DEF Hung, Apart, Blocked
  <2>2. u \in Hung(m) /\ u \notin m.suspended \cup Blocked(m)
    BY <1>2, <1>4, <1>6 DEF Hung, Apart, Blocked
  <2> QED
    BY <1>4, <1>5, <2>1, <2>2 DEF TaskOK, TaskGood, SameTasks
<1>7. k.cur \in Hung(m)
  <2>1. CASE k.cur \in W
    BY <1>4, <2>1 DEF Hung
  <2>2. CASE k.cur \notin W
    BY <1>1, <1>3, <2>2 DEF Others, Same, Hung
  <2> QED
    BY <2>1, <2>2
<1>8. IdleReady(m)
  BY <1>1, <1>4 DEF IdleReady, SameTasks
<1>9. ~use.tickInHandler => TopOK(m)
  <2> SUFFICES ASSUME ~use.tickInHandler PROVE TopOK(m)
    OBVIOUS
  <2>1. TopOK(k)
    BY DEF IInv, PrioOK, CpuOK
  <2>2. m.top \in Int /\ k.top \in Int /\ \A u \in ReadyTasks(m) : k.prio[u] \in Int
    BY <1>1, <1>2, KernelFields, ReadyHere DEF Priority
  <2> QED
    BY <1>4, <2>1, <2>2 DEF TopOK, SameTasks
<1>10. Middle(m, W)
  BY <1>1, <1>2, <1>3, <1>4, <1>5, <1>6, <1>7, <1>8, <1>9 DEF Middle, SameCpu, SameTasks
<1> QED
  BY <1>10 DEF m, r, W

\* The tick interrupts a task, and may switch.
LEMMA vTickISRInv ==
    ASSUME IInv, vTickISR, use' = use
    PROVE  IInv'
<1> DEFINE r == xTaskIncrementTick(k)
<1>1. /\ mode = "SYS" /\ (k.locks = 0 \/ k.pended < use.maxPended)
      /\ k' = (IF r.switch THEN vTaskSwitchContext(r.k) ELSE r.k)
      /\ pc' = pc /\ arg' = arg /\ prev' = prev /\ mode' = mode /\ svc' = svc
  BY DEF vTickISR, Rest, CanTick
<1>2. CASE k.locks # 0
  <2>1. r = [k |-> [k EXCEPT !.pended = @ + 1], switch |-> FALSE]
    BY <1>2 DEF xTaskIncrementTick
  <2>2. k' = [k EXCEPT !.pended = @ + 1]
    BY <1>1, <2>1
  <2> QED
    BY <1>1, <1>2, <2>2, TickPended
<1>3. CASE k.locks = 0
  <2> DEFINE q == Ticked(k)
             m == q.k
             y == q.switch
             W == ReadyTasks(m) \ ReadyTasks(k)
  <2>1. PICK t \in Task : t = k.cur
    BY <1>1, HandlerStart
  <2>2. pc[t] \notin Locking
    BY <1>3, <2>1 DEF IInv, ControlOK
  <2>3. /\ k \in Kernel /\ Apart(k) /\ Timed(k) /\ k.cur \in Task /\ (~use.tickInHandler => TopOK(k))
        /\ (pc[t] \notin Leaving => t \in ReadyTasks(k)) /\ \A u \in Task : k.prio[u] \in Int
    BY <1>1, <2>1, Standing
  <2>4. r = q
    BY <1>3 DEF xTaskIncrementTick
  <2> HIDE DEF r
  <2>5. /\ y \in BOOLEAN /\ Woken(k, m, W) /\ m.yield = k.yield
        /\ (~y => ~m.yield /\ \A u \in W : k.prio[u] <= k.prio[k.cur])
    BY <2>3, TickTasks
  <2>6. Middle(m, W)
    BY <1>1, <1>3, TickMiddle
  <2>7. k' = IF y THEN vTaskSwitchContext(m) ELSE m
    BY <1>1, <2>4
  <2> HIDE DEF y, m, q, W
  <2>8. ~y => MayStay(m, t)
    <3> SUFFICES ASSUME ~y PROVE MayStay(m, t)
      OBVIOUS
    <3>1. ReadyTasks(m) = ReadyTasks(k) \cup W /\ m.prio = k.prio
      BY <2>5 DEF Woken, SameTasks
    <3>2. ~use.tickInHandler /\ pc[t] \notin Leaving => Ahead
      BY <1>1, <2>1, <2>5 DEF IInv, PrioOK, Running
    <3> QED
      BY <2>1, <2>3, <2>5, <3>1, <3>2 DEF MayStay, Ahead
  <2> QED
    BY <1>1, <2>1, <2>2, <2>5, <2>6, <2>7, <2>8, MaybeSwitch
<1> QED
  BY <1>2, <1>3

\* The tick interrupts a handler, and does not switch.
LEMMA PendSwitchInv ==
    ASSUME IInv, PendSwitch, use' = use
    PROVE  IInv'
<1> DEFINE r == xTaskIncrementTick(k)
<1>1. /\ use.tickInHandler /\ mode \in {"SVC", "IRQ"} /\ (k.locks = 0 \/ k.pended < use.maxPended) /\ k' = r.k
      /\ pc' = pc /\ arg' = arg /\ prev' = prev /\ mode' = mode /\ svc' = svc
  BY DEF PendSwitch, Rest, CanTick
<1>2. CASE k.locks # 0
  <2>1. r = [k |-> [k EXCEPT !.pended = @ + 1], switch |-> FALSE]
    BY <1>2 DEF xTaskIncrementTick
  <2>2. k' = [k EXCEPT !.pended = @ + 1]
    BY <1>1, <2>1
  <2> QED
    BY <1>1, <1>2, <2>2, TickPended
<1>3. CASE k.locks = 0
  <2> DEFINE m == Ticked(k).k
  <2>1. PICK W : W = ReadyTasks(m) \ ReadyTasks(k)
    OBVIOUS
  <2>2. k' = m
    BY <1>1, <1>3 DEF xTaskIncrementTick
  <2>3. Middle(m, W)
    BY <1>1, <1>3, <2>1, TickMiddle
  <2> HIDE DEF m
  <2>4. /\ k' \in Kernel /\ Apart(k') /\ Timed(k') /\ Others(k, k', W) /\ IdleReady(k') /\ k'.locks = 0 /\ k'.pended = 0
        /\ k'.pending = <<>> /\ k'.running = k.running /\ k.gone \subseteq k'.gone /\ k'.cur = k.cur /\ k'.cur \in Hung(k')
    BY <2>2, <2>3 DEF Middle
  <2>5. ASSUME NEW u \in W, u \in Task PROVE TaskOK(u)'
    BY <1>1, <2>2, <2>3, <2>5 DEF Middle, TaskOK
  <2>6. /\ pc[Idle] \in {"run", "yield"} /\ use.maxPended \in Nat /\ k.running /\ svc \in Priority \cup {NULL}
        /\ (svc # NULL => mode = "SVC")
    BY <1>1, HandlerStart, SchedAssumption, TicksAssumption
  <2>7. Running' /\ pc'[k'.cur] \notin Leaving => k'.cur \in ReadyTasks(k')
    <3>1. ReadyTasks(k) \subseteq ReadyTasks(k')
      <4>1. k \in Kernel /\ Apart(k)
        BY <1>1, HandlerStart
      <4>2. ASSUME NEW u \in ReadyTasks(k) PROVE u \in ReadyTasks(k')
        <5>1. u \in Task /\ u \notin W
          BY <2>1, <4>1, <4>2, ReadyHere
        <5> QED
          BY <2>4, <4>2, <5>1 DEF Others, Same
      <4> QED
        BY <4>2
    <3> QED
      BY <1>1, <1>3, <2>4, <3>1 DEF IInv, CpuOK, Running
  <2>8. CpuOK'
    BY <1>1, <2>4, <2>6, <2>7 DEF CpuOK
  <2>9. PrioOK'
    BY <1>1 DEF PrioOK
  <2> QED
    BY <1>1, <1>3, <2>4, <2>5, <2>6, <2>8, <2>9, HandlerStep
<1> QED
  BY <1>2, <1>3

\* A call of a task.
LEMMA ApiInv ==
    ASSUME IInv, NEW t \in Task, Api(t), use' = use
    PROVE  IInv'
<1>1. use \in Uses
  BY DEF IInv, Typed
<1>2. use.delays \subseteq Tick /\ use.priorities \subseteq Priority /\ User \subseteq Task
  BY <1>1, SchedAssumption DEF User
<1>3. ASSUME NEW n \in use.delays, vTaskDelay(t, n) PROVE IInv'
  BY <1>2, <1>3, vTaskDelayInv
<1>4. ASSUME NEW n \in use.delays, xTaskDelayUntil(t, n) PROVE IInv'
  BY <1>2, <1>4, xTaskDelayUntilInv
<1>5. CASE SuspendAll(t)
  BY <1>5, SuspendAllInv
<1>6. ASSUME NEW u \in User, vTaskSuspend(t, u) PROVE IInv'
  BY <1>2, <1>6, vTaskSuspendInv
<1>7. ASSUME NEW u \in User, vTaskResume(t, u) PROVE IInv'
  BY <1>2, <1>7, vTaskResumeInv
<1>8. ASSUME NEW u \in User, vTaskDelete(t, u) PROVE IInv'
  BY <1>2, <1>8, vTaskDeleteInv
<1>9. ASSUME NEW u \in User, NEW p \in use.priorities, xTaskCreate(t, u, p) PROVE IInv'
  BY <1>2, <1>9, xTaskCreateInv
<1>10. ASSUME NEW u \in User, NEW p \in use.priorities, PrioritySet(t, u, p) PROVE IInv'
  BY <1>2, <1>10, PrioritySetInv
<1>11. ASSUME NEW n \in use.delays, ulTaskGenericNotifyTake(t, n) PROVE IInv'
  BY <1>2, <1>11, TakeInv
<1>12. ASSUME NEW n \in use.delays, NEW clear \in BOOLEAN, xTaskGenericNotifyWait(t, n, clear) PROVE IInv'
  BY <1>2, <1>12, NotifyWaitInv
<1>13. ASSUME NEW u \in User, NotifyClear(t, u) PROVE IInv'
  BY <1>2, <1>13, NotifyClearInv
<1>14. ASSUME NEW u \in User, NEW a \in eNotifyAction, Notify(t, u, a) PROVE IInv'
  BY <1>2, <1>14, NotifyInv
<1>15. CASE SWI(t)
  BY <1>15, SWIInv
<1> QED
  BY <1>3, <1>4, <1>5, <1>6, <1>7, <1>8, <1>9, <1>10, <1>11, <1>12, <1>13, <1>14, <1>15 DEF Api

\* The rest of a call.
LEMMA ContinueInv ==
    ASSUME IInv, NEW t \in Task, Continue(t), use' = use
    PROVE  IInv'
BY DelayAddInv, DelayUntilAddInv, DelayResumeInv, ResumeAllInv, SuspendResetInv, CreateYieldInv,
   DeleteFreeInv, TakeValueInv, WaitEndInv, SWIInv, IdleReapInv, IdleYieldInv DEF Continue

\* Every step keeps the invariant.
LEMMA NextInv ==
    ASSUME IInv, [Next]_vars
    PROVE  IInv'
<1>1. CASE UNCHANGED vars
  BY <1>1 DEF vars, IInv, Typed, ListsOK, TaskOK, ControlOK, CpuOK, Running, BootOK, PrioOK, Ahead
<1>2. CASE Next
  <2>1. use' = use /\ Advance
    BY <1>2 DEF Next
  <2>2. use \in Uses
    BY DEF IInv, Typed
  <2>3. use.priorities \subseteq Priority /\ User \subseteq Task
    BY <2>2, SchedAssumption DEF User
  <2>4. ASSUME NEW t \in User, NEW p \in use.priorities, BootCreate(t, p) PROVE IInv'
    BY <2>1, <2>3, <2>4, BootCreateInv
  <2>5. CASE vTaskStartScheduler
    BY <2>1, <2>5, StartInv
  <2>6. ASSUME NEW t \in Task, Api(t) \/ Continue(t) PROVE IInv'
    BY <2>1, <2>6, ApiInv, ContinueInv
  <2>7. CASE Handler
    BY <2>1, <2>7, SvcEnterInv, SvcScanInv, SvcSelectInv, IrqInv DEF Handler
  <2>8. CASE IrqEnter
    BY <2>1, <2>8, IrqInv
  <2>9. ASSUME "Isr" \in use.calls, NEW u \in User, IsrResume(u) PROVE IInv'
    BY <2>1, <2>3, <2>9, IsrResumeInv
  <2>10. ASSUME "IsrNotify" \in use.calls, NEW u \in User, NEW a \in eNotifyAction, IsrNotify(u, a) PROVE IInv'
    BY <2>1, <2>3, <2>10, IsrNotifyInv
  <2>11. CASE vTickISR \/ PendSwitch
    BY <2>1, <2>11, vTickISRInv, PendSwitchInv
  <2> QED
    BY <2>1, <2>4, <2>5, <2>6, <2>7, <2>8, <2>9, <2>10, <2>11 DEF Advance
<1> QED
  BY <1>1, <1>2

\* The invariant holds of every behaviour, whatever the tasks, priorities,
\* program, and width of the tick counter.
THEOREM Invariance == Spec => []IInv
<1>1. Init => IInv
  BY InitInv
<1>2. IInv /\ [Next]_vars => IInv'
  BY NextInv
<1> QED
  BY <1>1, <1>2, PTL DEF Spec

-----------------------------------------------------------------------------
(* The properties.                                                         *)

\* The TCB in pxCurrentTCB is never freed while it runs (vTaskDelete leaves
\* the running task to prvCheckTasksWaitingTermination).
THEOREM RunningExists == Spec => []RunningTaskExists
<1>1. IInv => RunningTaskExists
  BY CurrentTask DEF RunningTaskExists, TaskOK, TaskGood
<1> QED
  BY <1>1, Invariance, PTL

\* uxTopReadyPriority is never below a ready task where ticks interrupt tasks
\* only: the scan of taskSELECT_HIGHEST_PRIORITY_TASK misses nobody.
THEOREM TopReadySafe == Spec => []TopReadyInTasks
<1>1. IInv => TopReadyInTasks
  BY DEF IInv, CpuOK, PrioOK, TopOK, TopReadyInTasks, TopReadyPriority
<1> QED
  BY <1>1, Invariance, PTL

\* The running task has the highest priority of the ready ones, or a switch
\* is on its way, where ticks interrupt tasks only.
THEOREM PreemptiveSafe == Spec => []Preemptive
<1>1. IInv => Preemptive
  <2> SUFFICES ASSUME IInv, ~use.tickInHandler, mode = "SYS", k.locks = 0, ~k.yield, pc[k.cur] \in {"run", "locked"}
               PROVE  k.cur \in ReadyTasks(k) /\ \A t \in ReadyTasks(k) : k.prio[t] <= k.prio[k.cur]
    BY DEF Preemptive
  <2>1. pc[k.cur] \notin Leaving /\ Running
    BY DEF Leaving, Running
  <2> QED
    BY <2>1 DEF IInv, CpuOK, PrioOK, Ahead
<1> QED
  BY <1>1, Invariance, PTL

\* The delayed lists stay sorted, and no wake time is passed over, through
\* overflows of the tick counter and ticks caught up by xTaskResumeAll.
THEOREM DelayedSafe == Spec => []DelayedLists
<1>1. IInv => DelayedLists
  <2> SUFFICES ASSUME IInv PROVE DelayedLists
    OBVIOUS
  <2>1. k \in Kernel /\ Apart(k) /\ Timed(k)
    BY DEF IInv, ListsOK
  <2>2. k.delayed \in Seq(Task) /\ k.overflow \in Seq(Task)
    BY <2>1, KernelFields, TaskLists
  <2>3. DOMAIN k.delayed = 1..Len(k.delayed) /\ DOMAIN k.overflow = 1..Len(k.overflow)
    BY <2>2
  <2> QED
    BY <2>1, <2>3 DEF Apart, Timed, Sorted, DelayedLists
<1> QED
  BY <1>1, Invariance, PTL

\* xNextTaskUnblockTime is never later than the first wake time.
THEOREM NextUnblockSafe == Spec => []NextUnblockNotLate
<1>1. IInv => NextUnblockNotLate
  <2> SUFFICES ASSUME IInv, k.delayed # <<>> PROVE k.next <= k.wake[Head(k.delayed)]
    BY DEF NextUnblockNotLate
  <2>1. k \in Kernel /\ Timed(k)
    BY DEF IInv, ListsOK
  <2>2. Head(k.delayed) \in ToSet(k.delayed)
    BY <2>1, KernelFields, TaskLists
  <2> QED
    BY <2>1, <2>2 DEF Timed
<1> QED
  BY <1>1, Invariance, PTL

\* No notification is lost between the test of a wait and its blocking, or
\* while the scheduler is suspended; vTaskSuspend wins over notifications.
THEOREM NotifiedSafe == Spec => []NotifiedRuns
<1>1. IInv => NotifiedRuns
  BY DEF IInv, TaskOK, TaskGood, NotifiedRuns, Waiting, User
<1> QED
  BY <1>1, Invariance, PTL

\* A list holds a task in one place at most.
LEMMA OnceInList ==
    ASSUME NEW S, NEW s \in Seq(S), IsInjective(s), NEW t
    PROVE  Times(s, t) = IF t \in ToSet(s) THEN 1 ELSE 0
<1>1. ToSet(s) = {s[i] : i \in DOMAIN s}
  BY DEF ToSet
<1>2. CASE t \in ToSet(s)
  <2>1. PICK i \in DOMAIN s : s[i] = t
    BY <1>1, <1>2
  <2>2. {j \in DOMAIN s : s[j] = t} = {i}
    BY <2>1 DEF IsInjective
  <2> QED
    BY <1>2, <2>2, FS_Singleton DEF Times
<1>3. CASE t \notin ToSet(s)
  <2>1. {j \in DOMAIN s : s[j] = t} = {}
    BY <1>1, <1>3
  <2> QED
    BY <1>3, <2>1, FS_EmptySet DEF Times
<1> QED
  BY <1>2, <1>3

\* xPendingReadyList holds a task once, and only blocked ones or those whose
\* wait has just timed out, and nothing once the scheduler is resumed.
THEOREM PendingSafe == Spec => []PendingIsBlocked
<1>1. IInv => PendingIsBlocked
  <2> SUFFICES ASSUME IInv PROVE PendingIsBlocked
    OBVIOUS
  <2>1. k \in Kernel /\ k.locks \in Nat
    BY KernelFields DEF IInv, ListsOK
  <2>2. k.pending \in Seq(Task) /\ IsInjective(k.pending) /\ ToSet(k.pending) \subseteq Task
    BY <2>1, KernelFields, TaskLists
  <2>3. ASSUME NEW t \in ToSet(k.pending)
        PROVE  (t \in k.suspended \cup Blocked(k) \/ (Waiting(t) /\ t \in ReadyTasks(k))) /\ Times(k.pending, t) = 1
    <3>1. TaskOK(t)
      BY <2>2 DEF IInv
    <3>2. Times(k.pending, t) = 1
      BY <2>2, OnceInList
    <3> QED
      BY <3>1, <3>2 DEF TaskOK, TaskGood, Waiting
  <2>4. k.pending # <<>> => k.locks > 0
    BY <2>1 DEF IInv, CpuOK
  <2> QED
    BY <2>3, <2>4 DEF PendingIsBlocked
<1> QED
  BY <1>1, Invariance, PTL

\* A state list item hangs in exactly one list, once, from the creation of
\* the task until vTaskDelete has taken it out.
THEOREM OneStateListSafe == Spec => []OneStateList
<1>1. IInv => OneStateList
  <2> SUFFICES ASSUME IInv, NEW t \in Task
               PROVE  LET ready == Cardinality({p \in Priority : Contains(k.ready[p], t)})
                          others == Times(k.delayed, t) + Times(k.overflow, t) + Times(k.dead, t)
                                    + IF t \in k.suspended THEN 1 ELSE 0
                      IN  /\ ready + others = IF t \in k.live \ k.gone THEN 1 ELSE 0
                          /\ ready = 1 => Times(k.ready[k.prio[t]], t) = 1
    BY DEF OneStateList
  <2> DEFINE R == {p \in Priority : Contains(k.ready[p], t)}
             d == Times(k.delayed, t)
             o == Times(k.overflow, t)
             z == Times(k.dead, t)
  <2>1. k \in Kernel /\ Apart(k) /\ TaskOK(t)
    BY DEF IInv, ListsOK
  <2>2. /\ k.delayed \in Seq(Task) /\ IsInjective(k.delayed) /\ k.overflow \in Seq(Task) /\ IsInjective(k.overflow)
        /\ k.dead \in Seq(Task) /\ IsInjective(k.dead) /\ k.prio[t] \in Priority
    BY <2>1, KernelFields, TaskLists
  <2>3. /\ d = (IF t \in ToSet(k.delayed) THEN 1 ELSE 0) /\ o = (IF t \in ToSet(k.overflow) THEN 1 ELSE 0)
        /\ z = (IF t \in ToSet(k.dead) THEN 1 ELSE 0)
    BY <2>2, OnceInList
  <2>4. \A p \in Priority : Contains(k.ready[p], t) <=> t \in ReadyTasks(k) /\ k.prio[t] = p
    BY <2>1, ReadyRings, ReadyHere
  <2>5. Cardinality(R) = IF t \in ReadyTasks(k) THEN 1 ELSE 0
    <3>1. R = IF t \in ReadyTasks(k) THEN {k.prio[t]} ELSE {}
      BY <2>2, <2>4
    <3> QED
      BY <3>1, FS_Singleton, FS_EmptySet
  <2>6. t \in ReadyTasks(k) => Times(k.ready[k.prio[t]], t) = 1
    <3> SUFFICES ASSUME t \in ReadyTasks(k) PROVE Times(k.ready[k.prio[t]], t) = 1
      OBVIOUS
    <3>1. k.ready[k.prio[t]] \in Ring(Task) /\ t \in Items(k.ready[k.prio[t]])
      BY <2>1, <2>2, ReadyRings, ReadyHere
    <3>2. /\ k.ready[k.prio[t]] \in Seq(Task \cup {xListEnd}) /\ IsInjective(k.ready[k.prio[t]])
          /\ t \in ToSet(k.ready[k.prio[t]])
      BY <3>1 DEF Ring, Items
    <3> QED
      BY <3>2, OnceInList
  <2> HIDE DEF R, d, o, z
  <2>7. Cardinality(R) + (d + o + z + (IF t \in k.suspended THEN 1 ELSE 0)) = IF t \in k.live \ k.gone THEN 1 ELSE 0
    <3>1. t \in Hung(k) <=> t \in k.live \ k.gone
      BY <2>1 DEF TaskOK, TaskGood
    <3>2. /\ t \in Hung(k) <=> \/ t \in ReadyTasks(k) \/ t \in ToSet(k.delayed) \/ t \in ToSet(k.overflow)
                               \/ t \in k.suspended \/ t \in ToSet(k.dead)
          /\ t \in ReadyTasks(k) => t \notin ToSet(k.delayed) /\ t \notin ToSet(k.overflow) /\ t \notin k.suspended /\ t \notin ToSet(k.dead)
          /\ t \in ToSet(k.delayed) => t \notin ToSet(k.overflow) /\ t \notin k.suspended /\ t \notin ToSet(k.dead)
          /\ t \in ToSet(k.overflow) => t \notin k.suspended /\ t \notin ToSet(k.dead)
          /\ t \in k.suspended => t \notin ToSet(k.dead)
      BY <2>1 DEF Hung, Blocked, Apart
    <3> QED
      BY <2>3, <2>5, <3>1, <3>2
  <2>8. Cardinality(R) = 1 => Times(k.ready[k.prio[t]], t) = 1
    BY <2>5, <2>6
  <2> QED
    BY <2>7, <2>8 DEF R, d, o, z
<1> QED
  BY <1>1, Invariance, PTL

-----------------------------------------------------------------------------
(* Nobody wakes early.                                                     *)

\* A delayed task is not readied in the step from a to b before its time.
InTime(a, b, t) ==
    t \in ReadyTasks(b) /\ ~(a.notify[t] = "WAITING" /\ b.notify[t] = "RECEIVED") =>
        (b.tick - a.tick) % TickMod >= (a.wake[t] - a.tick) % TickMod

AllInTime == \A t \in Blocked(k) \ ToSet(k.pending) : InTime(k, k', t)

\* A step that readies only tasks of T is judged by what it does to these.
LEMMA OnlyReadied ==
    ASSUME k \in Kernel, Apart(k), NEW T, ReadyTasks(k') \subseteq ReadyTasks(k) \cup T,
           \A t \in T : t \in Blocked(k) \ ToSet(k.pending) => InTime(k, k', t)
    PROVE  AllInTime
<1> SUFFICES ASSUME NEW t \in Blocked(k) \ ToSet(k.pending), t \in ReadyTasks(k') PROVE InTime(k, k', t)
  BY DEF AllInTime, InTime
<1>1. t \notin ReadyTasks(k)
  BY DEF Apart, Blocked
<1> QED
  BY <1>1

\* A step that readies nobody.
LEMMA NobodyReadied ==
    ASSUME k \in Kernel, Apart(k), ReadyTasks(k') \subseteq ReadyTasks(k)
    PROVE  AllInTime
<1> DEFINE T == {}
<1>1. ReadyTasks(k') \subseteq ReadyTasks(k) \cup T /\ \A t \in T : t \in Blocked(k) \ ToSet(k.pending) => InTime(k, k', t)
  OBVIOUS
<1> HIDE DEF T
<1> QED
  BY <1>1, OnlyReadied

\* The switch that may follow readies nobody.
LEMMA SwitchReadies ==
    ASSUME NEW m \in Kernel, Apart(m), IdleReady(m), NEW y \in BOOLEAN, k' = IF y THEN vTaskSwitchContext(m) ELSE m
    PROVE  ReadyTasks(k') = ReadyTasks(m) /\ k'.notify = m.notify /\ k'.tick = m.tick
<1> DEFINE n == vTaskSwitchContext(m)
<1>1. n \in Kernel /\ Apart(n) /\ Switched(m, n)
  BY SwitchContext
<1>2. y => k' = n
  OBVIOUS
<1>3. ~y => k' = m
  OBVIOUS
<1> HIDE DEF n
<1>4. ReadyTasks(n) = ReadyTasks(m) /\ n.notify = m.notify /\ n.tick = m.tick
  BY <1>1 DEF Switched, SameTasks, SameClock
<1>5. CASE y
  BY <1>2, <1>4, <1>5
<1>6. CASE ~y
  BY <1>3, <1>6
<1> QED
  BY <1>5, <1>6

\* The idle task stays ready when tasks are readied.
LEMMA StillIdle ==
    ASSUME NEW a, NEW m, IdleReady(a), ReadyTasks(a) \subseteq ReadyTasks(m), m.prio = a.prio
    PROVE  IdleReady(m)
BY DEF IdleReady

\* Before the scheduler starts nobody is delayed.
LEMMA BootInTime ==
    ASSUME IInv, mode = "BOOT"
    PROVE  AllInTime
<1>1. k \in Kernel /\ Apart(k) /\ Hung(k) = ReadyTasks(k)
  BY DEF IInv, ListsOK, BootOK
<1>2. Blocked(k) = {}
  BY <1>1 DEF Hung, Apart, Blocked
<1> QED
  BY <1>2 DEF AllInTime

\* Suspending the scheduler.
LEMMA LockInTime ==
    ASSUME k \in Kernel, Apart(k), k' = vTaskSuspendAll(k)
    PROVE  AllInTime
<1> DEFINE m == WithCounts(k, k.pended, k.locks + 1)
<1>1. k.pended \in Nat /\ k.locks + 1 \in Nat
  BY KernelFields
<1>2. ReadyTasks(m) = ReadyTasks(k)
  BY <1>1, SetCounts
<1>3. k' = m
  BY DEF vTaskSuspendAll, WithCounts, Kernel
<1> QED
  BY <1>2, <1>3, NobodyReadied

\* The running task is delayed.
LEMMA DelayInTime ==
    ASSUME k \in Kernel, Apart(k), Timed(k), k.cur \in Task, NEW n \in Tick \ {0},
           k' = prvAddCurrentTaskToDelayedList(k, n, FALSE)
    PROVE  AllInTime
<1> DEFINE m == prvAddCurrentTaskToDelayedList(k, n, FALSE)
<1>1. Blocks(k, m, k.cur)
  BY AddDelayed
<1> HIDE DEF m
<1>2. k' = m
  BY DEF m
<1> QED
  BY <1>1, <1>2, NobodyReadied DEF Blocks

\* The notification fields change.
LEMMA MarkedInTime ==
    ASSUME k \in Kernel, Apart(k), NEW t, Marked(k, k', t)
    PROVE  AllInTime
BY NobodyReadied DEF Marked

\* A task that was not delayed, or that has got the notification it waits
\* for, is readied and perhaps switched to.
LEMMA RisenInTime ==
    ASSUME k \in Kernel, Apart(k), IdleReady(k), NEW u \in Task, NEW m, Risen(k, m, u), NEW y \in BOOLEAN,
           k' = IF y THEN vTaskSwitchContext(m) ELSE m,
           u \in Blocked(k) => k.notify[u] = "WAITING" /\ m.notify[u] = "RECEIVED"
    PROVE  AllInTime
<1> DEFINE T == {u}
<1>1. m \in Kernel /\ Apart(m) /\ ReadyTasks(m) = ReadyTasks(k) \cup T /\ m.prio = k.prio
  BY DEF Risen
<1>2. IdleReady(m)
  BY <1>1, StillIdle
<1>3. ReadyTasks(k') = ReadyTasks(m) /\ k'.notify = m.notify
  BY <1>1, <1>2, SwitchReadies
<1>4. \A t \in T : t \in Blocked(k) \ ToSet(k.pending) => InTime(k, k', t)
  BY <1>3 DEF InTime
<1> HIDE DEF T
<1> QED
  BY <1>1, <1>3, <1>4, OnlyReadied

\* A task is removed from its lists: nobody else moves.
LEMMA LeftInTime ==
    ASSUME k \in Kernel, Apart(k), k' \in Kernel, Apart(k'), NEW u, Others(k, k', {u}), u \notin ReadyTasks(k')
    PROVE  AllInTime
<1>1. ReadyTasks(k') = ReadyTasks(k) \ {u}
  BY ReadyLess
<1> QED
  BY <1>1, NobodyReadied

\* The running task waits for a notification.
LEMMA AwaitInTime ==
    ASSUME k \in Kernel, Apart(k), NEW t \in Task \ {Idle}, k.cur = t, IdleReady(k), k.locks = 0, NEW n \in Tick,
           NEW a, Marked(k, a, t), k' = AwaitNotification(a, n)
    PROVE  AllInTime
<1> DEFINE m == AwaitNotification(a, n)
           T == {t}
<1>1. /\ a \in Kernel /\ Apart(a) /\ Timed(a) /\ a.cur = t /\ a.cur \in Task \ {Idle} /\ a.locks = 0
      /\ ReadyTasks(a) = ReadyTasks(k) /\ a.prio = k.prio
  BY DEF Marked, SameCpu
<1>2. IdleReady(a)
  BY <1>1, StillIdle
<1>3. \/ Marked(a, m, t) /\ m.yield = a.yield
      \/ /\ m \in Kernel /\ Apart(m) /\ Timed(m) /\ Others(a, m, T) /\ SameClock(a, m)
         /\ m.locks = 0 /\ m.running = a.running /\ ~m.yield
         /\ t \in Blocked(m) \cup m.suspended
         /\ m.cur \in ReadyTasks(m) /\ (TopOK(a) => TopOK(m) /\ Highest(m))
  BY <1>1, <1>2, Await
<1> HIDE DEF m
<1>4. k' = m
  BY DEF m
<1>5. CASE Marked(a, m, t)
  BY <1>1, <1>4, <1>5, NobodyReadied DEF Marked
<1>6. CASE m \in Kernel /\ Apart(m) /\ Others(a, m, T) /\ t \in Blocked(m) \cup m.suspended
  <2>1. t \notin ReadyTasks(m)
    BY <1>6 DEF Apart, Blocked
  <2>2. ReadyTasks(m) = ReadyTasks(a) \ {t}
    BY <1>1, <1>6, <2>1, ReadyLess
  <2> QED
    BY <1>1, <1>4, <2>2, NobodyReadied
<1> QED
  BY <1>3, <1>5, <1>6

\* The distance of a tick count from the one it was computed from.
LEMMA TicksApart ==
    ASSUME NEW a \in Tick, NEW i \in 0..(TickMod - 1)
    PROVE  (TimeToWake(a, i) - a) % TickMod = i
<1>1. a \in Int /\ 0 <= a /\ a < TickMod /\ i \in Int /\ 0 <= i /\ i < TickMod /\ TickMod \in Int /\ TickMod > 0
  BY TicksAssumption DEF Tick
<1>2. CASE a + i < TickMod
  <2>1. (a + i) % TickMod = a + i
    BY <1>1, <1>2, Z3
  <2>2. (a + i) - a = i /\ i % TickMod = i
    BY <1>1, Z3
  <2> QED
    BY <2>1, <2>2 DEF TimeToWake
<1>3. CASE a + i >= TickMod
  <2>1. (a + i) % TickMod = a + i - TickMod
    BY <1>1, <1>3, Z3
  <2>2. (a + i - TickMod) - a = i - TickMod /\ (i - TickMod) % TickMod = i
    BY <1>1, Z3
  <2> QED
    BY <2>1, <2>2 DEF TimeToWake
<1> QED
  BY <1>1, <1>2, <1>3

\* The tick readies the tasks whose time it is, and these only.
LEMMA TickInTime ==
    ASSUME k \in Kernel, Apart(k), Timed(k), IdleReady(k), k.cur \in Task,
           NEW y \in BOOLEAN, k' = IF y THEN vTaskSwitchContext(Ticked(k).k) ELSE Ticked(k).k
    PROVE  AllInTime
<1> DEFINE r == Ticked(k)
           m == r.k
           W == ReadyTasks(m) \ ReadyTasks(k)
<1>1. /\ m \in Kernel /\ Apart(m) /\ Timed(m) /\ Woken(k, m, W) /\ \A t \in W : k.wake[t] = m.tick
  BY TickTasks
<1>2. k' = IF y THEN vTaskSwitchContext(m) ELSE m
  OBVIOUS
<1> HIDE DEF r, m
<1>3. ReadyTasks(m) = ReadyTasks(k) \cup W /\ m.prio = k.prio
  BY <1>1 DEF Woken, SameTasks
<1>4. IdleReady(m)
  BY <1>3, StillIdle
<1>5. ReadyTasks(k') = ReadyTasks(m) /\ k'.tick = m.tick
  BY <1>1, <1>2, <1>4, SwitchReadies
<1>6. m.tick \in Int /\ k.tick \in Int /\ TickMod \in Int /\ TickMod > 0
  BY <1>1, KernelFields, TicksAssumption DEF Tick
<1>7. \A t \in W : InTime(k, k', t)
  <2>1. (m.tick - k.tick) % TickMod \in Int
    BY <1>6
  <2> QED
    BY <1>1, <1>5, <2>1 DEF InTime
<1> HIDE DEF W
<1> QED
  BY <1>3, <1>5, <1>7, OnlyReadied

\* A tick that only counts.
LEMMA PendedInTime ==
    ASSUME k \in Kernel, Apart(k), k' = [k EXCEPT !.pended = @ + 1]
    PROVE  AllInTime
<1> DEFINE m == WithCounts(k, k.pended + 1, k.locks)
<1>1. k.pended + 1 \in Nat /\ k.locks \in Nat
  BY KernelFields
<1>2. ReadyTasks(m) = ReadyTasks(k)
  BY <1>1, SetCounts
<1>3. k' = m
  BY DEF WithCounts, Kernel
<1> QED
  BY <1>2, <1>3, NobodyReadied

\* xTaskResumeAll readies the tasks that were made pending, and those whose
\* time has come in one of the ticks it catches up with.
LEMMA UnlockInTime ==
    ASSUME IInv, NEW t \in Task, mode = "SYS", k.cur = t, pc[t] \in Locking, k' = xTaskResumeAll(k).k
    PROVE  AllInTime
<1> DEFINE r == xTaskResumeAll(k)
           m == r.k
           P == ToSet(k.pending)
           W == ReadyTasks(m) \ (ReadyTasks(k) \cup P)
           T == P \cup W
<1>1. /\ k \in Kernel /\ Apart(k) /\ Timed(k) /\ k.cur \in Task /\ IdleReady(k) /\ k.locks = 1
      /\ k.pended <= use.maxPended /\ use \in Uses
  BY Standing
<1>2. /\ m \in Kernel /\ Apart(m) /\ Timed(m) /\ Roused(k, m, P, W)
      /\ m.tick = TimeToWake(k.tick, k.pended)
      /\ \A u \in W : \E j \in 1..k.pended : k.wake[u] = TimeToWake(k.tick, j)
  BY <1>1, ResumeScheduler
<1>3. k' = m
  OBVIOUS
<1> HIDE DEF r, m
<1>4. ReadyTasks(m) = ReadyTasks(k) \cup T
  BY <1>2 DEF Roused
<1>5. k.pended \in 0..(TickMod - 1) /\ k.tick \in Tick
  <2>1. use.maxPended \in 0..(TickMod - 1) /\ k.pended \in Nat /\ k.tick \in Tick
    BY <1>1, SchedAssumption, KernelFields
  <2> QED
    BY <1>1, <2>1, TicksAssumption
<1>6. ASSUME NEW u \in W PROVE InTime(k, m, u)
  <2>1. PICK j \in 1..k.pended : k.wake[u] = TimeToWake(k.tick, j)
    BY <1>2, <1>6
  <2>2. j \in 0..(TickMod - 1) /\ j <= k.pended
    BY <1>5, <2>1, TicksAssumption
  <2>3. (k.wake[u] - k.tick) % TickMod = j /\ (m.tick - k.tick) % TickMod = k.pended
    BY <1>2, <1>5, <2>1, <2>2, TicksApart
  <2> QED
    BY <1>5, <2>2, <2>3 DEF InTime
<1>7. \A u \in T : u \in Blocked(k) \ ToSet(k.pending) => InTime(k, k', u)
  BY <1>3, <1>6
<1> HIDE DEF T
<1> QED
  BY <1>1, <1>3, <1>4, <1>7, OnlyReadied

\* What holds where a task calls the kernel.
LEMMA Caller ==
    ASSUME IInv, NEW t \in Task, mode = "SYS", k.cur = t, pc[t] \notin Locking
    PROVE  /\ k \in Kernel /\ Apart(k) /\ Timed(k) /\ IdleReady(k) /\ k.cur \in Task /\ k.locks = 0 /\ k.pending = <<>>
BY Standing

\* The calls that start or end a delay.
LEMMA DelaysInTime ==
    ASSUME IInv, NEW t \in Task,
           \/ \E n \in use.delays : vTaskDelay(t, n) \/ xTaskDelayUntil(t, n)
           \/ SuspendAll(t) \/ DelayAdd(t) \/ DelayUntilAdd(t) \/ DelayResume(t) \/ ResumeAll(t)
    PROVE  AllInTime
<1>1. k \in Kernel /\ Apart(k) /\ Timed(k)
  BY DEF IInv, ListsOK
<1>2. CASE k' = k
  BY <1>1, <1>2, NobodyReadied
<1>3. CASE k' = vTaskSuspendAll(k)
  BY <1>1, <1>3, LockInTime
<1>4. ASSUME mode = "SYS", k.cur = t, NEW n \in Tick \ {0}, k' = prvAddCurrentTaskToDelayedList(k, n, FALSE)
      PROVE  AllInTime
  BY <1>1, <1>4, DelayInTime
<1>5. CASE DelayAdd(t)
  <2>1. mode = "SYS" /\ k.cur = t /\ pc[t] = "delay" /\ k' = prvAddCurrentTaskToDelayedList(k, arg[t], FALSE)
    BY <1>5 DEF DelayAdd, At
  <2>2. arg[t] \in Tick \ {0}
    BY <2>1 DEF IInv, ControlOK
  <2> QED
    BY <1>4, <2>1, <2>2
<1>6. CASE DelayUntilAdd(t)
  <2> DEFINE w == TimeToWake(prev[t], arg[t])
             d == (w - k.tick) % TickMod
  <2>1. mode = "SYS" /\ k.cur = t /\ pc[t] = "delayUntil"
        /\ k' = IF xShouldDelay(k.tick, prev[t], w) THEN prvAddCurrentTaskToDelayedList(k, d, FALSE) ELSE k
    BY <1>6 DEF DelayUntilAdd, At
  <2>2. prev[t] \in Tick /\ arg[t] \in Tick \ {0} /\ k.tick \in Tick
    BY <1>1, <2>1, KernelFields DEF IInv, ControlOK, Typed
  <2>3. w \in Tick
    BY <2>2, WakeTime
  <2> HIDE DEF w
  <2>4. xShouldDelay(k.tick, prev[t], w) => d \in Tick \ {0}
    BY <2>2, <2>3, Distance
  <2> HIDE DEF d
  <2> QED
    BY <1>2, <1>4, <2>1, <2>4
<1>7. CASE DelayResume(t) \/ ResumeAll(t)
  <2>1. mode = "SYS" /\ k.cur = t /\ pc[t] \in Locking /\ k' = xTaskResumeAll(k).k
    BY <1>7 DEF DelayResume, ResumeAll, At, Locking
  <2> QED
    BY <2>1, UnlockInTime
<1>8. CASE \E n \in use.delays : vTaskDelay(t, n) \/ xTaskDelayUntil(t, n)
  BY <1>2, <1>3, <1>8 DEF vTaskDelay, xTaskDelayUntil
<1>9. CASE SuspendAll(t)
  BY <1>3, <1>9 DEF SuspendAll
<1> QED
  BY <1>5, <1>6, <1>7, <1>8, <1>9

\* The calls that suspend, resume, create and delete tasks.
LEMMA TasksInTime ==
    ASSUME IInv, NEW t \in Task, NEW u \in Task, NEW p \in Priority,
           \/ vTaskSuspend(t, u) \/ SuspendReset(t) \/ vTaskResume(t, u) \/ PrioritySet(t, u, p)
           \/ xTaskCreate(t, u, p) \/ vTaskDelete(t, u) \/ DeleteFree(t)
    PROVE  AllInTime
<1>1. k \in Kernel /\ Apart(k) /\ Timed(k) /\ mode = "SYS" /\ k.cur = t
  BY DEF IInv, ListsOK, vTaskSuspend, SuspendReset, vTaskResume, PrioritySet, xTaskCreate, vTaskDelete, DeleteFree, At
<1>2. CASE vTaskSuspend(t, u)
  <2> DEFINE m == SuspendTask(k, u)
  <2>1. m \in Kernel /\ Apart(m) /\ Others(k, m, {u}) /\ u \in m.suspended
    BY <1>1, Suspend
  <2>2. k' = m
    BY <1>2 DEF vTaskSuspend
  <2> HIDE DEF m
  <2>3. u \notin ReadyTasks(m)
    BY <2>1 DEF Apart
  <2> QED
    BY <1>1, <2>1, <2>2, <2>3, LeftInTime
<1>3. CASE SuspendReset(t)
  <2> DEFINE m == prvResetNextTaskUnblockTime(k)
  <2>1. ReadyTasks(m) = ReadyTasks(k)
    BY <1>1, ResetTimed
  <2>2. k' = m
    BY <1>3 DEF SuspendReset
  <2> HIDE DEF m
  <2> QED
    BY <1>1, <2>1, <2>2, NobodyReadied
<1>4. CASE vTaskResume(t, u)
  <2> DEFINE r == ResumeTask(k, u)
             m == r.k
  <2>1. k' = (IF r.yield THEN vTaskSwitchContext(m) ELSE m) /\ pc[t] = "run"
    BY <1>4 DEF vTaskResume, At
  <2>2. IdleReady(k)
    BY <1>1, <2>1, Caller DEF Locking
  <2>3. \/ m = k /\ r.yield = FALSE
        \/ u \in k.suspended /\ Risen(k, m, u) /\ r.yield \in BOOLEAN
    BY <1>1, Resume
  <2> HIDE DEF r, m
  <2>4. CASE m = k /\ r.yield = FALSE
    BY <1>1, <2>1, <2>4, NobodyReadied
  <2>5. CASE u \in k.suspended /\ Risen(k, m, u) /\ r.yield \in BOOLEAN
    <3>1. u \notin Blocked(k)
      BY <1>1, <2>5 DEF Apart, Blocked
    <3> QED
      BY <1>1, <2>1, <2>2, <2>5, <3>1, RisenInTime
  <2> QED
    BY <2>3, <2>4, <2>5
<1>5. CASE PrioritySet(t, u, p)
  <2> DEFINE r == vTaskPrioritySet(k, u, p)
             m == r.k
  <2>1. k' = (IF r.yield THEN vTaskSwitchContext(m) ELSE m) /\ pc[t] = "run" /\ u # Idle
    BY <1>5 DEF PrioritySet, At
  <2>2. IdleReady(k)
    BY <1>1, <2>1, Caller DEF Locking
  <2>3. r.yield \in BOOLEAN /\ Reprioritised(k, m, u, p)
    BY <1>1, SetPriority
  <2> HIDE DEF r, m
  <2>4. m \in Kernel /\ Apart(m) /\ ReadyTasks(m) = ReadyTasks(k)
    BY <2>3 DEF Reprioritised
  <2>5. IdleReady(m)
    <3>1. k.prio \in [Task -> Priority]
      BY <1>1, KernelFields
    <3> QED
      BY <1>1, <2>1, <2>2, <2>3, <3>1, TasksAssumption DEF IdleReady, Reprioritised
  <2>6. ReadyTasks(k') = ReadyTasks(m)
    BY <2>1, <2>3, <2>4, <2>5, SwitchReadies
  <2> QED
    BY <1>1, <2>4, <2>6, NobodyReadied
<1>6. CASE xTaskCreate(t, u, p)
  <2> DEFINE m == prvAddNewTaskToReadyList(k, u, p)
             T == {u}
  <2>1. k' = m /\ u \notin k.live
    BY <1>6 DEF xTaskCreate
  <2>2. u \notin Hung(k) /\ (k.cur = NULL \/ k.cur \in Task)
    BY <1>1, <2>1 DEF IInv, TaskOK, TaskGood
  <2>3. ReadyTasks(m) = ReadyTasks(k) \cup {u}
    <3> DEFINE first == k.cur = NULL
               takesOver == ~first /\ ~k.running /\ k.prio[k.cur] <= p
    <3>1. /\ m \in Kernel /\ Apart(m) /\ Timed(m) /\ Others(k, m, {u}) /\ SameClock(k, m)
          /\ m.cur = (IF first \/ takesOver THEN u ELSE k.cur)
          /\ m.locks = k.locks /\ m.running = k.running /\ m.yield = k.yield
          /\ m.live = k.live \cup {u} /\ m.gone = k.gone /\ m.prio[u] = p
          /\ m.asleep = k.asleep /\ m.notify = k.notify /\ SameEvents(k, m)
          /\ ReadyTasks(m) = ReadyTasks(k) \cup {u} /\ Hung(m) = Hung(k) \cup {u}
          /\ m.delayed = k.delayed /\ m.overflow = k.overflow
          /\ (TopOK(k) => TopOK(m))
      BY <1>1, <2>2, AddNew
    <3> HIDE DEF m
    <3> QED
      BY <3>1
  <2> HIDE DEF m
  <2>4. u \notin Blocked(k)
    BY <2>2 DEF Hung
  <2>5. /\ ReadyTasks(k') \subseteq ReadyTasks(k) \cup T
        /\ \A v \in T : v \in Blocked(k) \ ToSet(k.pending) => InTime(k, k', v)
    BY <2>1, <2>3, <2>4
  <2> HIDE DEF T
  <2> QED
    BY <1>1, <2>5, OnlyReadied
<1>7. CASE vTaskDelete(t, u)
  <2> DEFINE m == DeleteTask(k, u)
  <2>1. k' = m
    BY <1>7 DEF vTaskDelete
  <2>2. CASE u = k.cur
    <3>1. m \in Kernel /\ Apart(m) /\ Others(k, m, {u}) /\ u \in ToSet(m.dead)
      BY <1>1, <2>2, DeleteSelf
    <3> HIDE DEF m
    <3>2. u \notin ReadyTasks(m)
      BY <3>1 DEF Apart
    <3> QED
      BY <1>1, <2>1, <3>1, <3>2, LeftInTime
  <2>3. CASE u # k.cur
    <3>1. m \in Kernel /\ Apart(m) /\ Others(k, m, {u}) /\ u \notin Hung(m)
      BY <1>1, <2>3, DeleteOther
    <3> HIDE DEF m
    <3> QED
      BY <1>1, <2>1, <3>1, LeftInTime DEF Hung
  <2> QED
    BY <2>2, <2>3
<1>8. CASE DeleteFree(t)
  <2> PICK v : v = arg[t]
    OBVIOUS
  <2> DEFINE m == prvDeleteTCB(k, v)
  <2>1. k' = m /\ pc[t] = "free"
    BY <1>8 DEF DeleteFree, At
  <2>2. v \in k.gone /\ v \in Task
    BY <1>1, <2>1, KernelFields DEF IInv, ControlOK
  <2>3. v \notin Hung(k)
    BY <2>2 DEF IInv, TaskOK, TaskGood
  <2>4. m \in Kernel /\ Apart(m) /\ Others(k, m, {v}) /\ v \notin Hung(m)
    BY <1>1, <2>2, <2>3, FreeTCB
  <2> HIDE DEF m
  <2> QED
    BY <1>1, <2>1, <2>4, LeftInTime DEF Hung
<1> QED
  BY <1>2, <1>3, <1>4, <1>5, <1>6, <1>7, <1>8

\* What the idle task does.
LEMMA IdleInTime ==
    ASSUME IInv, IdleReap \/ IdleYield
    PROVE  AllInTime
<1>1. k \in Kernel /\ Apart(k) /\ Timed(k)
  BY DEF IInv, ListsOK
<1>2. CASE IdleReap
  <2> DEFINE m == prvCheckTasksWaitingTermination(k)
             t == Head(k.dead)
  <2>1. k' = m /\ k.dead # <<>>
    BY <1>2 DEF IdleReap
  <2>2. m \in Kernel /\ Apart(m) /\ Others(k, m, {t}) /\ t \notin Hung(m)
    BY <1>1, <2>1, Reap
  <2> HIDE DEF m, t
  <2> QED
    BY <1>1, <2>1, <2>2, LeftInTime DEF Hung
<1>3. CASE IdleYield
  BY <1>1, <1>3, NobodyReadied DEF IdleYield
<1> QED
  BY <1>2, <1>3

\* The calls on notifications: whoever is readied by one has got it.
LEMMA NotificationsInTime ==
    ASSUME IInv, NEW t \in Task, NEW u \in Task, NEW n \in Tick, NEW a \in eNotifyAction, NEW clear \in BOOLEAN,
           \/ ulTaskGenericNotifyTake(t, n) \/ xTaskGenericNotifyWait(t, n, clear)
           \/ TakeValue(t, clear) \/ WaitEnd(t, clear)
           \/ Notify(t, u, a) \/ NotifyClear(t, u)
    PROVE  AllInTime
<1>1. k \in Kernel /\ Apart(k) /\ Timed(k) /\ mode = "SYS" /\ k.cur = t
  BY DEF IInv, ListsOK, ulTaskGenericNotifyTake, xTaskGenericNotifyWait, TakeValue, WaitEnd, Notify, NotifyClear, At
<1>2. /\ \A v \in Task : k.value[v] \in Nat /\ k.notify[v] \in {"NOT_WAITING", "WAITING", "RECEIVED"}
      /\ k.notify \in NotifyStates /\ k.value \in NotifyValues
  BY <1>1, KernelFields DEF NotifyStates, NotifyValues
<1>3. pc[t] \notin Locking => IdleReady(k) /\ k.locks = 0
  BY <1>1, Caller
<1>4. CASE k' = k
  BY <1>1, <1>4, NobodyReadied
<1>5. CASE ulTaskGenericNotifyTake(t, n)
  <2>1. pc[t] = "run" /\ t # Idle /\ k' = (IF k.value[t] = 0 THEN AwaitNotification(k, n) ELSE k)
    BY <1>5 DEF ulTaskGenericNotifyTake, At
  <2>2. Marked(k, k, t) /\ pc[t] \notin Locking
    BY <1>1, <2>1, MarkedSelf DEF Locking
  <2>3. CASE k' = AwaitNotification(k, n)
    BY <1>1, <1>3, <2>1, <2>2, <2>3, AwaitInTime
  <2> QED
    BY <1>4, <2>1, <2>3
<1>6. CASE xTaskGenericNotifyWait(t, n, clear)
  <2> DEFINE v == IF clear THEN 0 ELSE k.value[t]
             b == WithNotify(k, t, k.notify[t], v)
  <2>1. /\ pc[t] = "run" /\ t # Idle
        /\ k' = (IF k.notify[t] = "RECEIVED" THEN k ELSE AwaitNotification([k EXCEPT !.value[t] = v], n))
    BY <1>6 DEF xTaskGenericNotifyWait, At
  <2>2. [k EXCEPT !.value[t] = v] = b
    BY <1>1, <1>2 DEF WithNotify, Kernel, NotifyStates
  <2>3. v \in Nat /\ k.notify[t] \in {"NOT_WAITING", "WAITING", "RECEIVED"} /\ pc[t] \notin Locking
    BY <1>2, <2>1 DEF Locking
  <2> HIDE DEF v
  <2>4. Marked(k, b, t)
    BY <1>1, <2>3, SetNotify
  <2> HIDE DEF b
  <2>5. CASE k' = AwaitNotification(b, n)
    BY <1>1, <1>3, <2>1, <2>3, <2>4, <2>5, AwaitInTime
  <2> QED
    BY <1>4, <2>1, <2>2, <2>5
<1>7. ASSUME NEW w \in Task, NEW s \in {"NOT_WAITING", "WAITING", "RECEIVED"}, NEW v \in Nat, k' = WithNotify(k, w, s, v)
      PROVE  AllInTime
  <2>1. Marked(k, k', w)
    BY <1>1, <1>7, SetNotify
  <2> QED
    BY <1>1, <2>1, MarkedInTime
<1>8. CASE TakeValue(t, clear)
  <2> DEFINE v == IF clear \/ k.value[t] = 0 THEN 0 ELSE k.value[t] - 1
  <2>1. k' = WithNotify(k, t, "NOT_WAITING", v)
    BY <1>8 DEF TakeValue, WithNotify
  <2>2. v \in Nat
    BY <1>2
  <2> HIDE DEF v
  <2> QED
    BY <1>7, <2>1, <2>2
<1>9. CASE WaitEnd(t, clear)
  <2> DEFINE v == IF clear /\ k.notify[t] = "RECEIVED" THEN 0 ELSE k.value[t]
  <2>1. k' = WithNotify(k, t, "NOT_WAITING", v)
    BY <1>9 DEF WaitEnd, WithNotify
  <2>2. v \in Nat
    BY <1>2
  <2> HIDE DEF v
  <2> QED
    BY <1>7, <2>1, <2>2
<1>10. CASE NotifyClear(t, u)
  <2>1. k' = xTaskGenericNotifyStateClear(k, u) \/ k' = ulTaskGenericNotifyValueClear(k, u)
    BY <1>10 DEF NotifyClear
  <2>2. CASE k' = xTaskGenericNotifyStateClear(k, u)
    <3> DEFINE s == IF k.notify[u] = "RECEIVED" THEN "NOT_WAITING" ELSE k.notify[u]
    <3>1. k' = WithNotify(k, u, s, k.value[u])
      BY <1>1, <1>2, <2>2 DEF WithNotify, Kernel, NotifyValues, xTaskGenericNotifyStateClear
    <3>2. s \in {"NOT_WAITING", "WAITING", "RECEIVED"} /\ k.value[u] \in Nat
      BY <1>1, <1>2
    <3> HIDE DEF s
    <3> QED
      BY <1>1, <1>7, <3>1, <3>2
  <2>3. CASE k' = ulTaskGenericNotifyValueClear(k, u)
    <3>1. k' = WithNotify(k, u, k.notify[u], 0)
      BY <1>1, <1>2, <2>3 DEF WithNotify, Kernel, NotifyStates, ulTaskGenericNotifyValueClear
    <3> QED
      BY <1>1, <1>2, <1>7, <3>1
  <2> QED
    BY <2>1, <2>2, <2>3
<1>11. CASE Notify(t, u, a)
  <2> DEFINE r == xTaskGenericNotify(k, u, a)
             m == r.k
  <2>1. k' = (IF r.yield THEN vTaskSwitchContext(m) ELSE m) /\ pc[t] \notin Locking
    BY <1>11 DEF Notify, At, Locking
  <2>2. /\ m.notify[u] = "RECEIVED"
        /\ \/ k.notify[u] # "WAITING" /\ Marked(k, m, u) /\ r.yield = FALSE
           \/ k.notify[u] = "WAITING" /\ Risen(k, m, u) /\ r.yield \in BOOLEAN
    <3>1. /\ m.notify[u] = "RECEIVED" /\ m.asleep = k.asleep /\ m.yield = k.yield
          /\ \/ k.notify[u] # "WAITING" /\ Marked(k, m, u) /\ r.yield = FALSE
             \/ /\ k.notify[u] = "WAITING" /\ Risen(k, m, u)
                /\ r.yield \in BOOLEAN /\ (~r.yield => k.prio[u] <= k.prio[k.cur])
      BY <1>1, GenericNotify
    <3> HIDE DEF r, m
    <3> QED
      BY <3>1
  <2> HIDE DEF r, m
  <2>3. CASE Marked(k, m, u) /\ r.yield = FALSE
    <3>1. k' = m
      BY <2>1, <2>3
    <3> QED
      BY <1>1, <2>3, <3>1, MarkedInTime
  <2>4. CASE k.notify[u] = "WAITING" /\ Risen(k, m, u) /\ r.yield \in BOOLEAN
    BY <1>1, <1>3, <2>1, <2>2, <2>4, RisenInTime
  <2> QED
    BY <2>2, <2>3, <2>4
<1> QED
  BY <1>5, <1>6, <1>8, <1>9, <1>10, <1>11

\* What handlers do: vTaskSwitchContext readies nobody.
LEMMA HandlerInTime ==
    ASSUME IInv, SWI(k.cur) \/ SvcEnter \/ SvcScan \/ SvcSelect \/ IrqEnter \/ IrqExit
    PROVE  AllInTime
<1>1. k \in Kernel /\ Apart(k) /\ Timed(k)
  BY DEF IInv, ListsOK
<1>2. CASE k' = k
  BY <1>1, <1>2, NobodyReadied
<1>3. ASSUME NEW y \in BOOLEAN, k' = [k EXCEPT !.yield = y] PROVE AllInTime
  <2> DEFINE m == [k EXCEPT !.yield = y]
  <2>1. Switched(k, m)
    BY <1>1, SetYield
  <2>2. k' = m
    BY <1>3
  <2> HIDE DEF m
  <2> QED
    BY <1>1, <2>1, <2>2, NobodyReadied DEF Switched
<1>4. CASE SvcSelect
  <2> DEFINE m == SelectFrom(k, svc)
  <2>1. mode = "SVC" /\ svc # NULL /\ ~listLIST_IS_EMPTY(k.ready[svc]) /\ k' = m
    BY <1>4 DEF SvcSelect
  <2>2. svc \in Priority
    BY <2>1, HandlerStart
  <2>3. Items(k.ready[svc]) # {}
    BY <1>1, <2>1, <2>2, ReadyRings
  <2>4. Switched(k, m)
    BY <1>1, <2>2, <2>3, Select
  <2> HIDE DEF m
  <2> QED
    BY <1>1, <2>1, <2>4, NobodyReadied DEF Switched
<1>5. CASE SvcEnter
  BY <1>3, <1>5 DEF SvcEnter
<1> QED
  BY <1>2, <1>4, <1>5 DEF SWI, SvcScan, IrqEnter, IrqExit

\* What interrupts do.
LEMMA InterruptInTime ==
    ASSUME IInv, NEW u \in Task, NEW a \in eNotifyAction,
           \/ "Isr" \in use.calls /\ IsrResume(u)
           \/ "IsrNotify" \in use.calls /\ IsrNotify(u, a)
           \/ vTickISR \/ PendSwitch
    PROVE  AllInTime
<1>1. mode # "BOOT"
  BY DEF IsrResume, IsrNotify, vTickISR, PendSwitch
<1>2. k \in Kernel /\ Apart(k) /\ Timed(k) /\ IdleReady(k) /\ k.cur \in Task
  BY <1>1, HandlerStart
<1>3. ASSUME NEW m, k' = m, Risen(k, m, u), u \in Blocked(k) => k.notify[u] = "WAITING" /\ m.notify[u] = "RECEIVED"
      PROVE  AllInTime
  <2>1. PICK y \in BOOLEAN : y = FALSE
    OBVIOUS
  <2>2. k' = IF y THEN vTaskSwitchContext(m) ELSE m
    BY <1>3, <2>1
  <2> QED
    BY <1>1, <1>2, <1>3, <2>2, RisenInTime
<1>4. ASSUME Pends(k, k', u) PROVE AllInTime
  <2>1. ReadyTasks(k') = ReadyTasks(k)
    BY <1>4 DEF Pends, SameState, ReadyTasks
  <2> QED
    BY <1>2, <2>1, NobodyReadied
<1>5. CASE IsrResume(u)
  <2> DEFINE m == xTaskResumeFromISR(k, u)
  <2>1. \/ m = k
        \/ u \in k.suspended /\ (Risen(k, m, u) \/ Pends(k, m, u))
    BY <1>1, <1>2, ResumeFromISR
  <2>2. k' = m
    BY <1>5 DEF IsrResume
  <2> HIDE DEF m
  <2>3. u \in k.suspended => u \notin Blocked(k)
    BY <1>2 DEF Apart, Blocked
  <2>4. CASE m = k
    BY <1>2, <2>2, <2>4, NobodyReadied
  <2> QED
    BY <1>3, <1>4, <2>1, <2>2, <2>3, <2>4
<1>6. CASE "IsrNotify" \in use.calls /\ IsrNotify(u, a)
  <2> DEFINE m == xTaskGenericNotifyFromISR(k, u, a)
  <2>1. k' = m
    BY <1>6 DEF IsrNotify, vTaskGenericNotifyGiveFromISR
  <2>2. k.notify[u] = "WAITING" => u \notin ToSet(k.pending)
    BY <1>1, <1>6 DEF IInv, TaskOK, TaskGood
  <2>3. /\ m.notify[u] = "RECEIVED"
        /\ Marked(k, m, u) \/ (k.notify[u] = "WAITING" /\ (Risen(k, m, u) \/ Pends(k, m, u)))
    BY <1>1, <1>2, <2>2, GenericNotifyFromISR
  <2> HIDE DEF m
  <2>4. CASE Marked(k, m, u)
    BY <1>2, <2>1, <2>4, MarkedInTime
  <2> QED
    BY <1>3, <1>4, <2>1, <2>3, <2>4
<1>7. CASE vTickISR \/ PendSwitch
  <2> DEFINE r == xTaskIncrementTick(k)
  <2>1. \E y \in {r.switch, FALSE} : k' = IF y THEN vTaskSwitchContext(r.k) ELSE r.k
    BY <1>7 DEF vTickISR, PendSwitch
  <2>2. CASE k.locks # 0
    <3>1. r = [k |-> [k EXCEPT !.pended = @ + 1], switch |-> FALSE]
      BY <2>2 DEF xTaskIncrementTick
    <3>2. r.switch = FALSE /\ r.k = [k EXCEPT !.pended = @ + 1]
      BY <3>1
    <3> HIDE DEF r
    <3>3. k' = r.k
      BY <2>1, <3>2
    <3> QED
      BY <1>2, <3>2, <3>3, PendedInTime
  <2>3. CASE k.locks = 0
    <3>1. r = Ticked(k)
      BY <2>3 DEF xTaskIncrementTick
    <3>2. Ticked(k).switch \in BOOLEAN
      BY <1>2, TickTasks
    <3>3. \E y \in BOOLEAN : k' = IF y THEN vTaskSwitchContext(Ticked(k).k) ELSE Ticked(k).k
      BY <2>1, <3>1, <3>2
    <3> QED
      BY <1>2, <3>3, TickInTime
  <2> QED
    BY <2>2, <2>3
<1> QED
  BY <1>5, <1>6, <1>7

\* Every step.
LEMMA NextInTime ==
    ASSUME IInv, [Next]_vars
    PROVE  [AllInTime]_vars
<1>1. SUFFICES ASSUME Next PROVE AllInTime
  OBVIOUS
<1>2. use \in Uses /\ Advance
  BY <1>1 DEF IInv, Typed, Next
<1>3. use.priorities \subseteq Priority /\ use.delays \subseteq Tick
  BY <1>2, SchedAssumption
<1>4. 0 \in Priority /\ 0 \in Tick /\ "eNoAction" \in eNotifyAction /\ TRUE \in BOOLEAN
  BY TasksAssumption, TicksAssumption DEF Priority, Tick, eNotifyAction
<1>5. CASE mode = "BOOT"
  BY <1>5, BootInTime
<1>6. ASSUME NEW t \in Task, Api(t) PROVE AllInTime
  <2>1. ASSUME SWI(t) PROVE AllInTime
    <3>1. k.cur = t
      BY <2>1 DEF SWI, At
    <3> QED
      BY <2>1, <3>1, HandlerInTime
  <2>2. ASSUME NEW u \in Task, NEW n \in Tick, NEW clear \in BOOLEAN, NEW a \in eNotifyAction,
               \/ ulTaskGenericNotifyTake(t, n) \/ xTaskGenericNotifyWait(t, n, clear)
               \/ Notify(t, u, a) \/ NotifyClear(t, u)
        PROVE  AllInTime
    BY <2>2, NotificationsInTime
  <2>3. ASSUME NEW u \in Task, NEW p \in Priority,
               vTaskSuspend(t, u) \/ vTaskResume(t, u) \/ PrioritySet(t, u, p) \/ xTaskCreate(t, u, p) \/ vTaskDelete(t, u)
        PROVE  AllInTime
    BY <2>3, TasksInTime
  <2> QED
    BY <1>3, <1>4, <1>6, <2>1, <2>2, <2>3, DelaysInTime, TasksAssumption DEF Api, User
<1>7. ASSUME NEW t \in Task, Continue(t) PROVE AllInTime
  <2>1. ASSUME SWI(t) PROVE AllInTime
    <3>1. k.cur = t
      BY <2>1 DEF SWI, At
    <3> QED
      BY <2>1, <3>1, HandlerInTime
  <2>2. ASSUME NEW clear \in BOOLEAN, TakeValue(t, clear) \/ WaitEnd(t, clear) PROVE AllInTime
    BY <1>4, <2>2, NotificationsInTime
  <2>3. ASSUME SuspendReset(t) \/ DeleteFree(t) PROVE AllInTime
    BY <1>4, <2>3, TasksInTime
  <2>4. ASSUME CreateYield(t) PROVE AllInTime
    <3>1. k \in Kernel /\ Apart(k) /\ k' = k
      BY <2>4 DEF IInv, ListsOK, CreateYield
    <3> QED
      BY <3>1, NobodyReadied
  <2> QED
    BY <1>7, <2>1, <2>2, <2>3, <2>4, DelaysInTime, IdleInTime DEF Continue
<1>8. ASSUME Handler \/ IrqEnter PROVE AllInTime
  BY <1>8, HandlerInTime DEF Handler
<1>9. ASSUME NEW u \in Task, NEW a \in eNotifyAction,
             \/ "Isr" \in use.calls /\ IsrResume(u)
             \/ "IsrNotify" \in use.calls /\ IsrNotify(u, a)
             \/ vTickISR \/ PendSwitch
      PROVE  AllInTime
  BY <1>9, InterruptInTime
<1>10. ASSUME NEW t, NEW p, BootCreate(t, p) PROVE AllInTime
  BY <1>5, <1>10 DEF BootCreate
<1>11. ASSUME vTaskStartScheduler PROVE AllInTime
  BY <1>5, <1>11 DEF vTaskStartScheduler
<1> QED
  BY <1>2, <1>4, <1>6, <1>7, <1>8, <1>9, <1>10, <1>11, TasksAssumption DEF Advance, User

\* No task leaves a delayed list for a ready list before its wake time, unless
\* it gets a notification it waits for: xTaskIncrementTick compares with the
\* head of the right list, and xTaskResumeAll replays the ticks one by one.
THEOREM EarlyWakeSafe == Spec => NoEarlyWake
<1>1. IInv /\ [Next]_vars => [AllInTime]_vars
  BY NextInTime
<1>2. Spec => [][AllInTime]_vars
  BY <1>1, Invariance, PTL DEF Spec
<1> QED
  BY <1>2 DEF NoEarlyWake, AllInTime, InTime
=============================================================================
