---------------------------- MODULE QueueProofs ----------------------------
(***************************************************************************)
(* Proofs about module Queue, for every set of tasks, priorities, items    *)
(* and uses of the queue.                                                  *)
(*                                                                         *)
(* Base is the inductive invariant: the ring buffer, where the tasks stand *)
(* in their calls and in the lists of the kernel, and who has the          *)
(* scheduler suspended and the queue locked.  On top of it, Clocked is     *)
(* about the time the calls have waited and Pledges about the wake-ups     *)
(* that are due.  The kernel operations are those of KernelProofs.         *)
(***************************************************************************)
EXTENDS Queue, KernelProofs

-----------------------------------------------------------------------------
(* The inductive invariant.                                                *)

Label ==
    {"run", "try", "suspendAll", "lock", "timeout", "isFull", "place", "unlockTx", "unlockRx",
     "resumeAll", "yield", "giveUp"}

\* Where a task has the scheduler suspended, and where it has the queue locked.
Locking == {"lock", "timeout", "isFull", "place", "unlockTx", "unlockRx", "resumeAll"}
TxLocking == {"timeout", "isFull", "place", "unlockTx"}
RxLocking == {"timeout", "isFull", "place", "unlockTx", "unlockRx"}

\* Where a task may be while it is blocked, and where it need not be ready.
Parking == {"unlockTx", "unlockRx", "resumeAll", "yield", "try"}
Leaving == {"unlockTx", "unlockRx", "resumeAll", "yield"}

Cell == Item \cup {NULL}
Position == {"back", "front", "overwrite"}
Path == {"retry", "blocked", "expired"}
Slots == UNION {[0..(u.uxLength - 1) -> Cell] : u \in Uses}

Call_t ==
    [send : BOOLEAN, peek : BOOLEAN, item : Cell, position : Position, ticks : Tick,
     set : BOOLEAN, overflows : OverflowCount, at : Tick, path : Path, asked : Tick, start : Nat]

Queue_t ==
    [use : Uses, slots : Slots, writeTo : Nat, readFrom : Nat, waiting : Nat,
     rxLock : Int, txLock : Int]

Typed ==
    /\ pc \in [Task -> Label]
    /\ op \in [Task -> Call_t]
    /\ q \in Queue_t

\* The ring buffer: the items stand between readFrom and writeTo.
RingOK(s) ==
    LET n == s.use.uxLength
    IN  /\ s.slots \in [0..(n - 1) -> Cell]
        /\ s.writeTo \in 0..(n - 1) /\ s.readFrom \in 0..(n - 1) /\ s.waiting \in 0..n
        /\ ~s.use.semaphore => s.writeTo = (s.readFrom + s.waiting + 1) % n

\* What a call asks of the queue, and where it has time left to wait.
CallGood(o, label, use) ==
    /\ label # "run" /\ o.send => o.position \in use.positions
    /\ label \in {"suspendAll", "lock", "timeout", "isFull", "place"} => o.ticks > 0
CallOK(t) == CallGood(op[t], pc[t], q.use)

\* The event lists are in the order of priorities, which never change here.
ItemValue == [t \in Task |-> configMAX_PRIORITIES - InitialPrio[t]]
KernelOK(m) ==
    /\ m \in Kernel /\ Apart(m) /\ Timed(m) /\ IdleReady(m)
    /\ m.cur \in Task /\ m.live = Task /\ m.prio = InitialPrio
    /\ \A l \in EventList : Sorted(m.event[l], ItemValue)

ListOf(send) == IF send THEN "xTasksWaitingToSend" ELSE "xTasksWaitingToReceive"
Away(m) == Blocked(m) \cup m.suspended
InEvents(m, t) == \E l \in EventList : t \in ToSet(m.event[l])

\* A task is blocked only between its placing itself in the event list and
\* its next look at the queue; in an event list, or in xPendingReadyList
\* after that, it is blocked, and it is not in two of them.
TaskGood(m, o, label, t) ==
    /\ t \in ReadyTasks(m) \cup Away(m)
    /\ t \in Away(m) => label \in Parking /\ o.path = "blocked"
    /\ t \in ToSet(m.pending) => t \in Away(m)
    /\ \A l \in EventList :
          t \in ToSet(m.event[l]) => t \in Away(m) /\ l = ListOf(o.send) /\ t \notin ToSet(m.pending)
TaskOK(t) == TaskGood(k, op[t], pc[t], t)

\* Only the running task has the scheduler suspended and the queue locked;
\* it is ready unless it is about to yield.
CpuGood(m, s, label) ==
    /\ IF label \in Locking THEN m.locks = 1 ELSE m.locks = 0 /\ m.pended = 0 /\ m.pending = <<>>
    /\ label \notin Leaving => m.cur \in ReadyTasks(m)
    /\ IF label \in TxLocking THEN s.txLock \in Nat ELSE s.txLock = queueUNLOCKED
    /\ IF label \in RxLocking THEN s.rxLock \in Nat ELSE s.rxLock = queueUNLOCKED
CpuOK ==
    /\ pc[Idle] = "run"
    /\ \A t \in Task : pc[t] \in Locking => t = k.cur
    /\ CpuGood(k, q, pc[k.cur])

Base ==
    /\ Typed /\ RingOK(q) /\ (\A t \in Task : CallOK(t))
    /\ KernelOK(k) /\ (\A t \in Task : TaskOK(t)) /\ CpuOK

\* The tasks that will look at the queue before they block: they are at the
\* top of the loop, or on their way to it and not in an event list any more.
Turn(o, label) == label = "try" \/ (label \in Leaving /\ o.path = "blocked")
ComersOf(m, ops, labels, send) ==
    {t \in User : ops[t].send = send /\ Turn(ops[t], labels[t]) /\ ~InEvents(m, t)}
Comers(send) == ComersOf(k, op, pc, send)

\* While tasks wait, or one is about to, each item (or free slot) is matched
\* by a task that will look at the queue or a transfer counted for the
\* unlocking, unless the latter are as many as there are tasks.
AvailableIn(s, send) == IF send THEN s.use.uxLength - s.waiting ELSE s.waiting
LockOf(s, send) == IF send THEN s.rxLock ELSE s.txLock
Matched(c, s, send) ==
    LET lock == LockOf(s, send)
    IN  \/ Cardinality(c) + (IF lock > 0 THEN lock ELSE 0) >= AvailableIn(s, send)
        \/ lock >= Cardinality(Task)
Expecting(m, ops, labels, send) ==
    \/ m.event[ListOf(send)] # <<>>
    \/ labels[m.cur] = "place" /\ ops[m.cur].send = send
Pledged(send) == Expecting(k, op, pc, send) => Matched(Comers(send), q, send)

\* The time a call waits: what is left of it is counted from the time it
\* noted last.
NowOf(m) == m.overflows * TickMod + m.tick
Noted(o) == o.overflows * TickMod + o.at
TimeGood(o, label, now) ==
    label # "run" =>
      /\ o.start <= now
      /\ o.path # "expired" => (o.asked = portMAX_DELAY <=> o.ticks = portMAX_DELAY)
      /\ ~o.set => o.ticks = o.asked
      /\ o.set /\ o.path # "expired" => Noted(o) <= now /\ Noted(o) + o.ticks >= o.start + o.asked
      /\ o.path = "expired" => o.ticks = 0 /\ o.asked < portMAX_DELAY /\ now >= o.start + o.asked
      /\ label = "giveUp" => o.path = "expired"
      /\ label \notin {"try", "giveUp", "unlockTx", "unlockRx", "resumeAll"} => o.path # "expired"
      /\ label \in {"suspendAll", "lock", "timeout", "isFull", "place"} => o.set /\ o.ticks > 0
TimeOK(t) == TimeGood(op[t], pc[t], NowOf(k))
ClockOK == k.pended <= 1 /\ NowOf(k) + k.pended < q.use.ticks

-----------------------------------------------------------------------------
(* What the kernel functions do to the tasks that wait.                    *)

\* A task stays where it is, becomes ready, or goes from an event list to
\* xPendingReadyList.
Stays(a, m, u) ==
    /\ u \in ReadyTasks(m) <=> u \in ReadyTasks(a)
    /\ u \in Away(m) <=> u \in Away(a)
    /\ u \in ToSet(m.pending) <=> u \in ToSet(a.pending)
    /\ \A l \in EventList : u \in ToSet(m.event[l]) <=> u \in ToSet(a.event[l])
Freed(m, u) ==
    /\ u \in ReadyTasks(m) /\ u \notin Away(m) /\ u \notin ToSet(m.pending) /\ ~InEvents(m, u)
Pended(a, m, u) ==
    /\ u \in Away(a) /\ u \in Away(m) /\ u \in ToSet(m.pending) /\ ~InEvents(m, u)
Advanced(a, m) == \A u \in Task : Stays(a, m, u) \/ Freed(m, u) \/ Pended(a, m, u)

\* A waiter is blocked, and in one list only.
Waiters(a) ==
    /\ \A u \in ToSet(a.pending) : u \in Away(a)
    /\ \A l \in EventList : \A u \in ToSet(a.event[l]) :
          /\ u \in Away(a) /\ u \notin ToSet(a.pending)
          /\ \A x \in EventList : u \in ToSet(a.event[x]) => x = l

\* One such change after another.
LEMMA AdvancedThen ==
    ASSUME NEW a, NEW b, NEW c, Advanced(a, b), Advanced(b, c)
    PROVE  Advanced(a, c)
<1> SUFFICES ASSUME NEW u \in Task PROVE Stays(a, c, u) \/ Freed(c, u) \/ Pended(a, c, u)
  BY DEF Advanced
<1>1. Stays(a, b, u) \/ Freed(b, u) \/ Pended(a, b, u)
  BY DEF Advanced
<1>2. Stays(b, c, u) \/ Freed(c, u) \/ Pended(b, c, u)
  BY DEF Advanced
<1>3. CASE Stays(b, c, u)
  BY <1>1, <1>3 DEF Stays, Freed, Pended, InEvents
<1>4. CASE Pended(b, c, u)
  BY <1>1, <1>4 DEF Stays, Freed, Pended
<1> QED
  BY <1>2, <1>3, <1>4

\* No change.
LEMMA AdvancedSame ==
    ASSUME NEW a, NEW m, ReadyTasks(m) = ReadyTasks(a), Away(m) = Away(a), SameEvents(a, m)
    PROVE  Advanced(a, m)
BY DEF Advanced, Stays, SameEvents

\* The event lists only get shorter.
LEMMA EventsShrink ==
    ASSUME NEW a, NEW m, Advanced(a, m), NEW u \in Task, NEW l \in EventList, u \in ToSet(m.event[l])
    PROVE  u \in ToSet(a.event[l])
BY DEF Advanced, Stays, Freed, Pended, InEvents

\* The waiters stay in order.
LEMMA WaitersAfter ==
    ASSUME NEW a \in Kernel, NEW m \in Kernel, Waiters(a), Advanced(a, m)
    PROVE  Waiters(m)
<1>1. /\ ToSet(m.pending) \subseteq Task /\ \A l \in EventList : ToSet(m.event[l]) \subseteq Task
  BY KernelFields, TaskLists
<1>2. ASSUME NEW u \in ToSet(m.pending) PROVE u \in Away(m)
  BY <1>1, <1>2 DEF Advanced, Stays, Freed, Pended, Waiters
<1>3. ASSUME NEW l \in EventList, NEW u \in ToSet(m.event[l])
      PROVE  /\ u \in Away(m) /\ u \notin ToSet(m.pending)
             /\ \A x \in EventList : u \in ToSet(m.event[x]) => x = l
  <2>1. u \in Task /\ InEvents(m, u)
    BY <1>1 DEF InEvents
  <2>2. Stays(a, m, u)
    BY <2>1 DEF Advanced, Freed, Pended
  <2> QED
    BY <2>2 DEF Stays, Waiters
<1> QED
  BY <1>2, <1>3 DEF Waiters

\* What is good of a task stays good.
LEMMA GoodAfter ==
    ASSUME NEW a, NEW m, Advanced(a, m), NEW u \in Task, NEW o, NEW label, TaskGood(a, o, label, u)
    PROVE  TaskGood(m, o, label, u)
<1>1. CASE Stays(a, m, u)
  BY <1>1 DEF TaskGood, Stays
<1>2. CASE Freed(m, u)
  BY <1>2 DEF TaskGood, Freed, InEvents
<1>3. CASE Pended(a, m, u)
  BY <1>3 DEF TaskGood, Pended, InEvents
<1> QED
  BY <1>1, <1>2, <1>3 DEF Advanced

\* The facts about a good kernel state.
LEMMA KernelParts ==
    ASSUME NEW a, KernelOK(a)
    PROVE  /\ a \in Kernel /\ Apart(a) /\ Timed(a) /\ IdleReady(a)
           /\ a.cur \in Task /\ a.live = Task /\ a.prio = InitialPrio
           /\ \A l \in EventList : /\ a.event[l] \in TaskList /\ Sorted(a.event[l], ItemValue)
                                   /\ ToSet(a.event[l]) \subseteq Task
           /\ a.pending \in TaskList /\ ToSet(a.pending) \subseteq Task
           /\ a.pending = <<>> <=> ToSet(a.pending) = {}
           /\ \A u \in ReadyTasks(a) : u \notin Away(a)
           /\ a.locks \in Nat /\ a.pended \in Nat /\ a.tick \in Tick /\ a.overflows \in OverflowCount
           /\ ReadyTasks(a) \subseteq Task /\ Away(a) \subseteq Task
<1>1. a \in Kernel /\ Apart(a) /\ Timed(a) /\ IdleReady(a)
  BY DEF KernelOK
<1>2. /\ a.cur \in Task /\ a.live = Task /\ a.prio = InitialPrio
      /\ \A l \in EventList : Sorted(a.event[l], ItemValue)
  BY DEF KernelOK
<1>3. \A l \in EventList : a.event[l] \in TaskList /\ ToSet(a.event[l]) \subseteq Task
  BY <1>1, KernelFields, TaskLists
<1>4. /\ a.pending \in TaskList /\ ToSet(a.pending) \subseteq Task
      /\ a.pending = <<>> <=> ToSet(a.pending) = {}
  BY <1>1, KernelFields, TaskLists
<1>5. \A u \in ReadyTasks(a) : u \notin Away(a)
  BY <1>1 DEF Apart, Away, Blocked
<1>6. a.locks \in Nat /\ a.pended \in Nat /\ a.tick \in Tick /\ a.overflows \in OverflowCount
  BY <1>1, KernelFields DEF OverflowCount
<1>7. ReadyTasks(a) \subseteq Task
  BY <1>1, ReadyHere
<1>8. Away(a) \subseteq Task
  <2>1. a.delayed \in TaskList /\ a.overflow \in TaskList /\ a.suspended \subseteq Task
    BY <1>1, KernelFields
  <2>2. ToSet(a.delayed) \subseteq Task /\ ToSet(a.overflow) \subseteq Task
    BY <2>1, TaskLists
  <2> QED
    BY <2>1, <2>2 DEF Away, Blocked
<1> QED
  BY <1>1, <1>2, <1>3, <1>4, <1>5, <1>6, <1>7, <1>8

\* vTaskSwitchContext while the scheduler is not suspended.
LEMMA SwitchStep ==
    ASSUME NEW a, KernelOK(a), a.locks = 0
    PROVE  LET m == vTaskSwitchContext(a) IN
           /\ KernelOK(m) /\ Advanced(a, m) /\ m.cur \in ReadyTasks(m) /\ m.locks = 0
           /\ ReadyTasks(m) = ReadyTasks(a) /\ SameClock(a, m) /\ SameEvents(a, m)
<1> DEFINE m == vTaskSwitchContext(a)
<1>0. a \in Kernel /\ Apart(a) /\ Timed(a) /\ IdleReady(a)
  BY KernelParts
<1>1. m \in Kernel /\ Apart(m) /\ Switched(a, m) /\ m.cur \in ReadyTasks(a)
  BY <1>0, SwitchContext
<1> HIDE DEF m
<1>2. /\ ReadyTasks(m) = ReadyTasks(a) /\ SameClock(a, m) /\ SameEvents(a, m) /\ m.locks = 0
      /\ m.prio = a.prio /\ m.live = a.live /\ Away(m) = Away(a)
  BY <1>1 DEF Switched, SameTasks, Away, Blocked
<1>3. Timed(m) /\ IdleReady(m)
  BY <1>0, <1>1, <1>2 DEF Switched, SameClock, Timed, IdleReady
<1>4. m.cur \in Task
  BY <1>0, <1>1, ReadyHere
<1>5. KernelOK(m)
  BY <1>1, <1>2, <1>3, <1>4, KernelParts DEF KernelOK, SameEvents
<1>6. Advanced(a, m)
  BY <1>2, AdvancedSame
<1> QED
  BY <1>1, <1>2, <1>5, <1>6 DEF m

\* Nothing but xYieldPending changes.
LEMMA YieldStep ==
    ASSUME NEW a, KernelOK(a), NEW y \in BOOLEAN
    PROVE  LET m == [a EXCEPT !.yield = y] IN
           /\ KernelOK(m) /\ ReadyTasks(m) = ReadyTasks(a) /\ Away(m) = Away(a) /\ SameEvents(a, m)
           /\ m.cur = a.cur /\ m.locks = a.locks /\ SameClock(a, m)
<1> DEFINE m == [a EXCEPT !.yield = y]
<1>0. a \in Kernel /\ Apart(a) /\ Timed(a) /\ IdleReady(a)
  BY KernelParts
<1>1. m \in Kernel /\ Apart(m) /\ Switched(a, m) /\ m.cur = a.cur
  BY <1>0, SetYield
<1> HIDE DEF m
<1>2. /\ ReadyTasks(m) = ReadyTasks(a) /\ SameClock(a, m) /\ SameEvents(a, m) /\ m.locks = a.locks
      /\ m.prio = a.prio /\ m.live = a.live /\ Away(m) = Away(a)
  BY <1>1 DEF Switched, SameTasks, Away, Blocked
<1>3. Timed(m) /\ IdleReady(m)
  BY <1>0, <1>1, <1>2 DEF Switched, SameClock, Timed, IdleReady
<1>5. KernelOK(m)
  BY <1>1, <1>2, <1>3, KernelParts DEF KernelOK, SameEvents
<1> QED
  BY <1>1, <1>2, <1>5 DEF m

\* A waiter leaves the event lists: the state before it is put elsewhere.
LEMMA EventItemOut ==
    ASSUME NEW a, KernelOK(a), Waiters(a), NEW l \in EventList, NEW t \in ToSet(a.event[l])
    PROVE  LET m == RemoveEventItem(a, t) IN
           /\ KernelOK(m) /\ ReadyTasks(m) = ReadyTasks(a) /\ Away(m) = Away(a)
           /\ m.cur = a.cur /\ m.locks = a.locks /\ SameClock(a, m) /\ m.pending = a.pending
           /\ ToSet(m.event[l]) = ToSet(a.event[l]) \ {t} /\ Len(m.event[l]) = Len(a.event[l]) - 1
           /\ \A x \in EventList \ {l} : m.event[x] = a.event[x]
           /\ ~InEvents(m, t) /\ t \notin ToSet(m.pending) /\ t \in Away(m) /\ t \in Task
<1> DEFINE m == RemoveEventItem(a, t)
<1>0. /\ a \in Kernel /\ Apart(a) /\ Timed(a) /\ IdleReady(a) /\ t \in Task
      /\ a.cur \in Task /\ a.live = Task /\ a.prio = InitialPrio
      /\ a.pending \in TaskList
      /\ \A x \in EventList : a.event[x] \in TaskList /\ Sorted(a.event[x], ItemValue)
  BY KernelParts
<1>1. /\ m \in Kernel
      /\ m.pending = Unlink(a.pending, t)
      /\ \A x \in EventList : m.event[x] = Unlink(a.event[x], t)
      /\ m.top = a.top /\ m.next = a.next /\ m.yield = a.yield
      /\ SameTasks(a, m) /\ SameClock(a, m) /\ SameCpu(a, m) /\ SameState(a, m)
  BY <1>0, RemoveEvent
<1> HIDE DEF m
<1>2. Apart(m) /\ ReadyTasks(m) = ReadyTasks(a) /\ Blocked(m) = Blocked(a)
  BY <1>0, <1>1, ApartSame DEF SameState, SameTasks
<1>3. Away(m) = Away(a) /\ m.cur = a.cur /\ m.locks = a.locks /\ m.prio = a.prio /\ m.live = a.live
  BY <1>1, <1>2 DEF Away, SameState, SameCpu, SameTasks
<1>4. Timed(m) /\ IdleReady(m)
  BY <1>0, <1>1, <1>2, <1>3 DEF SameState, SameClock, Timed, IdleReady
<1>5. \A x \in EventList : Sorted(m.event[x], ItemValue) /\ ToSet(m.event[x]) = ToSet(a.event[x]) \ {t}
  BY <1>0, <1>1, TaskUnlink
<1>6. KernelOK(m)
  BY <1>0, <1>1, <1>2, <1>3, <1>4, <1>5 DEF KernelOK
<1>7. t \in Away(a) /\ t \notin ToSet(a.pending) /\ \A x \in EventList \ {l} : t \notin ToSet(a.event[x])
  BY DEF Waiters
<1>8. m.pending = a.pending /\ \A x \in EventList \ {l} : m.event[x] = a.event[x]
  BY <1>0, <1>1, <1>7, TaskUnlink
<1>9. Len(m.event[l]) = Len(a.event[l]) - 1
  BY <1>0, <1>1, TaskUnlink
<1>10. ~InEvents(m, t)
  BY <1>5 DEF InEvents
<1> QED
  BY <1>0, <1>1, <1>2, <1>3, <1>5, <1>6, <1>7, <1>8, <1>9, <1>10 DEF m

\* xTaskRemoveFromEventList.
LEMMA RemoveStep ==
    ASSUME NEW a, KernelOK(a), Waiters(a), NEW l \in EventList, a.event[l] # <<>>
    PROVE  LET r == xTaskRemoveFromEventList(a, l)
               m == r.k
               t == Head(a.event[l])
           IN  /\ r.higher \in BOOLEAN /\ KernelOK(m) /\ Advanced(a, m)
               /\ m.cur = a.cur /\ m.locks = a.locks /\ SameClock(a, m)
               /\ ReadyTasks(a) \subseteq ReadyTasks(m)
               /\ a.locks = 0 => m.pending = a.pending
               /\ t \in ToSet(a.event[l]) /\ ToSet(m.event[l]) = ToSet(a.event[l]) \ {t}
               /\ Len(m.event[l]) = Len(a.event[l]) - 1
               /\ \A x \in EventList \ {l} : m.event[x] = a.event[x]
<1> DEFINE t == Head(a.event[l])
           b == RemoveEventItem(a, t)
           h == a.prio[t] > a.prio[a.cur]
           n == IF a.locks = 0 THEN MoveToReady(b, t) ELSE [b EXCEPT !.pending = Append(@, t)]
           y == n.yield \/ h
           m == [n EXCEPT !.yield = y]
<1>1. xTaskRemoveFromEventList(a, l) = [k |-> m, higher |-> h]
  BY DEF xTaskRemoveFromEventList
<1>2. t \in ToSet(a.event[l])
  BY KernelParts, TaskLists
<1> HIDE DEF t
<1>3. /\ KernelOK(b) /\ ReadyTasks(b) = ReadyTasks(a) /\ Away(b) = Away(a)
      /\ b.cur = a.cur /\ b.locks = a.locks /\ SameClock(a, b) /\ b.pending = a.pending
      /\ ToSet(b.event[l]) = ToSet(a.event[l]) \ {t} /\ Len(b.event[l]) = Len(a.event[l]) - 1
      /\ \A x \in EventList \ {l} : b.event[x] = a.event[x]
      /\ ~InEvents(b, t) /\ t \notin ToSet(b.pending) /\ t \in Away(b) /\ t \in Task
  BY <1>2, EventItemOut
<1> HIDE DEF b
<1>4. /\ b \in Kernel /\ Apart(b) /\ Timed(b) /\ IdleReady(b)
      /\ b.cur \in Task /\ b.live = Task /\ b.prio = InitialPrio
      /\ \A x \in EventList : Sorted(b.event[x], ItemValue)
  BY <1>3, KernelParts
<1>5. /\ KernelOK(n) /\ n.cur = b.cur /\ n.locks = b.locks /\ SameClock(b, n) /\ n.event = b.event
      /\ ReadyTasks(b) \subseteq ReadyTasks(n)
      /\ a.locks = 0 => n.pending = b.pending
      /\ Freed(n, t) \/ Pended(a, n, t)
      /\ \A u \in Task \ {t} : Same(b, n, u)
  <2>1. CASE a.locks = 0
    <3>1. /\ Risen(b, n, t) /\ SameEvents(b, n) /\ SameTasks(b, n)
      BY <1>3, <1>4, <2>1, MoveTimed
    <3> HIDE DEF n
    <3>2. /\ n \in Kernel /\ Apart(n) /\ Timed(n) /\ ReadyTasks(n) = ReadyTasks(b) \cup {t}
          /\ SameClock(b, n) /\ SameCpu(b, n) /\ n.prio = b.prio /\ n.live = b.live
          /\ n.event = b.event /\ n.pending = b.pending /\ Others(b, n, {t})
      BY <3>1 DEF Risen, SameEvents
    <3>3. KernelOK(n) /\ n.cur = b.cur /\ n.locks = b.locks
      BY <1>4, <3>2 DEF KernelOK, SameCpu, IdleReady
    <3>4. t \in ReadyTasks(n) /\ t \notin Away(n)
      BY <3>2, <3>3, KernelParts
    <3>5. Freed(n, t)
      BY <1>3, <3>2, <3>4 DEF Freed, InEvents
    <3> QED
      BY <3>2, <3>3, <3>5 DEF Others
  <2>2. CASE a.locks # 0
    <3>1. Pends(b, n, t) /\ n.event = b.event
      BY <1>3, <1>4, <2>2, PendTask
    <3> HIDE DEF n
    <3>2. /\ n \in Kernel /\ Apart(n) /\ Timed(n) /\ SameState(b, n)
          /\ SameClock(b, n) /\ SameCpu(b, n) /\ n.prio = b.prio /\ n.live = b.live
          /\ ToSet(n.pending) = ToSet(b.pending) \cup {t} /\ Others(b, n, {t})
      BY <3>1 DEF Pends
    <3>3. ReadyTasks(n) = ReadyTasks(b) /\ Away(n) = Away(b)
      BY <3>2 DEF ReadyTasks, Away, Blocked, SameState
    <3>4. KernelOK(n) /\ n.cur = b.cur /\ n.locks = b.locks
      BY <1>4, <3>1, <3>2, <3>3 DEF KernelOK, SameCpu, IdleReady
    <3>5. Pended(a, n, t)
      BY <1>3, <3>1, <3>2, <3>3 DEF Pended, InEvents
    <3> QED
      BY <2>2, <3>1, <3>2, <3>3, <3>4, <3>5 DEF Others
  <2> QED
    BY <2>1, <2>2
<1>6. y \in BOOLEAN /\ h \in BOOLEAN
  OBVIOUS
<1> HIDE DEF n, y, h
<1>7. /\ KernelOK(m) /\ ReadyTasks(m) = ReadyTasks(n) /\ Away(m) = Away(n) /\ SameEvents(n, m)
      /\ m.cur = n.cur /\ m.locks = n.locks /\ SameClock(n, m)
  BY <1>5, <1>6, YieldStep
<1> HIDE DEF m
<1>8. Advanced(a, m)
  <2> SUFFICES ASSUME NEW u \in Task PROVE Stays(a, m, u) \/ Freed(m, u) \/ Pended(a, m, u)
    BY DEF Advanced
  <2>1. CASE u = t
    BY <1>5, <1>7, <2>1 DEF Freed, Pended, SameEvents, InEvents
  <2>2. CASE u # t
    <3>1. Same(b, n, u)
      BY <1>5, <2>2
    <3>2. \A x \in EventList : u \in ToSet(b.event[x]) <=> u \in ToSet(a.event[x])
      BY <1>3, <2>2
    <3>3. u \in Away(n) <=> u \in Away(b)
      BY <3>1 DEF Same, Away
    <3> QED
      BY <1>3, <1>5, <1>7, <3>1, <3>2, <3>3 DEF Stays, SameEvents, Same
  <2> QED
    BY <2>1, <2>2
<1>9. SameClock(a, m)
  BY <1>3, <1>5, <1>7 DEF SameClock
<1>10. ReadyTasks(a) \subseteq ReadyTasks(m)
  BY <1>3, <1>5, <1>7
<1>11. /\ ToSet(m.event[l]) = ToSet(a.event[l]) \ {t} /\ Len(m.event[l]) = Len(a.event[l]) - 1
       /\ \A x \in EventList \ {l} : m.event[x] = a.event[x]
       /\ a.locks = 0 => m.pending = a.pending
       /\ m.cur = a.cur /\ m.locks = a.locks
  BY <1>3, <1>5, <1>7 DEF SameEvents
<1>12. xTaskRemoveFromEventList(a, l).k = m /\ xTaskRemoveFromEventList(a, l).higher = h
  BY <1>1
<1> QED
  BY <1>2, <1>6, <1>7, <1>8, <1>9, <1>10, <1>11, <1>12 DEF t

\* Tasks that become ready.
LEMMA AdvancedWoken ==
    ASSUME NEW a, NEW m, KernelOK(a), m \in Kernel, Apart(m), NEW W, ReadyTasks(m) = ReadyTasks(a) \cup W,
           Away(m) = Away(a) \ W, EventsLeft(a, m, W)
    PROVE  Advanced(a, m)
<1> SUFFICES ASSUME NEW u \in Task PROVE Stays(a, m, u) \/ Freed(m, u)
  BY DEF Advanced
<1>1. CASE u \in W
  BY <1>1 DEF Freed, EventsLeft, InEvents
<1>2. CASE u \notin W
  BY <1>2 DEF Stays, EventsLeft
<1> QED
  BY <1>1, <1>2

\* xTaskIncrementTick while the scheduler is not suspended.
LEMMA TickStep ==
    ASSUME NEW a, KernelOK(a), a.locks = 0
    PROVE  LET r == xTaskIncrementTick(a)
               m == r.k
           IN  /\ r.switch \in BOOLEAN /\ KernelOK(m) /\ Advanced(a, m)
               /\ m.cur = a.cur /\ m.locks = 0 /\ m.pended = a.pended
               /\ ReadyTasks(a) \subseteq ReadyTasks(m)
               /\ a.pending = <<>> => m.pending = <<>>
<1> DEFINE r == Ticked(a)
           m == r.k
           W == ReadyTasks(m) \ ReadyTasks(a)
<1>0. /\ a \in Kernel /\ Apart(a) /\ Timed(a) /\ IdleReady(a) /\ a.cur \in Task /\ a.live = Task
      /\ a.prio = InitialPrio /\ \A l \in EventList : Sorted(a.event[l], ItemValue)
  BY KernelParts
<1>1. xTaskIncrementTick(a) = r
  BY DEF xTaskIncrementTick
<1>2. /\ r.switch \in BOOLEAN
      /\ m \in Kernel /\ Apart(m) /\ Timed(m) /\ Woken(a, m, W) /\ m.pended = a.pended
  BY <1>0, TickTasks
<1> HIDE DEF r, m
<1>3. /\ W \subseteq Blocked(a) /\ Blocked(m) = Blocked(a) \ W
      /\ ReadyTasks(m) = ReadyTasks(a) \cup W /\ m.suspended = a.suspended
      /\ m.live = a.live /\ m.prio = a.prio /\ m.cur = a.cur /\ m.locks = a.locks /\ EventsLeft(a, m, W)
  BY <1>2 DEF Woken, SameTasks, SameCpu
<1> HIDE DEF W
<1>4. \A u \in W : u \notin a.suspended
  BY <1>0, <1>3 DEF Apart, Blocked
<1>5. Away(m) = Away(a) \ W
  BY <1>3, <1>4 DEF Away
<1>6. Advanced(a, m)
  BY <1>2, <1>3, <1>5, AdvancedWoken
<1>7. \A l \in EventList : Sorted(m.event[l], ItemValue)
  BY <1>0, <1>3 DEF EventsLeft
<1>8. KernelOK(m)
  BY <1>0, <1>2, <1>3, <1>7 DEF KernelOK, IdleReady
<1>9. a.pending = <<>> => m.pending = <<>>
  <2>1. a.pending = <<>> => ToSet(a.pending) = {}
    BY KernelParts
  <2> QED
    BY <1>3, <1>8, <2>1, KernelParts DEF EventsLeft
<1>10. xTaskIncrementTick(a).k = m /\ xTaskIncrementTick(a).switch = r.switch
  BY <1>1 DEF m
<1>11. ReadyTasks(a) \subseteq ReadyTasks(m) /\ m.cur = a.cur /\ m.locks = 0
  BY <1>3
<1> QED
  BY <1>2, <1>6, <1>8, <1>9, <1>10, <1>11

\* xTaskResumeAll.
LEMMA ResumeStep ==
    ASSUME NEW a, KernelOK(a), Waiters(a), a.locks = 1
    PROVE  LET r == xTaskResumeAll(a)
               m == r.k
           IN  /\ r.yielded \in BOOLEAN /\ KernelOK(m) /\ Advanced(a, m)
               /\ m.locks = 0 /\ m.pended = 0 /\ m.pending = <<>>
               /\ ReadyTasks(a) \subseteq ReadyTasks(m)
               /\ IF r.yielded THEN m.cur \in ReadyTasks(m) ELSE m.cur = a.cur
<1> DEFINE r == xTaskResumeAll(a)
           m == r.k
           P == ToSet(a.pending)
           W == ReadyTasks(m) \ (ReadyTasks(a) \cup P)
<1>0. /\ a \in Kernel /\ Apart(a) /\ Timed(a) /\ IdleReady(a) /\ a.cur \in Task /\ a.live = Task
      /\ a.prio = InitialPrio /\ \A l \in EventList : Sorted(a.event[l], ItemValue)
  BY KernelParts
<1>1. /\ r.yielded \in BOOLEAN
      /\ m \in Kernel /\ Apart(m) /\ Timed(m) /\ Roused(a, m, P, W)
      /\ m.locks = 0 /\ m.pended = 0 /\ m.pending = <<>>
      /\ r.yielded => m.cur \in ReadyTasks(m)
      /\ ~r.yielded => m.cur = a.cur
  BY <1>0, ResumeScheduler
<1> HIDE DEF r, m, W, P
<1>2. /\ W \subseteq Blocked(a) \ P /\ Blocked(m) = Blocked(a) \ (P \cup W)
      /\ ReadyTasks(m) = ReadyTasks(a) \cup P \cup W /\ m.suspended = a.suspended \ P
      /\ m.live = a.live /\ m.prio = a.prio /\ EventsLeft(a, m, P \cup W)
  BY <1>1 DEF Roused, SameTasks
<1>3. \A u \in W : u \notin a.suspended
  BY <1>0, <1>2 DEF Apart, Blocked
<1>4. Away(m) = Away(a) \ (P \cup W)
  BY <1>2, <1>3 DEF Away
<1>5. Advanced(a, m)
  <2>1. ReadyTasks(m) = ReadyTasks(a) \cup (P \cup W)
    BY <1>2
  <2> QED
    BY <1>1, <1>2, <1>4, <2>1, AdvancedWoken
<1>6. \A l \in EventList : Sorted(m.event[l], ItemValue)
  BY <1>0, <1>2 DEF EventsLeft
<1>7. m.cur \in Task
  BY <1>0, <1>1, ReadyHere
<1>8. KernelOK(m)
  BY <1>0, <1>1, <1>2, <1>6, <1>7 DEF KernelOK, IdleReady
<1>9. ReadyTasks(a) \subseteq ReadyTasks(m)
  BY <1>2
<1> QED
  BY <1>1, <1>5, <1>8, <1>9 DEF r, m

\* vTaskPlaceOnEventList.
LEMMA PlaceStep ==
    ASSUME NEW a, KernelOK(a), NEW l \in EventList, NEW n \in Tick \ {0}, a.cur # Idle,
           ~InEvents(a, a.cur)
    PROVE  LET m == vTaskPlaceOnEventList(a, l, n)
               t == a.cur
           IN  /\ KernelOK(m) /\ m.cur = t /\ m.locks = a.locks /\ SameClock(a, m) /\ m.pending = a.pending
               /\ \A u \in Task \ {t} : Stays(a, m, u)
               /\ t \notin ReadyTasks(m) /\ t \in Away(m)
               /\ ToSet(m.event[l]) = ToSet(a.event[l]) \cup {t}
               /\ \A x \in EventList \ {l} : m.event[x] = a.event[x]
<1> DEFINE t == a.cur
           s == vListInsert(a.event[l], t, EventItemValue(a))
           b == [a EXCEPT !.event[l] = s]
           m == prvAddCurrentTaskToDelayedList(b, n, TRUE)
<1>0. /\ a \in Kernel /\ Apart(a) /\ Timed(a) /\ IdleReady(a) /\ a.cur \in Task /\ a.live = Task
      /\ a.prio = InitialPrio
      /\ \A x \in EventList : a.event[x] \in TaskList /\ Sorted(a.event[x], ItemValue)
  BY KernelParts
<1>1. vTaskPlaceOnEventList(a, l, n) = m
  <2>1. b = [a EXCEPT !.event[l] = vListInsert(@, a.cur, EventItemValue(a))]
    BY <1>0 DEF Kernel
  <2> QED
    BY <2>1 DEF vTaskPlaceOnEventList
<1>2. EventItemValue(a) = ItemValue /\ ItemValue \in [Task -> Int]
  <2>1. configMAX_PRIORITIES \in Int /\ \A u \in Task : InitialPrio[u] \in Int
    BY TasksAssumption, QueueAssumption DEF Priority
  <2> QED
    BY <1>0, <2>1 DEF EventItemValue, ItemValue
<1>3. s \in TaskList /\ ToSet(s) = ToSet(a.event[l]) \cup {t} /\ Sorted(s, ItemValue)
  <2>1. t \notin ToSet(a.event[l])
    BY DEF InEvents
  <2> QED
    BY <1>0, <1>2, <2>1, TaskInsert
<1> HIDE DEF s
<1>4. /\ b \in Kernel /\ b.event = [a.event EXCEPT ![l] = s] /\ b.cur = t
      /\ SameState(a, b) /\ SameTasks(a, b) /\ SameClock(a, b) /\ SameCpu(a, b)
      /\ b.pending = a.pending /\ b.next = a.next
  <2>1. a.event \in EventLists /\ [a.event EXCEPT ![l] = s] \in EventLists
    BY <1>0, <1>3, KernelFields DEF EventLists
  <2>2. b = [a EXCEPT !.event = [a.event EXCEPT ![l] = s]]
    BY <1>0 DEF Kernel
  <2> HIDE DEF b
  <2>3. b \in Kernel /\ b.event = [a.event EXCEPT ![l] = s]
    BY <1>0, <2>1, <2>2 DEF Kernel
  <2>4. /\ SameState(a, b) /\ SameTasks(a, b) /\ SameClock(a, b) /\ SameCpu(a, b)
        /\ b.pending = a.pending /\ b.next = a.next
    BY <1>0, <2>2 DEF Kernel, SameState, SameTasks, SameClock, SameCpu
  <2> QED
    BY <2>3, <2>4 DEF SameCpu
<1> HIDE DEF b
<1>5. Apart(b) /\ ReadyTasks(b) = ReadyTasks(a) /\ Blocked(b) = Blocked(a)
  BY <1>0, <1>4, ApartSame DEF SameState, SameTasks
<1>6. Timed(b)
  BY <1>0, <1>4 DEF Timed, SameState, SameClock
<1>7. m \in Kernel /\ Apart(m) /\ Timed(m) /\ Blocks(b, m, t)
  BY <1>0, <1>4, <1>5, <1>6, AddDelayed
<1> HIDE DEF m
<1>8. /\ ReadyTasks(m) = ReadyTasks(a) \ {t} /\ t \in Away(m)
      /\ m.event = b.event /\ m.pending = a.pending /\ m.prio = a.prio /\ m.live = a.live
      /\ m.cur = t /\ m.locks = a.locks
  BY <1>4, <1>5, <1>7 DEF Blocks, Away, SameTasks, SameCpu, SameEvents
<1>9. SameClock(a, m)
  BY <1>4, <1>7 DEF Blocks, SameClock
<1>10. /\ ToSet(m.event[l]) = ToSet(a.event[l]) \cup {t}
       /\ \A x \in EventList \ {l} : m.event[x] = a.event[x]
       /\ \A x \in EventList : Sorted(m.event[x], ItemValue)
  <2>1. a.event \in [EventList -> TaskList]
    BY <1>0, KernelFields
  <2>2. m.event[l] = s /\ \A x \in EventList \ {l} : m.event[x] = a.event[x]
    BY <1>4, <1>8, <2>1
  <2> QED
    BY <1>0, <1>3, <2>2
<1>11. IdleReady(m)
  BY <1>0, <1>8 DEF IdleReady
<1>12. KernelOK(m)
  BY <1>0, <1>7, <1>8, <1>10, <1>11 DEF KernelOK
<1>13. ASSUME NEW u \in Task \ {t} PROVE Stays(a, m, u)
  <2>1. /\ u \in ToSet(m.delayed) <=> u \in ToSet(b.delayed)
        /\ u \in ToSet(m.overflow) <=> u \in ToSet(b.overflow)
        /\ u \in m.suspended <=> u \in b.suspended
    BY <1>7 DEF Blocks
  <2>2. u \in Away(m) <=> u \in Away(a)
    BY <1>4, <2>1 DEF Away, Blocked, SameState
  <2>3. \A x \in EventList : u \in ToSet(m.event[x]) <=> u \in ToSet(a.event[x])
    BY <1>10
  <2> QED
    BY <1>8, <2>2, <2>3 DEF Stays
<1> QED
  BY <1>1, <1>8, <1>9, <1>10, <1>12, <1>13

\* The loops of prvUnlockQueue: after i rounds, i waiters have left the list,
\* or the list is empty.
WakeInv(l, c, i, b) ==
    /\ KernelOK(b) /\ Advanced(c, b) /\ b.cur = c.cur /\ b.locks = c.locks /\ SameClock(c, b)
    /\ ReadyTasks(c) \subseteq ReadyTasks(b)
    /\ \A x \in EventList \ {l} : b.event[x] = c.event[x]
    /\ ToSet(b.event[l]) \subseteq ToSet(c.event[l])
    /\ b.event[l] = <<>> \/ Cardinality(ToSet(c.event[l]) \ ToSet(b.event[l])) = i
ReceiverInv(c, i, b) == WakeInv("xTasksWaitingToReceive", c, i, b)
SenderInv(c, i, b) == WakeInv("xTasksWaitingToSend", c, i, b)

Receivers == INSTANCE LoopProofs WITH Op <- WakeReceiver, Inv <- ReceiverInv
Senders == INSTANCE LoopProofs WITH Op <- WakeSender, Inv <- SenderInv

\* One round.
LEMMA WakeRound ==
    ASSUME NEW l \in EventList, NEW c, KernelOK(c), Waiters(c), NEW i \in Nat, NEW b, WakeInv(l, c, i, b)
    PROVE  WakeInv(l, c, i + 1, WakeWaiter(b, l))
<1>0. /\ KernelOK(b) /\ Advanced(c, b) /\ b.cur = c.cur /\ b.locks = c.locks /\ SameClock(c, b)
      /\ ReadyTasks(c) \subseteq ReadyTasks(b)
      /\ \A x \in EventList \ {l} : b.event[x] = c.event[x]
      /\ ToSet(b.event[l]) \subseteq ToSet(c.event[l])
      /\ b.event[l] = <<>> \/ Cardinality(ToSet(c.event[l]) \ ToSet(b.event[l])) = i
  BY DEF WakeInv
<1>1. CASE b.event[l] = <<>>
  <2>1. WakeWaiter(b, l) = b
    BY <1>1 DEF WakeWaiter
  <2> QED
    BY <1>0, <1>1, <2>1 DEF WakeInv
<1>2. CASE b.event[l] # <<>>
  <2> DEFINE r == xTaskRemoveFromEventList(b, l)
             n == r.k
             t == Head(b.event[l])
             y == n.yield \/ r.higher
             m == [n EXCEPT !.yield = y]
  <2>1. Waiters(b)
    BY <1>0, KernelParts, WaitersAfter
  <2>2. /\ KernelOK(n) /\ Advanced(b, n)
        /\ n.cur = b.cur /\ n.locks = b.locks /\ SameClock(b, n)
        /\ ReadyTasks(b) \subseteq ReadyTasks(n)
        /\ t \in ToSet(b.event[l]) /\ ToSet(n.event[l]) = ToSet(b.event[l]) \ {t}
        /\ \A x \in EventList \ {l} : n.event[x] = b.event[x]
    BY <1>0, <1>2, <2>1, RemoveStep
  <2>3. WakeWaiter(b, l) = m
    BY <1>2 DEF WakeWaiter
  <2>4. y \in BOOLEAN
    OBVIOUS
  <2> HIDE DEF r, n, t, y
  <2>5. /\ KernelOK(m) /\ ReadyTasks(m) = ReadyTasks(n) /\ Away(m) = Away(n) /\ SameEvents(n, m)
        /\ m.cur = n.cur /\ m.locks = n.locks /\ SameClock(n, m)
    BY <2>2, <2>4, YieldStep
  <2> HIDE DEF m
  <2>6. Advanced(c, m)
    <3>1. Advanced(n, m)
      BY <2>5, AdvancedSame
    <3>2. Advanced(c, n)
      BY <1>0, <2>2, AdvancedThen
    <3> QED
      BY <3>1, <3>2, AdvancedThen
  <2>7. Cardinality(ToSet(c.event[l]) \ ToSet(m.event[l])) = i + 1
    <3> DEFINE X == ToSet(c.event[l]) \ ToSet(b.event[l])
               Y == ToSet(c.event[l]) \ ToSet(m.event[l])
    <3>1. Y = X \cup {t} /\ t \notin X
      BY <1>0, <2>2, <2>5 DEF SameEvents
    <3>2. IsFiniteSet(X)
      <4>1. X \subseteq Task
        BY KernelParts
      <4> QED
        BY <4>1, QueueAssumption, FS_Subset
    <3>3. Cardinality(X) = i
      BY <1>0, <1>2
    <3> HIDE DEF X, Y
    <3>4. Cardinality(X \cup {t}) = Cardinality(X) + 1
      BY <3>1, <3>2, FS_AddElement
    <3> QED
      BY <3>1, <3>3, <3>4 DEF Y
  <2>8. /\ \A x \in EventList \ {l} : m.event[x] = c.event[x]
        /\ ToSet(m.event[l]) \subseteq ToSet(c.event[l])
        /\ ReadyTasks(c) \subseteq ReadyTasks(m) /\ m.cur = c.cur /\ m.locks = c.locks
    BY <1>0, <2>2, <2>5 DEF SameEvents
  <2>9. SameClock(c, m)
    BY <1>0, <2>2, <2>5 DEF SameClock
  <2> QED
    BY <2>3, <2>5, <2>6, <2>7, <2>8, <2>9 DEF WakeInv
<1> QED
  BY <1>1, <1>2

\* Before the first round.
LEMMA WakeStart ==
    ASSUME NEW l \in EventList, NEW c, KernelOK(c)
    PROVE  WakeInv(l, c, 0, c)
<1>1. Advanced(c, c)
  BY DEF Advanced, Stays
<1>2. ToSet(c.event[l]) \ ToSet(c.event[l]) = {} /\ Cardinality({}) = 0
  BY FS_EmptySet
<1> QED
  BY <1>1, <1>2 DEF WakeInv, SameClock

\* The loop over the receivers.
LEMMA WakeReceivers ==
    ASSUME NEW c, KernelOK(c), Waiters(c), NEW n \in Nat
    PROVE  WakeInv("xTasksWaitingToReceive", c, n, Iterate(WakeReceiver, n, c))
<1>0. "xTasksWaitingToReceive" \in EventList
  BY QueueAssumption
<1>1. ReceiverInv(c, 0, c)
  BY <1>0, WakeStart DEF ReceiverInv
<1>2. ASSUME NEW i \in 0..(n - 1), NEW b, ReceiverInv(c, i, b)
      PROVE  ReceiverInv(c, i + 1, WakeReceiver(b))
  <2>1. i \in Nat /\ WakeInv("xTasksWaitingToReceive", c, i, b)
    BY <1>2 DEF ReceiverInv
  <2>2. WakeInv("xTasksWaitingToReceive", c, i + 1, WakeWaiter(b, "xTasksWaitingToReceive"))
    BY <1>0, <2>1, WakeRound
  <2> QED
    BY <2>2 DEF ReceiverInv, WakeReceiver
<1>3. ReceiverInv(c, n, Iterate(WakeReceiver, n, c))
  BY <1>1, <1>2, Receivers!LoopInvariant DEF Iterate, Receivers!Iterate
<1> QED
  BY <1>3 DEF ReceiverInv

\* The loop over the senders.
LEMMA WakeSenders ==
    ASSUME NEW c, KernelOK(c), Waiters(c), NEW n \in Nat
    PROVE  WakeInv("xTasksWaitingToSend", c, n, Iterate(WakeSender, n, c))
<1>0. "xTasksWaitingToSend" \in EventList
  BY QueueAssumption
<1>1. SenderInv(c, 0, c)
  BY <1>0, WakeStart DEF SenderInv
<1>2. ASSUME NEW i \in 0..(n - 1), NEW b, SenderInv(c, i, b)
      PROVE  SenderInv(c, i + 1, WakeSender(b))
  <2>1. i \in Nat /\ WakeInv("xTasksWaitingToSend", c, i, b)
    BY <1>2 DEF SenderInv
  <2>2. WakeInv("xTasksWaitingToSend", c, i + 1, WakeWaiter(b, "xTasksWaitingToSend"))
    BY <1>0, <2>1, WakeRound
  <2> QED
    BY <2>2 DEF SenderInv, WakeSender
<1>3. SenderInv(c, n, Iterate(WakeSender, n, c))
  BY <1>1, <1>2, Senders!LoopInvariant DEF Iterate, Senders!Iterate
<1> QED
  BY <1>3 DEF SenderInv

-----------------------------------------------------------------------------
(* The time.                                                               *)

\* The end of the time the counters can tell apart.
Eternity == OverflowMod * TickMod

\* xNumOfOverflows after a tick.
LEMMA CountOverflows ==
    ASSUME NEW a \in Kernel
    PROVE  Count(a).overflows =
              IF TimeToWake(a.tick, 1) = 0 THEN (a.overflows + 1) % OverflowMod ELSE a.overflows
<1> DEFINE x == TimeToWake(a.tick, 1)
           b == [a EXCEPT !.tick = x]
<1>1. b.tick = x /\ b.overflows = a.overflows
  BY DEF Kernel
<1>2. Count(a) = IF x = 0 THEN taskSWITCH_DELAYED_LISTS(b) ELSE b
  BY <1>1 DEF Count
<1>3. taskSWITCH_DELAYED_LISTS(b).overflows = (a.overflows + 1) % OverflowMod
  BY DEF taskSWITCH_DELAYED_LISTS, prvResetNextTaskUnblockTime, Kernel
<1> QED
  BY <1>1, <1>2, <1>3

\* A tick adds one to the time.
LEMMA NowAfterCount ==
    ASSUME NEW o \in OverflowCount, NEW x \in Tick, o * TickMod + x + 1 < Eternity,
           NEW y, y = TimeToWake(x, 1), NEW p, p = IF y = 0 THEN (o + 1) % OverflowMod ELSE o
    PROVE  p * TickMod + y = o * TickMod + x + 1
<1>1. TickMod \in Nat \ {0, 1} /\ OverflowMod \in Nat \ {0} /\ o \in Nat /\ x \in Nat
  BY TicksAssumption, TasksAssumption DEF OverflowCount, Tick
<1>2. y = IF x + 1 = TickMod THEN 0 ELSE x + 1
  BY OneTick
<1>3. CASE x + 1 = TickMod
  <2>1. o * TickMod + x + 1 = (o + 1) * TickMod
    BY <1>1, <1>3
  <2>2. o + 1 # OverflowMod
    BY <1>1, <2>1 DEF Eternity
  <2>3. o + 1 \in 0..(OverflowMod - 1)
    BY <1>1, <2>2 DEF OverflowCount
  <2>4. p = o + 1
    BY <1>1, <1>2, <1>3, <2>3
  <2> QED
    BY <1>1, <1>2, <1>3, <2>1, <2>4
<1>4. CASE x + 1 # TickMod
  BY <1>1, <1>2, <1>4
<1> QED
  BY <1>3, <1>4

\* xTaskIncrementTick adds one to the time.
LEMMA TickNow ==
    ASSUME NEW a \in Kernel, Apart(a), Timed(a), a.cur \in Task, NowOf(a) + 1 < Eternity
    PROVE  NowOf(Ticked(a).k) = NowOf(a) + 1
<1> DEFINE b == Count(a)
           e == UnblockExpired(b)
           r == IF b.tick >= b.next THEN e ELSE [k |-> b, switch |-> FALSE]
           m == r.k
<1>1. Ticked(a).k = m
  BY DEF Ticked
<1>2. /\ b \in Kernel /\ Apart(b) /\ Counted(b) /\ b.tick = TimeToWake(a.tick, 1) /\ SameCpu(a, b)
  BY CountTick
<1>3. b.overflows = IF b.tick = 0 THEN (a.overflows + 1) % OverflowMod ELSE a.overflows
  BY <1>2, CountOverflows
<1> HIDE DEF b
<1>4. m.tick = b.tick /\ m.overflows = b.overflows
  <2>1. b.cur \in Task
    BY <1>2 DEF SameCpu
  <2>2. SameClock(b, e.k)
    <3>1. Readied(b, e.k, ToSet(b.delayed) \ ToSet(e.k.delayed))
      BY <1>2, <2>1, UnblockAll
    <3> QED
      BY <3>1 DEF Readied
  <2> QED
    BY <2>2 DEF SameClock
<1> HIDE DEF m
<1>5. a.overflows \in OverflowCount /\ a.tick \in Tick
  BY KernelFields DEF OverflowCount
<1>6. b.overflows * TickMod + b.tick = a.overflows * TickMod + a.tick + 1
  BY <1>2, <1>3, <1>5, NowAfterCount DEF NowOf
<1> QED
  BY <1>1, <1>4, <1>6 DEF NowOf

\* The loop over the pended ticks.
CatchNow(c, i, b) == CatchInv(c, i, b) /\ NowOf(b) = NowOf(c) + i
Timing == INSTANCE LoopProofs WITH Op <- TickAgain, Inv <- CatchNow

\* The time is a number.
LEMMA NowIsNat ==
    ASSUME NEW a \in Kernel
    PROVE  NowOf(a) \in Nat /\ a.pended \in Nat /\ a.tick \in Tick /\ a.overflows \in OverflowCount
<1>1. a.overflows \in OverflowCount /\ a.tick \in Tick /\ a.pended \in Nat
  BY KernelFields DEF OverflowCount
<1>2. a.overflows \in Nat /\ a.tick \in Nat /\ TickMod \in Nat
  BY <1>1, TicksAssumption DEF OverflowCount, Tick
<1>3. a.overflows * TickMod \in Nat
  BY <1>2
<1> QED
  BY <1>1, <1>2, <1>3 DEF NowOf

\* The rule for this loop.
LEMMA CatchLoop ==
    ASSUME NEW a, NEW n \in Nat, CatchNow(a, 0, a),
           \A i \in 0..(n - 1) : \A c : CatchNow(a, i, c) => CatchNow(a, i + 1, TickAgain(c))
    PROVE  CatchNow(a, n, Iterate(TickAgain, n, a))
BY Timing!LoopInvariant DEF Iterate, Timing!Iterate

\* All the pended ticks are added.
LEMMA CatchUpNow ==
    ASSUME NEW a \in Kernel, Apart(a), Timed(a), a.cur \in Task, a.locks = 0,
           NowOf(a) + a.pended < Eternity
    PROVE  NowOf(CatchUp(a)) = NowOf(a) + a.pended
<1> DEFINE n == a.pended
           b == Iterate(TickAgain, n, a)
<1>1. n \in Nat /\ a.tick \in Tick /\ NowOf(a) \in Nat
  BY NowIsNat
<1>2. CatchNow(a, 0, a)
  <2>1. Woken(a, a, {})
    <3>1. Readied(a, a, {}) /\ EventsLeft(a, a, {})
      BY ReadiedNobody
    <3> QED
      BY <3>1 DEF Readied, Woken
  <2>2. ReadyTasks(a) \ ReadyTasks(a) = {}
    OBVIOUS
  <2>3. TimeToWake(a.tick, 0) = a.tick
    BY <1>1, TickAfter
  <2>4. CatchInv(a, 0, a)
    BY <2>1, <2>2, <2>3 DEF CatchInv
  <2>5. NowOf(a) = NowOf(a) + 0
    BY <1>1
  <2> QED
    BY <2>4, <2>5 DEF CatchNow
<1>3. ASSUME NEW i \in 0..(n - 1), NEW c, CatchNow(a, i, c)
      PROVE  CatchNow(a, i + 1, TickAgain(c))
  <2>1. CatchInv(a, i, c) /\ NowOf(c) = NowOf(a) + i /\ i \in Nat
    BY <1>3 DEF CatchNow
  <2>2. CatchInv(a, i + 1, TickAgain(c))
    BY <2>1, CatchRound
  <2>3. c \in Kernel /\ Apart(c) /\ Timed(c) /\ c.cur \in Task /\ c.locks = 0
    BY <2>1 DEF CatchInv, Woken, SameCpu
  <2>4. NowOf(c) + 1 < Eternity
    <3>1. Eternity \in Int
      BY TicksAssumption, TasksAssumption DEF Eternity
    <3> QED
      BY <1>1, <2>1, <3>1
  <2>5. NowOf(Ticked(c).k) = NowOf(c) + 1
    BY <2>3, <2>4, TickNow
  <2>6. NowOf(TickAgain(c)) = NowOf(Ticked(c).k)
    <3> DEFINE d == Ticked(c).k
    <3>1. d \in Kernel
      BY <2>3, TickTasks
    <3> DEFINE y == d.yield \/ Ticked(c).switch
    <3>2. TickAgain(c) = [d EXCEPT !.yield = y]
      BY <2>3 DEF TickAgain, xTaskIncrementTick
    <3> HIDE DEF d, y
    <3>3. [d EXCEPT !.yield = y].tick = d.tick /\ [d EXCEPT !.yield = y].overflows = d.overflows
      BY <3>1 DEF Kernel
    <3>4. NowOf([d EXCEPT !.yield = y]) = NowOf(d)
      BY <3>3 DEF NowOf
    <3> QED
      BY <3>2, <3>4 DEF d
  <2> QED
    BY <1>1, <2>1, <2>2, <2>5, <2>6 DEF CatchNow
<1>4. CatchUp(a) = [b EXCEPT !.pended = 0]
  BY Zenon DEF CatchUp
<1> HIDE DEF n
<1>9. \A i \in 0..(n - 1) : \A c : CatchNow(a, i, c) => CatchNow(a, i + 1, TickAgain(c))
  BY <1>3
<1>5. CatchNow(a, n, b)
  BY <1>1, <1>2, <1>9, CatchLoop
<1> HIDE DEF b
<1>6. b \in Kernel /\ NowOf(b) = NowOf(a) + n
  BY <1>5 DEF CatchNow, CatchInv
<1>7. NowOf(CatchUp(a)) = NowOf(b)
  BY <1>4, <1>6 DEF NowOf, Kernel
<1> QED
  BY <1>6, <1>7 DEF n

\* xTaskResumeAll adds the pended ticks to the time.
LEMMA ResumeNow ==
    ASSUME NEW a, KernelOK(a), a.locks = 1, NowOf(a) + a.pended < Eternity
    PROVE  NowOf(xTaskResumeAll(a).k) = NowOf(a) + a.pended
<1> DEFINE d == [a EXCEPT !.locks = @ - 1]
           b == FlushPending(d)
           c == CatchUp(b)
<1>0. a \in Kernel /\ Apart(a) /\ Timed(a) /\ IdleReady(a) /\ a.cur \in Task
  BY KernelParts
<1>1. d = WithCounts(a, a.pended, 0) /\ a.pended \in Nat
  <2>1. a.pended \in Nat /\ d = [a EXCEPT !.locks = 0]
    BY <1>0, KernelFields
  <2>2. [a EXCEPT !.locks = 0] = WithCounts(a, a.pended, 0)
    BY <1>0 DEF Kernel, WithCounts
  <2> QED
    BY <2>1, <2>2
<1>2. /\ d \in Kernel /\ Apart(d) /\ d.pended = a.pended /\ d.locks = 0 /\ SameState(a, d)
      /\ ReadyTasks(d) = ReadyTasks(a) /\ SameTasks(a, d) /\ SameEvents(a, d)
      /\ d.cur = a.cur /\ d.next = a.next /\ d.tick = a.tick /\ d.overflows = a.overflows
  <2> DEFINE w == WithCounts(a, a.pended, 0)
  <2>1. /\ w \in Kernel /\ Apart(w) /\ w.pended = a.pended /\ w.locks = 0 /\ SameState(a, w)
        /\ ReadyTasks(w) = ReadyTasks(a) /\ SameTasks(a, w) /\ SameEvents(a, w)
        /\ w.cur = a.cur /\ w.next = a.next /\ w.tick = a.tick /\ w.overflows = a.overflows
    BY <1>0, <1>1, SetCounts
  <2> HIDE DEF d, w
  <2>2. d = w
    BY <1>1 DEF w
  <2> QED
    BY <2>1, <2>2
<1>3. xTaskResumeAll(a) = IF c.yield THEN [k |-> vTaskSwitchContext(c), yielded |-> TRUE]
                          ELSE [k |-> c, yielded |-> FALSE]
  BY <1>2 DEF xTaskResumeAll
<1> HIDE DEF d
<1>4. Timed(d)
  BY <1>0, <1>2 DEF Timed, SameState
<1>5. b \in Kernel /\ Apart(b) /\ Timed(b) /\ Readied(d, b, ToSet(d.pending))
  BY <1>0, <1>2, <1>4, Flush
<1> HIDE DEF b
<1>6. /\ b.locks = 0 /\ b.cur = a.cur /\ b.pended = a.pended /\ b.tick = a.tick
      /\ b.overflows = a.overflows /\ b.prio = a.prio /\ ReadyTasks(a) \subseteq ReadyTasks(b)
  BY <1>2, <1>5 DEF Readied, SameCpu, SameClock, SameTasks
<1>7. NowOf(b) = NowOf(a)
  BY <1>6 DEF NowOf
<1>8. NowOf(c) = NowOf(a) + a.pended
  BY <1>0, <1>5, <1>6, <1>7, CatchUpNow
<1>9. c \in Kernel /\ Apart(c) /\ IdleReady(c)
  <2>1. c \in Kernel /\ Apart(c) /\ Woken(b, c, ReadyTasks(c) \ ReadyTasks(b))
    BY <1>0, <1>5, <1>6, Catch
  <2> QED
    BY <1>0, <1>6, <2>1 DEF Woken, IdleReady, SameTasks
<1> HIDE DEF c
<1>10. NowOf(vTaskSwitchContext(c)) = NowOf(c)
  <2>1. Switched(c, vTaskSwitchContext(c))
    BY <1>9, SwitchContext
  <2> QED
    BY <2>1 DEF Switched, SameClock, NowOf
<1> QED
  BY <1>3, <1>8, <1>10

-----------------------------------------------------------------------------
(* The ring buffer.                                                        *)

ContentsOf(s) ==
    [i \in 1..s.waiting |->
        IF s.use.semaphore THEN NULL ELSE s.slots[(s.readFrom + i) % s.use.uxLength]]

\* A position in a ring of n places, at most twice round.
LEMMA Around ==
    ASSUME NEW n \in Nat \ {0}, NEW x \in 0..(2 * n)
    PROVE  x % n = IF x < n THEN x ELSE IF x < 2 * n THEN x - n ELSE 0
<1>1. CASE x < n
  BY <1>1, Z3
<1>2. CASE x >= n /\ x < 2 * n
  BY <1>2, Z3
<1>3. CASE x = 2 * n
  BY <1>3, Z3
<1> QED
  BY <1>1, <1>2, <1>3

\* The place i behind place r.
LEMMA Behind ==
    ASSUME NEW n \in Nat \ {0}, NEW r \in 0..(n - 1), NEW i \in 0..(n + 1)
    PROVE  /\ (r + i) % n = IF r + i < n THEN r + i ELSE IF r + i < 2 * n THEN r + i - n ELSE 0
           /\ (r + i) % n \in 0..(n - 1)
<1>1. PICK x \in 0..(2 * n) : x = r + i
  OBVIOUS
<1>2. x % n = IF x < n THEN x ELSE IF x < 2 * n THEN x - n ELSE 0
  BY Around
<1>3. x % n \in 0..(n - 1)
  BY <1>1, <1>2
<1> QED
  BY <1>1, <1>2, <1>3

\* The place behind the last item, and the next one.
LEMMA BackPlace ==
    ASSUME NEW n \in Nat \ {0}, NEW r \in 0..(n - 1), NEW v \in 1..n, NEW b, b = (r + v) % n
    PROVE  b \in 0..(n - 1) /\ (IF b + 1 >= n THEN 0 ELSE b + 1) = (r + (v + 1)) % n
<1>1. v \in 0..(n + 1) /\ r + v < 2 * n
  OBVIOUS
<1>2. (r + v) % n = IF r + v < n THEN r + v ELSE IF r + v < 2 * n THEN r + v - n ELSE 0
  BY <1>1, Behind
<1>3. PICK j \in 0..(n + 1) : j = v + 1
  OBVIOUS
<1>4. (r + j) % n = IF r + j < n THEN r + j ELSE IF r + j < 2 * n THEN r + j - n ELSE 0
  BY Behind
<1>5. b = IF r + v < n THEN r + v ELSE r + v - n
  BY <1>1, <1>2
<1> HIDE <1>2
<1>6. b \in 0..(n - 1)
  BY <1>1, <1>5
<1>7. (IF b + 1 >= n THEN 0 ELSE b + 1) = (r + j) % n
  BY <1>1, <1>3, <1>4, <1>5
<1> QED
  BY <1>3, <1>6, <1>7

\* The places of the items before are others.
LEMMA BackOnly ==
    ASSUME NEW n \in Nat \ {0}, NEW r \in 0..(n - 1), NEW v \in 1..n, NEW i \in 1..v
    PROVE  (r + i) % n = (r + v) % n <=> i = v
<1>1. v \in 0..(n + 1) /\ r + v < 2 * n /\ i \in 0..(n + 1) /\ r + i < 2 * n
  OBVIOUS
<1>2. (r + v) % n = IF r + v < n THEN r + v ELSE r + v - n
  BY <1>1, Behind
<1>3. (r + i) % n = IF r + i < n THEN r + i ELSE r + i - n
  BY <1>1, Behind
<1> QED
  BY <1>1, <1>2, <1>3

\* Place i + 1 behind a place is place i behind the next one.
LEMMA Shift ==
    ASSUME NEW n \in Nat \ {0}, NEW b \in 0..(n - 1), NEW r \in 0..(n - 1),
           r = IF b + 1 >= n THEN 0 ELSE b + 1, NEW i \in 0..n
    PROVE  (b + (i + 1)) % n = (r + i) % n
<1>1. PICK j \in 0..(n + 1) : j = i + 1
  OBVIOUS
<1>2. (b + j) % n = IF b + j < n THEN b + j ELSE IF b + j < 2 * n THEN b + j - n ELSE 0
  BY Behind
<1>3. i \in 0..(n + 1)
  OBVIOUS
<1>4. (r + i) % n = IF r + i < n THEN r + i ELSE IF r + i < 2 * n THEN r + i - n ELSE 0
  BY <1>3, Behind
<1> QED
  BY <1>1, <1>2, <1>4

\* The places before one has been once round are others.
LEMMA Elsewhere ==
    ASSUME NEW n \in Nat \ {0}, NEW r \in 0..(n - 1), NEW i \in 1..(n - 1)
    PROVE  (r + i) % n # r /\ (r + 0) % n = r
<1>1. i \in 0..(n + 1) /\ 0 \in 0..(n + 1)
  OBVIOUS
<1>2. (r + i) % n = IF r + i < n THEN r + i ELSE IF r + i < 2 * n THEN r + i - n ELSE 0
  BY <1>1, Behind
<1> QED
  BY <1>2

\* The use of a queue.
LEMMA UseOfQueue ==
    ASSUME q \in Queue_t
    PROVE  /\ q.use \in Uses /\ uxLength = q.use.uxLength /\ uxLength \in Nat \ {0}
           /\ q.use.semaphore \in BOOLEAN /\ q.use.positions \subseteq Position
           /\ q.use.semaphore => q.use.positions = {"back"}
           /\ "overwrite" \in q.use.positions => uxLength = 1
           /\ q.use.waits \subseteq Tick
BY QueueAssumption DEF Queue_t, uxLength, Position

\* A queue whose fields other than the counts of the locks are good.
LEMMA RingFields ==
    ASSUME q \in Queue_t, RingOK(q)
    PROVE  /\ uxLength \in Nat \ {0} /\ q.slots \in [0..(uxLength - 1) -> Cell]
           /\ q.writeTo \in 0..(uxLength - 1) /\ q.readFrom \in 0..(uxLength - 1) /\ q.waiting \in 0..uxLength
           /\ ~q.use.semaphore => q.writeTo = (q.readFrom + q.waiting + 1) % uxLength
BY UseOfQueue DEF RingOK

\* A function on 1..n that has the items of a sequence is the sequence.
LEMMA SameItems ==
    ASSUME NEW S, NEW s \in Seq(S), NEW f, f = [i \in 1..Len(s) |-> f[i]],
           \A i \in 1..Len(s) : f[i] = s[i]
    PROVE  f = s
<1>1. s = [i \in 1..Len(s) |-> s[i]]
  OBVIOUS
<1> QED
  BY <1>1

\* How a new state of the queue is shown to be good.
LEMMA RingFrom ==
    ASSUME q \in Queue_t, NEW m, m \in [use : {q.use}, slots : [0..(uxLength - 1) -> Cell],
                writeTo : 0..(uxLength - 1), readFrom : 0..(uxLength - 1), waiting : 0..uxLength,
                rxLock : Int, txLock : Int],
           ~q.use.semaphore => m.writeTo = (m.readFrom + m.waiting + 1) % uxLength
    PROVE  m \in Queue_t /\ m.use = q.use /\ RingOK(m)
<1>1. m.use = q.use /\ m.slots \in Slots
  BY UseOfQueue DEF Slots
<1>2. m \in Queue_t
  BY <1>1, UseOfQueue DEF Queue_t
<1> QED
  BY <1>1, <1>2, UseOfQueue DEF RingOK

\* The items, in terms of the fields.
LEMMA ContentsAre ==
    ASSUME q \in Queue_t, RingOK(q)
    PROVE  /\ ContentsOf(q) \in Seq(Cell) /\ Len(ContentsOf(q)) = q.waiting
           /\ \A i \in 1..q.waiting :
                 ContentsOf(q)[i] = IF q.use.semaphore THEN NULL ELSE q.slots[(q.readFrom + i) % uxLength]
<1>1. ASSUME NEW i \in 1..q.waiting PROVE (q.readFrom + i) % uxLength \in 0..(uxLength - 1)
  <2>1. PICK r \in 0..(uxLength - 1) : r = q.readFrom
    BY RingFields
  <2>2. uxLength \in Nat \ {0} /\ i \in 0..(uxLength + 1)
    BY RingFields
  <2>3. (r + i) % uxLength \in 0..(uxLength - 1)
    BY <2>2, Behind
  <2> QED
    BY <2>1, <2>3
<1>2. ASSUME NEW i \in 1..q.waiting PROVE q.slots[(q.readFrom + i) % uxLength] \in Cell
  BY <1>1, RingFields
<1>3. q.waiting \in Nat /\ uxLength = q.use.uxLength
  BY RingFields, UseOfQueue
<1> QED
  BY <1>2, <1>3 DEF ContentsOf, Cell
\* prvCopyDataToQueue with queueSEND_TO_BACK.
LEMMA StoreBack ==
    ASSUME q \in Queue_t, RingOK(q), NEW x \in Cell, ~q.use.semaphore, q.waiting < uxLength
    PROVE  LET m == prvCopyDataToQueue(q, x, "back") IN
           /\ m \in Queue_t /\ m.use = q.use /\ m.rxLock = q.rxLock /\ m.txLock = q.txLock
           /\ m.waiting = q.waiting + 1 /\ RingOK(m)
           /\ ContentsOf(m) = Append(ContentsOf(q), x)
<1>1. PICK n \in Nat \ {0} : n = uxLength
  BY RingFields
<1>2. PICK r \in 0..(n - 1), v \in 1..n, b \in 0..(n - 1) :
         r = q.readFrom /\ v = q.waiting + 1 /\ b = q.writeTo /\ b = (r + v) % n
  <2>1. q.waiting + 1 \in 1..n /\ q.readFrom + q.waiting + 1 = q.readFrom + (q.waiting + 1)
    BY <1>1, RingFields, SMTT(30)
  <2>2. q.readFrom \in 0..(n - 1) /\ q.writeTo \in 0..(n - 1) /\ q.writeTo = (q.readFrom + (q.waiting + 1)) % n
    BY <1>1, <2>1, RingFields
  <2> QED
    BY <2>1, <2>2
<1> DEFINE m == [q EXCEPT !.slots[q.writeTo] = x, !.writeTo = IF @ + 1 >= uxLength THEN 0 ELSE @ + 1,
                          !.waiting = @ + 1]
           c == [q.slots EXCEPT ![b] = x]
           d == IF b + 1 >= n THEN 0 ELSE b + 1
<1>3. prvCopyDataToQueue(q, x, "back") = m
  BY DEF prvCopyDataToQueue
<1>4. d \in 0..(n - 1) /\ d = (r + (v + 1)) % n
  <2>1. d = (r + (v + 1)) % n
    BY <1>2, BackPlace, ZenonT(60)
  <2> QED
    BY <2>1
<1>5. /\ m.use = q.use /\ m.slots = c /\ m.writeTo = d /\ m.readFrom = r /\ m.waiting = v
     /\ m.rxLock = q.rxLock /\ m.txLock = q.txLock
     /\ m \in [use : {q.use}, slots : {c}, writeTo : {d}, readFrom : {r}, waiting : {v},
             rxLock : {q.rxLock}, txLock : {q.txLock}]
  BY <1>1, <1>2 DEF Queue_t
<1>6. q.slots \in [0..(n - 1) -> Cell] /\ c \in [0..(n - 1) -> Cell]
  BY <1>1, RingFields
<1> HIDE DEF m, c, d
<1>7. m \in [use : {q.use}, slots : [0..(n - 1) -> Cell], writeTo : 0..(n - 1), readFrom : 0..(n - 1),
              waiting : 0..n, rxLock : Int, txLock : Int]
  <2>1. q.rxLock \in Int /\ q.txLock \in Int /\ v \in 0..n
    BY DEF Queue_t
  <2> QED
    BY <1>4, <1>5, <1>6, <2>1
<1>8. m \in Queue_t /\ m.use = q.use /\ RingOK(m)
  <2>1. r + (v + 1) = r + v + 1
    OBVIOUS
  <2>2. m.writeTo = (m.readFrom + m.waiting + 1) % n
    BY <1>4, <1>5, <2>1
  <2> QED
    BY <1>1, <1>7, <2>2, RingFrom
<1>9. ASSUME NEW i \in 1..v PROVE c[(r + i) % n] = IF i = v THEN x ELSE q.slots[(r + i) % n]
  <2>1. i \in 0..(n + 1)
    OBVIOUS
  <2>2. (r + i) % n \in 0..(n - 1)
    BY <2>1, Behind
  <2>3. (r + i) % n = b <=> i = v
    <3>1. (r + i) % n = (r + v) % n <=> i = v
      BY BackOnly
    <3> QED
      BY <1>2, <3>1
  <2> QED
    BY <1>6, <2>2, <2>3 DEF c
<1>10. ContentsOf(m) = Append(ContentsOf(q), x)
  <2>1. ContentsOf(m) = [i \in 1..v |-> c[(r + i) % n]]
    BY <1>1, <1>5, UseOfQueue DEF ContentsOf
  <2>2. /\ ContentsOf(q) \in Seq(Cell) /\ Len(ContentsOf(q)) + 1 = v /\ Len(ContentsOf(q)) \in Nat
        /\ \A i \in 1..Len(ContentsOf(q)) : ContentsOf(q)[i] = q.slots[(r + i) % n]
    <3>1. ContentsOf(q) \in Seq(Cell) /\ Len(ContentsOf(q)) = q.waiting
      BY ContentsAre
    <3>2. \A i \in 1..q.waiting : ContentsOf(q)[i] = q.slots[(r + i) % n]
      BY <1>1, <1>2, ContentsAre
    <3>3. q.waiting \in Nat
      BY RingFields
    <3> QED
      BY <1>2, <3>1, <3>2, <3>3
  <2>3. Append(ContentsOf(q), x) \in Seq(Cell) /\ Len(Append(ContentsOf(q), x)) = v
    BY <2>2
  <2>4. ASSUME NEW i \in 1..v PROVE c[(r + i) % n] = Append(ContentsOf(q), x)[i]
    <3>1. c[(r + i) % n] = IF i = v THEN x ELSE q.slots[(r + i) % n]
      BY <1>9
    <3>2. Append(ContentsOf(q), x)[i] = IF i = v THEN x ELSE ContentsOf(q)[i]
      BY <2>2
    <3>3. i # v => i \in 1..Len(ContentsOf(q))
      BY <2>2
    <3> QED
      BY <2>2, <3>1, <3>2, <3>3
  <2> QED
    BY <2>1, <2>3, <2>4, SameItems, ZenonT(60)
<1> QED
  BY <1>2, <1>3, <1>5, <1>8, <1>10

\* prvCopyDataToQueue with queueSEND_TO_FRONT, or queueOVERWRITE of an empty
\* queue.
LEMMA StoreFront ==
    ASSUME q \in Queue_t, RingOK(q), NEW x \in Cell, ~q.use.semaphore, q.waiting < uxLength,
           NEW position \in {"front", "overwrite"}, position = "overwrite" => q.waiting = 0
    PROVE  LET m == prvCopyDataToQueue(q, x, position) IN
           /\ m \in Queue_t /\ m.use = q.use /\ m.rxLock = q.rxLock /\ m.txLock = q.txLock
           /\ m.waiting = q.waiting + 1 /\ RingOK(m)
           /\ ContentsOf(m) = <<x>> \o ContentsOf(q)
<1>1. PICK n \in Nat \ {0} : n = uxLength
  BY RingFields
<1>2. PICK r \in 0..(n - 1), w \in 0..(n - 1), b \in 0..(n - 1) :
         /\ r = q.readFrom /\ w = q.waiting /\ q.writeTo = (r + w + 1) % n
         /\ b = IF r = 0 THEN n - 1 ELSE r - 1
  <2>1. /\ q.readFrom \in 0..(n - 1) /\ q.waiting \in 0..(n - 1)
        /\ q.writeTo = (q.readFrom + q.waiting + 1) % n
    BY <1>1, RingFields
  <2>2. (IF q.readFrom = 0 THEN n - 1 ELSE q.readFrom - 1) \in 0..(n - 1)
    BY <2>1
  <2> QED
    BY <2>1, <2>2
<1>3. q.writeTo \in 0..(n - 1) /\ r = IF b + 1 >= n THEN 0 ELSE b + 1
  BY <1>1, <1>2, RingFields
<1> DEFINE m == [q EXCEPT !.slots[q.readFrom] = x, !.readFrom = IF @ = 0 THEN uxLength - 1 ELSE @ - 1,
                          !.waiting = IF position = "overwrite" /\ @ > 0 THEN @ ELSE @ + 1]
           c == [q.slots EXCEPT ![r] = x]
<1>0. /\ (IF position = "overwrite" /\ q.waiting > 0 THEN q.waiting ELSE q.waiting + 1) = w + 1
      /\ (IF q.readFrom = 0 THEN uxLength - 1 ELSE q.readFrom - 1) = b
  BY <1>1, <1>2
<1>4. prvCopyDataToQueue(q, x, position) = m
  BY DEF prvCopyDataToQueue
<1>5. /\ m.use = q.use /\ m.slots = c /\ m.writeTo = q.writeTo /\ m.readFrom = b /\ m.waiting = w + 1
     /\ m.rxLock = q.rxLock /\ m.txLock = q.txLock
     /\ m \in [use : {q.use}, slots : {c}, writeTo : {q.writeTo}, readFrom : {b}, waiting : {w + 1},
             rxLock : {q.rxLock}, txLock : {q.txLock}]
  BY <1>0, <1>2 DEF Queue_t
<1>6. q.slots \in [0..(n - 1) -> Cell] /\ c \in [0..(n - 1) -> Cell]
  BY <1>1, RingFields
<1> HIDE DEF m, c
<1>7. m \in [use : {q.use}, slots : [0..(n - 1) -> Cell], writeTo : 0..(n - 1), readFrom : 0..(n - 1),
              waiting : 0..n, rxLock : Int, txLock : Int]
  <2>1. q.rxLock \in Int /\ q.txLock \in Int /\ w + 1 \in 0..n
    BY DEF Queue_t
  <2> QED
    BY <1>3, <1>5, <1>6, <2>1
<1>8. m \in Queue_t /\ m.use = q.use /\ RingOK(m)
  <2>1. w + 1 \in 0..n
    OBVIOUS
  <2>2. (b + ((w + 1) + 1)) % n = (r + (w + 1)) % n
    BY <1>3, <2>1, Shift, ZenonT(60)
  <2>3. b + ((w + 1) + 1) = b + (w + 1) + 1 /\ r + (w + 1) = r + w + 1
    OBVIOUS
  <2>4. m.writeTo = (m.readFrom + m.waiting + 1) % n
    BY <1>2, <1>5, <2>2, <2>3
  <2> QED
    BY <1>1, <1>7, <2>4, RingFrom
<1>9. ASSUME NEW i \in 0..w PROVE c[(b + (i + 1)) % n] = IF i = 0 THEN x ELSE q.slots[(r + i) % n]
  <2>1. i \in 0..n /\ i \in 0..(n + 1) /\ (i # 0 => i \in 1..(n - 1))
    OBVIOUS
  <2>2. (b + (i + 1)) % n = (r + i) % n
    BY <1>3, <2>1, Shift, ZenonT(60)
  <2>3. (r + i) % n \in 0..(n - 1)
    BY <2>1, Behind
  <2>4. (r + 0) % n = r
    OBVIOUS
  <2>5. i # 0 => (r + i) % n # r
    BY <2>1, Elsewhere
  <2> QED
    BY <1>6, <2>2, <2>3, <2>4, <2>5 DEF c
<1>10. ContentsOf(m) = <<x>> \o ContentsOf(q)
  <2>1. ContentsOf(m) = [i \in 1..(w + 1) |-> c[(b + i) % n]]
    BY <1>1, <1>5, UseOfQueue DEF ContentsOf
  <2>2. ContentsOf(q) \in Seq(Cell) /\ Len(ContentsOf(q)) = w /\ \A i \in 1..w : ContentsOf(q)[i] = q.slots[(r + i) % n]
    BY <1>1, <1>2, ContentsAre
  <2>3. ASSUME NEW j \in 1..(w + 1) PROVE c[(b + j) % n] = (<<x>> \o ContentsOf(q))[j]
    <3>1. PICK i \in 0..w : j = i + 1
      OBVIOUS
    <3>2. c[(b + j) % n] = IF i = 0 THEN x ELSE q.slots[(r + i) % n]
      BY <1>9, <3>1
    <3>3. (<<x>> \o ContentsOf(q))[j] = IF i = 0 THEN x ELSE ContentsOf(q)[i]
      BY <2>2, <3>1
    <3> QED
      BY <2>2, <3>2, <3>3
  <2>4. <<x>> \o ContentsOf(q) \in Seq(Cell) /\ Len(<<x>> \o ContentsOf(q)) = w + 1
    BY <2>2
  <2>5. PICK f, s : f = ContentsOf(m) /\ s = <<x>> \o ContentsOf(q)
    OBVIOUS
  <2>6. s \in Seq(Cell) /\ Len(s) = w + 1
    BY <2>4, <2>5
  <2>7. f = [i \in 1..Len(s) |-> f[i]]
    BY <2>1, <2>5, <2>6
  <2>8. \A i \in 1..Len(s) : f[i] = s[i]
    BY <2>3, <2>1, <2>5, <2>6
  <2> QED
    BY <2>5, <2>6, <2>7, <2>8, SameItems, ZenonT(60)
<1> QED
  BY <1>2, <1>4, <1>5, <1>8, <1>10

\* queueOVERWRITE of the item of a full queue of length 1.
LEMMA StoreOver ==
    ASSUME q \in Queue_t, RingOK(q), NEW x \in Cell, ~q.use.semaphore, q.waiting = 1, uxLength = 1
    PROVE  LET m == prvCopyDataToQueue(q, x, "overwrite") IN
           /\ m \in Queue_t /\ m.use = q.use /\ m.rxLock = q.rxLock /\ m.txLock = q.txLock
           /\ m.waiting = q.waiting /\ RingOK(m) /\ ContentsOf(m) = <<x>>
<1> DEFINE m == [q EXCEPT !.slots[q.readFrom] = x, !.readFrom = IF @ = 0 THEN uxLength - 1 ELSE @ - 1,
                          !.waiting = IF "overwrite" = "overwrite" /\ @ > 0 THEN @ ELSE @ + 1]
           c == [q.slots EXCEPT ![0] = x]
<1>1. prvCopyDataToQueue(q, x, "overwrite") = m
  BY DEF prvCopyDataToQueue
<1>2. q.readFrom = 0 /\ q.writeTo = 0
  BY RingFields
<1>0. /\ (IF "overwrite" = "overwrite" /\ q.waiting > 0 THEN q.waiting ELSE q.waiting + 1) = 1
      /\ (IF q.readFrom = 0 THEN uxLength - 1 ELSE q.readFrom - 1) = 0
  BY <1>2
<1>3. /\ m.use = q.use /\ m.slots = c /\ m.writeTo = 0 /\ m.readFrom = 0 /\ m.waiting = 1
     /\ m.rxLock = q.rxLock /\ m.txLock = q.txLock
     /\ m \in [use : {q.use}, slots : {c}, writeTo : {0}, readFrom : {0}, waiting : {1},
             rxLock : {q.rxLock}, txLock : {q.txLock}]
  BY <1>2, <1>0 DEF Queue_t
<1>4. c \in [0..(uxLength - 1) -> Cell] /\ c[0] = x
  BY RingFields
<1> HIDE DEF m, c
<1>5. m \in Queue_t /\ m.use = q.use /\ RingOK(m)
  <2>1. q.rxLock \in Int /\ q.txLock \in Int
    BY DEF Queue_t
  <2>2. m \in [use : {q.use}, slots : [0..(uxLength - 1) -> Cell], writeTo : 0..(uxLength - 1),
               readFrom : 0..(uxLength - 1), waiting : 0..uxLength, rxLock : Int, txLock : Int]
    BY <1>3, <1>4, <2>1
  <2>3. m.writeTo = (m.readFrom + m.waiting + 1) % uxLength
    BY <1>3
  <2> QED
    BY <2>2, <2>3, RingFrom
<1>6. ContentsOf(m) = <<x>>
  BY <1>3, <1>4, UseOfQueue DEF ContentsOf
<1> QED
  BY <1>1, <1>3, <1>5, <1>6

\* Giving a semaphore.
LEMMA StoreNothing ==
    ASSUME q \in Queue_t, RingOK(q), NEW x, NEW position, q.use.semaphore, q.waiting < uxLength
    PROVE  LET m == prvCopyDataToQueue(q, x, position) IN
           /\ m = [q EXCEPT !.waiting = @ + 1]
           /\ m \in Queue_t /\ m.use = q.use /\ m.rxLock = q.rxLock /\ m.txLock = q.txLock
           /\ m.waiting = q.waiting + 1 /\ RingOK(m) /\ ContentsOf(m) = Append(ContentsOf(q), NULL)
<1> DEFINE m == [q EXCEPT !.waiting = @ + 1]
<1>1. prvCopyDataToQueue(q, x, position) = m
  BY DEF prvCopyDataToQueue
<1>2. /\ m.use = q.use /\ m.slots = q.slots /\ m.writeTo = q.writeTo /\ m.readFrom = q.readFrom /\ m.waiting = q.waiting + 1
     /\ m.rxLock = q.rxLock /\ m.txLock = q.txLock
     /\ m \in [use : {q.use}, slots : {q.slots}, writeTo : {q.writeTo}, readFrom : {q.readFrom}, waiting : {q.waiting + 1},
             rxLock : {q.rxLock}, txLock : {q.txLock}]
  BY DEF Queue_t
<1> HIDE DEF m
<1>3. m \in Queue_t /\ m.use = q.use /\ RingOK(m)
  <2>1. q.rxLock \in Int /\ q.txLock \in Int /\ q.waiting + 1 \in 0..uxLength
    BY RingFields DEF Queue_t
  <2>2. m \in [use : {q.use}, slots : [0..(uxLength - 1) -> Cell], writeTo : 0..(uxLength - 1),
               readFrom : 0..(uxLength - 1), waiting : 0..uxLength, rxLock : Int, txLock : Int]
    BY <1>2, <2>1, RingFields
  <2> QED
    BY <2>2, RingFrom
<1>4. ContentsOf(m) = Append(ContentsOf(q), NULL)
  <2>1. ContentsOf(m) = [i \in 1..(q.waiting + 1) |-> NULL]
    BY <1>2 DEF ContentsOf
  <2>2. /\ ContentsOf(q) \in Seq(Cell) /\ Len(ContentsOf(q)) = q.waiting /\ q.waiting \in Nat
        /\ \A i \in 1..q.waiting : ContentsOf(q)[i] = NULL
    BY ContentsAre, RingFields
  <2>3. /\ Append(ContentsOf(q), NULL) \in Seq(Cell) /\ Len(Append(ContentsOf(q), NULL)) = q.waiting + 1
        /\ \A i \in 1..(q.waiting + 1) : Append(ContentsOf(q), NULL)[i] = NULL
    BY <2>2 DEF Cell
  <2>5. PICK f, s : f = ContentsOf(m) /\ s = Append(ContentsOf(q), NULL)
    OBVIOUS
  <2>6. s \in Seq(Cell) /\ Len(s) = q.waiting + 1
    BY <2>3, <2>5
  <2>7. f = [i \in 1..Len(s) |-> f[i]]
    BY <2>1, <2>5, <2>6
  <2>8. \A i \in 1..Len(s) : f[i] = s[i]
    BY <2>3, <2>1, <2>5, <2>6
  <2> QED
    BY <2>5, <2>6, <2>7, <2>8, SameItems, ZenonT(60)
<1> QED
  BY <1>1, <1>2, <1>3, <1>4 DEF m

\* prvCopyDataFromQueue: the first item leaves.
LEMMA Fetch ==
    ASSUME q \in Queue_t, RingOK(q), q.waiting > 0
    PROVE  LET m == prvCopyDataFromQueue(q) IN
           /\ m \in Queue_t /\ m.use = q.use /\ m.rxLock = q.rxLock /\ m.txLock = q.txLock
           /\ m.waiting = q.waiting - 1 /\ RingOK(m)
           /\ ContentsOf(q) # <<>> /\ ContentsOf(m) = Tail(ContentsOf(q))
<1>1. CASE q.use.semaphore
  <2> DEFINE m == [q EXCEPT !.waiting = @ - 1]
  <2>1. prvCopyDataFromQueue(q) = m
    BY <1>1 DEF prvCopyDataFromQueue
  <2>2. /\ m.use = q.use /\ m.slots = q.slots /\ m.writeTo = q.writeTo /\ m.readFrom = q.readFrom /\ m.waiting = q.waiting - 1
       /\ m.rxLock = q.rxLock /\ m.txLock = q.txLock
       /\ m \in [use : {q.use}, slots : {q.slots}, writeTo : {q.writeTo}, readFrom : {q.readFrom}, waiting : {q.waiting - 1},
               rxLock : {q.rxLock}, txLock : {q.txLock}]
    BY DEF Queue_t
  <2> HIDE DEF m
  <2>3. m \in Queue_t /\ m.use = q.use /\ RingOK(m)
    <3>1. q.rxLock \in Int /\ q.txLock \in Int /\ q.waiting - 1 \in 0..uxLength
      BY RingFields DEF Queue_t
    <3>2. m \in [use : {q.use}, slots : [0..(uxLength - 1) -> Cell], writeTo : 0..(uxLength - 1),
                 readFrom : 0..(uxLength - 1), waiting : 0..uxLength, rxLock : Int, txLock : Int]
      BY <2>2, <3>1, RingFields
    <3> QED
      BY <1>1, <3>2, RingFrom
  <2>4. ContentsOf(q) # <<>> /\ ContentsOf(m) = Tail(ContentsOf(q))
    <3>1. ContentsOf(m) = [i \in 1..(q.waiting - 1) |-> NULL]
      BY <1>1, <2>2 DEF ContentsOf
    <3>2. /\ ContentsOf(q) \in Seq(Cell) /\ Len(ContentsOf(q)) = q.waiting /\ q.waiting \in Nat
          /\ \A i \in 1..q.waiting : ContentsOf(q)[i] = NULL
      BY <1>1, ContentsAre, RingFields
    <3>3. /\ ContentsOf(q) # <<>> /\ Tail(ContentsOf(q)) \in Seq(Cell) /\ Len(Tail(ContentsOf(q))) = q.waiting - 1
          /\ \A i \in 1..(q.waiting - 1) : Tail(ContentsOf(q))[i] = NULL
      BY <3>2
    <3>5. PICK f, s : f = ContentsOf(m) /\ s = Tail(ContentsOf(q))
      OBVIOUS
    <3>6. s \in Seq(Cell) /\ Len(s) = q.waiting - 1
      BY <3>3, <3>5
    <3>7. f = [i \in 1..Len(s) |-> f[i]]
      BY <3>1, <3>5, <3>6
    <3>8. \A i \in 1..Len(s) : f[i] = s[i]
      BY <3>3, <3>1, <3>5, <3>6
    <3> QED
      BY <3>3, <3>5, <3>6, <3>7, <3>8, SameItems
  <2> QED
    BY <2>1, <2>2, <2>3, <2>4
<1>2. CASE ~q.use.semaphore
  <2>1. PICK n \in Nat \ {0} : n = uxLength
    BY RingFields
  <2>2. PICK r \in 0..(n - 1), w \in 1..n, b \in 0..(n - 1) :
           /\ r = q.readFrom /\ w = q.waiting /\ q.writeTo = (r + w + 1) % n
           /\ b = IF r + 1 >= n THEN 0 ELSE r + 1
    <3>1. /\ q.readFrom \in 0..(n - 1) /\ q.waiting \in 1..n
          /\ q.writeTo = (q.readFrom + q.waiting + 1) % n
      BY <1>2, <2>1, RingFields
    <3>2. (IF q.readFrom + 1 >= n THEN 0 ELSE q.readFrom + 1) \in 0..(n - 1)
      BY <3>1
    <3> QED
      BY <3>1, <3>2
  <2> DEFINE m == [q EXCEPT !.readFrom = b, !.slots[b] = NULL, !.waiting = @ - 1]
             c == [q.slots EXCEPT ![b] = NULL]
  <2>3. prvCopyDataFromQueue(q) = m
    BY <1>2, <2>1, <2>2 DEF prvCopyDataFromQueue
  <2>4. /\ m.use = q.use /\ m.slots = c /\ m.writeTo = q.writeTo /\ m.readFrom = b /\ m.waiting = w - 1
       /\ m.rxLock = q.rxLock /\ m.txLock = q.txLock
       /\ m \in [use : {q.use}, slots : {c}, writeTo : {q.writeTo}, readFrom : {b}, waiting : {w - 1},
               rxLock : {q.rxLock}, txLock : {q.txLock}]
    BY <2>2 DEF Queue_t
  <2>5. q.slots \in [0..(n - 1) -> Cell] /\ c \in [0..(n - 1) -> Cell]
    BY <2>1, RingFields DEF Cell
  <2> HIDE DEF m, c
  <2>6. m \in Queue_t /\ m.use = q.use /\ RingOK(m)
    <3>1. q.rxLock \in Int /\ q.txLock \in Int /\ w - 1 \in 0..n /\ q.writeTo \in 0..(n - 1)
      BY <2>1, RingFields DEF Queue_t
    <3>2. m \in [use : {q.use}, slots : [0..(n - 1) -> Cell], writeTo : 0..(n - 1), readFrom : 0..(n - 1),
                  waiting : 0..n, rxLock : Int, txLock : Int]
      BY <2>4, <2>5, <3>1
    <3>3. w \in 0..n
      OBVIOUS
    <3>4. (r + (w + 1)) % n = (b + w) % n
      BY <2>2, <3>3, Shift, ZenonT(60)
    <3>5. r + (w + 1) = r + w + 1 /\ b + (w - 1) + 1 = b + w
      OBVIOUS
    <3>6. m.writeTo = (m.readFrom + m.waiting + 1) % n
      BY <2>2, <2>4, <3>4, <3>5
    <3> QED
      BY <2>1, <3>2, <3>6, RingFrom
  <2>7. ASSUME NEW i \in 1..(w - 1) PROVE c[(b + i) % n] = q.slots[(r + (i + 1)) % n]
    <3>1. i \in 0..n /\ i \in 0..(n + 1) /\ i \in 1..(n - 1)
      OBVIOUS
    <3>2. (r + (i + 1)) % n = (b + i) % n
      BY <2>2, <3>1, Shift, ZenonT(60)
    <3>3. (b + i) % n \in 0..(n - 1)
      BY <3>1, Behind
    <3>4. (b + i) % n # b
      BY <3>1, Elsewhere
    <3> QED
      BY <2>5, <3>2, <3>3, <3>4 DEF c
  <2>8. ContentsOf(q) # <<>> /\ ContentsOf(m) = Tail(ContentsOf(q))
    <3>1. ContentsOf(m) = [i \in 1..(w - 1) |-> c[(b + i) % n]]
      BY <1>2, <2>1, <2>4, UseOfQueue DEF ContentsOf
    <3>2. ContentsOf(q) \in Seq(Cell) /\ Len(ContentsOf(q)) = w /\ \A i \in 1..w : ContentsOf(q)[i] = q.slots[(r + i) % n]
      BY <1>2, <2>1, <2>2, ContentsAre
    <3>3. ContentsOf(q) # <<>> /\ Tail(ContentsOf(q)) \in Seq(Cell) /\ Len(Tail(ContentsOf(q))) = w - 1
      BY <3>2
    <3>4. ASSUME NEW i \in 1..(w - 1) PROVE c[(b + i) % n] = Tail(ContentsOf(q))[i]
      <4>1. i + 1 \in 1..w /\ Tail(ContentsOf(q))[i] = ContentsOf(q)[i + 1]
        BY <3>2, <3>3
      <4> QED
        BY <2>7, <3>2, <4>1
    <3>5. PICK f, s : f = ContentsOf(m) /\ s = Tail(ContentsOf(q))
      OBVIOUS
    <3>6. s \in Seq(Cell) /\ Len(s) = w - 1
      BY <3>3, <3>5
    <3>7. f = [i \in 1..Len(s) |-> f[i]]
      BY <3>1, <3>5, <3>6
    <3>8. \A i \in 1..Len(s) : f[i] = s[i]
      BY <3>4, <3>1, <3>5, <3>6
    <3> QED
      BY <3>3, <3>5, <3>6, <3>7, <3>8, SameItems
  <2> QED
    BY <2>2, <2>3, <2>4, <2>6, <2>8
<1> QED
  BY <1>1, <1>2

-----------------------------------------------------------------------------
(* What the invariant says of the kernel and of the running task.          *)

\* The tasks' part of the invariant puts the waiters in order.
LEMMA WaitersOK ==
    ASSUME Base
    PROVE  Waiters(k)
<1>1. KernelOK(k) /\ \A t \in Task : TaskGood(k, op[t], pc[t], t)
  BY DEF Base, TaskOK
<1>2. ToSet(k.pending) \subseteq Task /\ \A l \in EventList : ToSet(k.event[l]) \subseteq Task
  BY <1>1, KernelParts
<1>3. \A u \in ToSet(k.pending) : u \in Away(k)
  BY <1>1, <1>2 DEF TaskGood
<1>4. ASSUME NEW l \in EventList, NEW u \in ToSet(k.event[l])
      PROVE  /\ u \in Away(k) /\ u \notin ToSet(k.pending)
             /\ \A x \in EventList : u \in ToSet(k.event[x]) => x = l
  BY <1>1, <1>2 DEF TaskGood
<1> QED
  BY <1>3, <1>4 DEF Waiters

\* A ready task is in no list of waiters, whatever it does.
LEMMA ReadyGood ==
    ASSUME NEW m, KernelOK(m), Waiters(m), NEW t \in ReadyTasks(m), NEW o, NEW label
    PROVE  TaskGood(m, o, label, t) /\ ~InEvents(m, t)
BY KernelParts DEF TaskGood, Waiters, InEvents

\* The running task.
LEMMA RunningTask ==
    ASSUME Base, NEW t \in Task, k.cur = t
    PROVE  /\ KernelOK(k) /\ Waiters(k) /\ CpuGood(k, q, pc[t])
           /\ pc[t] \in Label /\ op[t] \in Call_t /\ q \in Queue_t /\ RingOK(q)
           /\ TaskGood(k, op[t], pc[t], t) /\ CallGood(op[t], pc[t], q.use)
           /\ pc[t] # "run" => t # Idle
           /\ pc[t] \notin Leaving => t \in ReadyTasks(k)
           /\ \A u \in Task \ {t} : pc[u] \notin Locking
           /\ \A u \in Task : TaskGood(k, op[u], pc[u], u)
<1>1. Waiters(k)
  BY WaitersOK
<1>2. /\ KernelOK(k) /\ CpuGood(k, q, pc[t]) /\ pc[Idle] = "run"
      /\ \A u \in Task \ {t} : pc[u] \notin Locking
  BY DEF Base, CpuOK
<1>3. pc[t] \in Label /\ op[t] \in Call_t /\ q \in Queue_t /\ RingOK(q)
  BY DEF Base, Typed
<1>4. (\A u \in Task : TaskGood(k, op[u], pc[u], u)) /\ CallGood(op[t], pc[t], q.use)
  BY DEF Base, TaskOK, CallOK
<1>5. pc[t] \notin Leaving => t \in ReadyTasks(k)
  BY <1>2 DEF CpuGood
<1> QED
  BY <1>1, <1>2, <1>3, <1>4, <1>5

-----------------------------------------------------------------------------
(* How the invariant is shown for the next state.                          *)

\* A step of the running task.
LEMMA Frame ==
    ASSUME Base, NEW t \in Task, k.cur = t, t # Idle, KernelOK(k'),
           NEW o \in Call_t, NEW label \in Label,
           op' = [op EXCEPT ![t] = o], pc' = [pc EXCEPT ![t] = label],
           q' \in Queue_t, RingOK(q'), q'.use = q.use, CallGood(o, label, q.use),
           TaskGood(k', o, label, t), \A u \in Task \ {t} : TaskGood(k', op[u], pc[u], u),
           CpuGood(k', q', pc'[k'.cur]), label \in Locking => k'.cur = t
    PROVE  Base'
<1>0. op \in [Task -> Call_t] /\ pc \in [Task -> Label]
  BY DEF Base, Typed
<1>1. Typed'
  BY <1>0 DEF Typed
<1>2. /\ op'[t] = o /\ pc'[t] = label
      /\ \A u \in Task \ {t} : op'[u] = op[u] /\ pc'[u] = pc[u]
  BY <1>0
<1>3. \A u \in Task : CallOK(u)'
  BY <1>2 DEF Base, CallOK
<1>4. \A u \in Task : TaskOK(u)'
  BY <1>2 DEF TaskOK
<1>5. CpuOK'
  <2>1. Idle \in Task
    BY TasksAssumption
  <2>2. pc[Idle] = "run" /\ \A u \in Task \ {t} : pc[u] \notin Locking
    BY RunningTask DEF Base, CpuOK
  <2>3. \A u \in Task : pc'[u] \in Locking => u = k'.cur
    BY <1>2, <2>2
  <2> QED
    BY <1>2, <2>1, <2>2, <2>3 DEF CpuOK
<1> QED
  BY <1>1, <1>3, <1>4, <1>5 DEF Base

\* A step of an interrupt, or of the idle task.
LEMMA IsrFrame ==
    ASSUME Base, KernelOK(k'), Advanced(k, k'), UNCHANGED <<pc, op>>,
           q' \in Queue_t, RingOK(q'), q'.use = q.use,
           CpuGood(k', q', pc[k'.cur]), k'.cur = k.cur \/ pc[k.cur] \notin Locking
    PROVE  Base'
<1>1. Typed'
  BY DEF Base, Typed
<1>2. \A u \in Task : CallOK(u)'
  BY DEF Base, CallOK
<1>3. \A u \in Task : TaskOK(u)'
  BY GoodAfter DEF Base, TaskOK
<1>4. CpuOK'
  BY DEF Base, CpuOK
<1> QED
  BY <1>1, <1>2, <1>3, <1>4 DEF Base

\* The other tasks in such a step.
LEMMA OthersGood ==
    ASSUME Base, Advanced(k, k'), NEW t \in Task
    PROVE  \A u \in Task \ {t} : TaskGood(k', op[u], pc[u], u)
BY GoodAfter DEF Base, TaskOK

-----------------------------------------------------------------------------
(* The steps of a call preserve the first part of the invariant.           *)

\* The value of op outside the calls.
LEMMA NoCall ==
    NoOp \in Call_t /\ ~NoOp.send /\ NoOp.path = "retry" /\ ~NoOp.set
<1>1. 0 \in Tick /\ 0 \in OverflowCount /\ 0 \in Nat
  BY TicksAssumption, TasksAssumption DEF Tick, OverflowCount
<1> QED
  BY <1>1 DEF NoOp, Call_t, Cell, Position, Path

\* A step that leaves the kernel and the queue alone.
LEMMA StepAlone ==
    ASSUME Base, NEW t \in Task, k.cur = t, t # Idle, UNCHANGED <<k, q>>,
           NEW o \in Call_t, NEW label \in Label,
           op' = [op EXCEPT ![t] = o], pc' = [pc EXCEPT ![t] = label],
           CallGood(o, label, q.use), pc[t] \notin Leaving, label \notin Leaving \/ CpuGood(k, q, label),
           pc[t] \in Locking <=> label \in Locking,
           pc[t] \in TxLocking <=> label \in TxLocking, pc[t] \in RxLocking <=> label \in RxLocking
    PROVE  Base'
<1>1. /\ KernelOK(k) /\ Waiters(k) /\ CpuGood(k, q, pc[t]) /\ q \in Queue_t /\ RingOK(q)
      /\ t \in ReadyTasks(k) /\ pc \in [Task -> Label]
  BY RunningTask DEF Base, Typed
<1>2. TaskGood(k, o, label, t)
  BY <1>1, ReadyGood
<1>3. \A u \in Task \ {t} : TaskGood(k, op[u], pc[u], u)
  BY RunningTask
<1>4. CpuGood(k, q, label)
  BY <1>1 DEF CpuGood
<1>5. pc'[t] = label
  BY <1>1
<1> QED
  BY <1>1, <1>2, <1>3, <1>4, <1>5, Frame

\* A call begins.
LEMMA BeginStep ==
    ASSUME Base, NEW t \in Task, At(t, "run"), t # Idle, UNCHANGED <<k, q>>, Goto(t, "try"),
           NEW o \in Call_t, op' = [op EXCEPT ![t] = o], o.send => o.position \in q.use.positions
    PROVE  Base'
<1>1. CallGood(o, "try", q.use)
  BY DEF CallGood
<1> QED
  BY <1>1, StepAlone DEF At, Goto, Label, Leaving, Locking, TxLocking, RxLocking

\* The values the calls begin with.
LEMMA BeginSend ==
    ASSUME Base, NEW t \in Task, NEW x, NEW position, NEW n, xQueueGenericSend(t, x, position, n),
           \/ q.use.semaphore /\ x = NULL /\ position = "back" /\ n = 0
           \/ ~q.use.semaphore /\ x \in Item /\ position \in q.use.positions /\ n \in q.use.waits
    PROVE  LET o == [NoOp EXCEPT !.send = TRUE, !.item = x, !.ticks = n,
                                 !.position = position, !.asked = n, !.start = NowOf(k)]
           IN  /\ o \in Call_t /\ o.position \in q.use.positions /\ n \in Tick
               /\ op' = [op EXCEPT ![t] = o] /\ o.send = TRUE /\ o.path = "retry" /\ o.set = FALSE
               /\ o.ticks = n /\ o.asked = n /\ o.start = NowOf(k)
               /\ At(t, "run") /\ t # Idle /\ UNCHANGED <<k, q>> /\ Goto(t, "try")
<1> DEFINE o == [NoOp EXCEPT !.send = TRUE, !.item = x, !.ticks = n,
                             !.position = position, !.asked = n, !.start = NowOf(k)]
<1>1. q \in Queue_t /\ k \in Kernel
  BY DEF Base, Typed, KernelOK
<1>2. NowOf(k) \in Nat /\ Now = NowOf(k)
  BY <1>1, NowIsNat DEF NowOf, Now
<1>3. /\ x \in Cell /\ position \in q.use.positions /\ position \in Position /\ n \in Tick
  <2>1. 0 \in Tick
    BY TicksAssumption DEF Tick
  <2> QED
    BY <1>1, <2>1, UseOfQueue DEF Cell
<1>4. o \in Call_t
  BY <1>2, <1>3, NoCall DEF Call_t
<1>5. /\ o.send = TRUE /\ o.position = position /\ o.path = "retry" /\ o.set = FALSE
      /\ o.ticks = n /\ o.asked = n /\ o.start = NowOf(k)
  BY NoCall DEF NoOp
<1>6. op' = [op EXCEPT ![t] = o] /\ At(t, "run") /\ t # Idle /\ UNCHANGED <<k, q>> /\ Goto(t, "try")
  BY <1>2 DEF xQueueGenericSend
<1> QED
  BY <1>3, <1>4, <1>5, <1>6

\* The same, for a receiving call.
LEMMA BeginTake ==
    ASSUME Base, NEW t \in Task, NEW peek \in BOOLEAN, NEW n \in q.use.waits, Take(t, peek, n)
    PROVE  LET o == [NoOp EXCEPT !.peek = peek, !.ticks = n, !.asked = n, !.start = NowOf(k)]
           IN  /\ o \in Call_t /\ n \in Tick
               /\ op' = [op EXCEPT ![t] = o] /\ o.send = FALSE /\ o.path = "retry" /\ o.set = FALSE
               /\ o.ticks = n /\ o.asked = n /\ o.start = NowOf(k)
               /\ At(t, "run") /\ t # Idle /\ UNCHANGED <<k, q>> /\ Goto(t, "try")
<1> DEFINE o == [NoOp EXCEPT !.peek = peek, !.ticks = n, !.asked = n, !.start = NowOf(k)]
<1>1. q \in Queue_t /\ k \in Kernel
  BY DEF Base, Typed, KernelOK
<1>2. NowOf(k) \in Nat /\ Now = NowOf(k) /\ n \in Tick
  BY <1>1, NowIsNat, UseOfQueue DEF NowOf, Now
<1>3. o \in Call_t
  BY <1>2, NoCall DEF Call_t
<1>4. /\ o.send = FALSE /\ o.path = "retry" /\ o.set = FALSE
      /\ o.ticks = n /\ o.asked = n /\ o.start = NowOf(k)
  BY NoCall DEF NoOp
<1>5. op' = [op EXCEPT ![t] = o] /\ At(t, "run") /\ t # Idle /\ UNCHANGED <<k, q>> /\ Goto(t, "try")
  BY <1>2 DEF Take
<1> QED
  BY <1>2, <1>3, <1>4, <1>5

\* What every call begins with: nothing has been noted yet.
Begins(t, o) ==
    /\ o \in Call_t /\ op' = [op EXCEPT ![t] = o] /\ o.path = "retry" /\ o.set = FALSE
    /\ o.ticks = o.asked /\ o.start = NowOf(k) /\ (o.send => o.position \in q.use.positions)
    /\ At(t, "run") /\ t # Idle /\ UNCHANGED <<k, q>> /\ Goto(t, "try")

\* xQueueGenericSend, xQueueReceive, xQueuePeek and xQueueSemaphoreTake.
LEMMA CallBegins ==
    ASSUME Base, NEW t \in Task, Call(t)
    PROVE  \E o : Begins(t, o)
<1>1. ASSUME NEW n \in q.use.waits, xQueueReceive(t, n) \/ xQueuePeek(t, n) \/ xQueueSemaphoreTake(t, n)
      PROVE  \E o : Begins(t, o)
  <2>1. PICK peek \in BOOLEAN : Take(t, peek, n)
    BY <1>1 DEF xQueueReceive, xQueuePeek, xQueueSemaphoreTake
  <2> DEFINE o == [NoOp EXCEPT !.peek = peek, !.ticks = n, !.asked = n, !.start = NowOf(k)]
  <2>2. /\ o \in Call_t /\ n \in Tick
        /\ op' = [op EXCEPT ![t] = o] /\ o.send = FALSE /\ o.path = "retry" /\ o.set = FALSE
        /\ o.ticks = n /\ o.asked = n /\ o.start = NowOf(k)
        /\ At(t, "run") /\ t # Idle /\ UNCHANGED <<k, q>> /\ Goto(t, "try")
    BY <2>1, BeginTake, ZenonT(60)
  <2> HIDE DEF o
  <2>3. Begins(t, o)
    BY <2>2 DEF Begins
  <2> QED
    BY <2>3
<1>2. ASSUME NEW x, NEW position, NEW n, xQueueGenericSend(t, x, position, n),
             \/ q.use.semaphore /\ x = NULL /\ position = "back" /\ n = 0
             \/ ~q.use.semaphore /\ x \in Item /\ position \in q.use.positions /\ n \in q.use.waits
      PROVE  \E o : Begins(t, o)
  <2> DEFINE o == [NoOp EXCEPT !.send = TRUE, !.item = x, !.ticks = n,
                               !.position = position, !.asked = n, !.start = NowOf(k)]
  <2>2. /\ o \in Call_t /\ o.position \in q.use.positions /\ n \in Tick
        /\ op' = [op EXCEPT ![t] = o] /\ o.send = TRUE /\ o.path = "retry" /\ o.set = FALSE
        /\ o.ticks = n /\ o.asked = n /\ o.start = NowOf(k)
        /\ At(t, "run") /\ t # Idle /\ UNCHANGED <<k, q>> /\ Goto(t, "try")
    BY <1>2, BeginSend, ZenonT(60)
  <2> HIDE DEF o
  <2>3. Begins(t, o)
    BY <2>2 DEF Begins
  <2> QED
    BY <2>3
<1> QED
  BY <1>1, <1>2 DEF Call

\* A call begins.
LEMMA CallStep ==
    ASSUME Base, NEW t \in Task, Call(t)
    PROVE  Base'
<1>1. PICK o : Begins(t, o)
  BY CallBegins
<1> QED
  BY <1>1, BeginStep DEF Begins

\* A call ends without a transfer: FailAtOnce and GiveUp.
LEMMA EndStep ==
    ASSUME Base, NEW t \in Task, FailAtOnce(t) \/ GiveUp(t)
    PROVE  Base'
<1>1. /\ k.cur = t /\ pc[t] \in {"try", "giveUp"} /\ UNCHANGED <<k, q>>
      /\ op' = [op EXCEPT ![t] = NoOp] /\ pc' = [pc EXCEPT ![t] = "run"]
  BY DEF FailAtOnce, GiveUp, At, Return, Goto
<1>2. t # Idle
  BY <1>1, RunningTask
<1>3. CallGood(NoOp, "run", q.use) /\ NoOp \in Call_t
  BY NoCall DEF CallGood
<1> QED
  BY <1>1, <1>2, <1>3, StepAlone DEF Label, Leaving, Locking, TxLocking, RxLocking

\* The locals after PrepareToBlock.
LEMMA PrepareOp ==
    ASSUME Base, NEW t \in Task, PrepareToBlock(t)
    PROVE  LET o == IF op[t].set THEN op[t]
                    ELSE [op[t] EXCEPT !.set = TRUE, !.overflows = k.overflows, !.at = k.tick]
           IN  /\ o \in Call_t /\ op' = [op EXCEPT ![t] = o] /\ o.set = TRUE /\ o.ticks = op[t].ticks
               /\ o.ticks > 0 /\ o.send = op[t].send /\ o.position = op[t].position /\ o.path = op[t].path
               /\ o.asked = op[t].asked /\ o.start = op[t].start
               /\ IF op[t].set THEN o = op[t] ELSE o.overflows = k.overflows /\ o.at = k.tick
               /\ At(t, "try") /\ Goto(t, "suspendAll") /\ UNCHANGED <<k, q>> /\ ~Possible(t)
<1> DEFINE o == IF op[t].set THEN op[t]
                ELSE [op[t] EXCEPT !.set = TRUE, !.overflows = k.overflows, !.at = k.tick]
<1>1. /\ op \in [Task -> Call_t] /\ k.overflows \in OverflowCount /\ k.tick \in Tick
  BY KernelParts DEF Base, Typed
<1>2. op[t] \in Call_t
  BY <1>1
<1>3. o \in Call_t
  BY <1>1, <1>2 DEF Call_t
<1>4. /\ o.set = TRUE /\ o.ticks = op[t].ticks
      /\ o.send = op[t].send /\ o.position = op[t].position /\ o.path = op[t].path
      /\ o.asked = op[t].asked /\ o.start = op[t].start
      /\ IF op[t].set THEN o = op[t] ELSE o.overflows = k.overflows /\ o.at = k.tick
  BY <1>2 DEF Call_t
<1>5. op' = [op EXCEPT ![t] = o]
  <2>1. CASE op[t].set
    <3>1. op' = op /\ o = op[t]
      BY <2>1 DEF PrepareToBlock
    <3> QED
      BY <1>1, <3>1
  <2>2. CASE ~op[t].set
    <3>1. op' = [op EXCEPT ![t].set = TRUE, ![t].overflows = k.overflows, ![t].at = k.tick]
      BY <2>2 DEF PrepareToBlock
    <3> QED
      BY <1>1, <2>2, <3>1
  <2> QED
    BY <2>1, <2>2
<1>6. /\ At(t, "try") /\ Goto(t, "suspendAll") /\ UNCHANGED <<k, q>> /\ ~Possible(t) /\ op[t].ticks > 0
  BY DEF PrepareToBlock
<1> QED
  BY <1>3, <1>4, <1>5, <1>6

\* The caller prepares to block.
LEMMA PrepareStep ==
    ASSUME Base, NEW t \in Task, PrepareToBlock(t)
    PROVE  Base'
<1>1. PICK o : /\ o \in Call_t /\ op' = [op EXCEPT ![t] = o] /\ o.ticks > 0
               /\ o.send = op[t].send /\ o.position = op[t].position
               /\ At(t, "try") /\ Goto(t, "suspendAll") /\ UNCHANGED <<k, q>>
  BY PrepareOp, ZenonT(60)
<1>2. k.cur = t /\ pc[t] = "try" /\ pc' = [pc EXCEPT ![t] = "suspendAll"]
  BY <1>1 DEF At, Goto
<1>3. t # Idle /\ CallGood(op[t], pc[t], q.use)
  BY <1>2, RunningTask
<1>4. CallGood(o, "suspendAll", q.use)
  BY <1>1, <1>2, <1>3 DEF CallGood
<1> QED
  BY <1>1, <1>2, <1>3, <1>4, StepAlone DEF Label, Leaving, Locking, TxLocking, RxLocking

\* The local counts of the kernel change.
LEMMA CountsStep ==
    ASSUME NEW a, KernelOK(a), NEW p \in Nat, NEW l \in Nat
    PROVE  LET m == WithCounts(a, p, l) IN
           /\ KernelOK(m) /\ Advanced(a, m) /\ m.cur = a.cur /\ m.locks = l /\ m.pended = p
           /\ ReadyTasks(m) = ReadyTasks(a) /\ SameEvents(a, m) /\ NowOf(m) = NowOf(a) /\ Away(m) = Away(a)
<1> DEFINE m == WithCounts(a, p, l)
<1>0. /\ a \in Kernel /\ Apart(a) /\ Timed(a) /\ IdleReady(a) /\ a.cur \in Task /\ a.live = Task
      /\ a.prio = InitialPrio /\ \A x \in EventList : Sorted(a.event[x], ItemValue)
  BY KernelParts
<1>1. /\ m \in Kernel /\ Apart(m) /\ m.pended = p /\ m.locks = l /\ SameState(a, m)
      /\ ReadyTasks(m) = ReadyTasks(a) /\ Blocked(m) = Blocked(a)
      /\ SameTasks(a, m) /\ SameEvents(a, m) /\ m.cur = a.cur
      /\ m.next = a.next /\ m.tick = a.tick /\ m.overflows = a.overflows
  BY <1>0, SetCounts
<1> HIDE DEF m
<1>2. Timed(m) /\ IdleReady(m) /\ Away(m) = Away(a)
  BY <1>0, <1>1 DEF Timed, IdleReady, Away, SameState, SameTasks
<1>3. KernelOK(m)
  BY <1>0, <1>1, <1>2 DEF KernelOK, SameTasks, SameEvents
<1>4. Advanced(a, m)
  BY <1>1, <1>2, AdvancedSame
<1>5. NowOf(m) = NowOf(a)
  BY <1>1 DEF NowOf
<1> QED
  BY <1>1, <1>2, <1>3, <1>4, <1>5 DEF m

\* vTaskSuspendAll.
LEMMA SuspendKernel ==
    ASSUME NEW a, KernelOK(a), a.locks = 0
    PROVE  LET m == vTaskSuspendAll(a) IN
           /\ KernelOK(m) /\ Advanced(a, m) /\ m.cur = a.cur /\ m.locks = 1 /\ m.pended = a.pended
           /\ ReadyTasks(m) = ReadyTasks(a) /\ SameEvents(a, m) /\ NowOf(m) = NowOf(a)
<1>1. a.pended \in Nat /\ a \in Kernel /\ 1 \in Nat
  BY KernelParts
<1>2. vTaskSuspendAll(a) = WithCounts(a, a.pended, 1)
  <2>1. vTaskSuspendAll(a) = [a EXCEPT !.locks = 1]
    BY <1>1 DEF vTaskSuspendAll
  <2>2. [a EXCEPT !.locks = 1] = WithCounts(a, a.pended, 1)
    BY <1>1 DEF WithCounts, Kernel
  <2> QED
    BY <2>1, <2>2
<1>3. LET m == WithCounts(a, a.pended, 1) IN
      /\ KernelOK(m) /\ Advanced(a, m) /\ m.cur = a.cur /\ m.locks = 1 /\ m.pended = a.pended
      /\ ReadyTasks(m) = ReadyTasks(a) /\ SameEvents(a, m) /\ NowOf(m) = NowOf(a) /\ Away(m) = Away(a)
  BY <1>1, CountsStep, ZenonT(60)
<1> QED
  BY <1>2, <1>3

\* A step of the running task that leaves its locals alone.
LEMMA SameCall ==
    ASSUME Base, NEW t \in Task, UNCHANGED op
    PROVE  op' = [op EXCEPT ![t] = op[t]] /\ op[t] \in Call_t
BY DEF Base, Typed

\* SuspendAll.
LEMMA SuspendAllStep ==
    ASSUME Base, NEW t \in Task, SuspendAll(t)
    PROVE  Base'
<1>1. k.cur = t /\ pc[t] = "suspendAll" /\ k' = vTaskSuspendAll(k) /\ pc' = [pc EXCEPT ![t] = "lock"]
  BY DEF SuspendAll, At, Goto
<1>2. UNCHANGED <<q, op>>
  BY DEF SuspendAll
<1>3. /\ KernelOK(k) /\ Waiters(k) /\ CpuGood(k, q, pc[t]) /\ q \in Queue_t /\ RingOK(q)
      /\ t \in ReadyTasks(k) /\ t # Idle /\ CallGood(op[t], pc[t], q.use)
  BY <1>1, RunningTask DEF Leaving
<1>4. k.locks = 0 /\ q.txLock = queueUNLOCKED /\ q.rxLock = queueUNLOCKED
  BY <1>1, <1>3 DEF CpuGood, Locking, TxLocking, RxLocking
<1>5. /\ KernelOK(k') /\ Advanced(k, k') /\ k'.cur = k.cur /\ k'.locks = 1
      /\ ReadyTasks(k') = ReadyTasks(k)
  BY <1>1, <1>3, <1>4, SuspendKernel
<1>6. Waiters(k')
  BY <1>3, <1>5, KernelParts, WaitersAfter
<1>7. TaskGood(k', op[t], "lock", t)
  BY <1>3, <1>5, <1>6, ReadyGood
<1>8. \A u \in Task \ {t} : TaskGood(k', op[u], pc[u], u)
  BY <1>5, OthersGood
<1>9. CallGood(op[t], "lock", q.use)
  BY <1>1, <1>3 DEF CallGood
<1>10. CpuGood(k', q', "lock")
  BY <1>1, <1>2, <1>3, <1>4, <1>5 DEF CpuGood, Locking, Leaving, TxLocking, RxLocking
<1>11. pc'[k'.cur] = "lock"
  BY <1>1, <1>5 DEF Base, Typed
<1> QED
  BY <1>1, <1>2, <1>3, <1>5, <1>7, <1>8, <1>9, <1>10, <1>11, SameCall, Frame DEF Label

\* Only the lock counts of the queue change.
LEMMA LockFields ==
    ASSUME NEW s, s \in Queue_t, RingOK(s), NEW r \in Int, NEW x \in Int
    PROVE  LET m == [s EXCEPT !.rxLock = r, !.txLock = x] IN
           /\ m \in Queue_t /\ RingOK(m) /\ m.use = s.use /\ m.waiting = s.waiting
           /\ m.rxLock = r /\ m.txLock = x /\ ContentsOf(m) = ContentsOf(s)
<1> DEFINE m == [s EXCEPT !.rxLock = r, !.txLock = x]
<1>1. /\ m \in Queue_t /\ m.use = s.use /\ m.waiting = s.waiting /\ m.rxLock = r /\ m.txLock = x
      /\ m.slots = s.slots /\ m.writeTo = s.writeTo /\ m.readFrom = s.readFrom
  BY DEF Queue_t
<1> HIDE DEF m
<1>2. RingOK(m) /\ ContentsOf(m) = ContentsOf(s)
  BY <1>1 DEF RingOK, ContentsOf
<1> QED
  BY <1>1, <1>2 DEF m

\* prvLockQueue of an unlocked queue.
LEMMA LockedQueue ==
    ASSUME q \in Queue_t, RingOK(q), q.txLock = queueUNLOCKED, q.rxLock = queueUNLOCKED
    PROVE  LET m == prvLockQueue(q) IN
           /\ m \in Queue_t /\ RingOK(m) /\ m.use = q.use /\ m.waiting = q.waiting
           /\ m.rxLock = 0 /\ m.txLock = 0 /\ ContentsOf(m) = ContentsOf(q)
<1>0. PICK z \in Int : z = 0
  OBVIOUS
<1>1. prvLockQueue(q) = [q EXCEPT !.rxLock = z, !.txLock = z]
  BY <1>0 DEF prvLockQueue, queueLOCKED_UNMODIFIED
<1>2. LET m == [q EXCEPT !.rxLock = z, !.txLock = z] IN
      /\ m \in Queue_t /\ RingOK(m) /\ m.use = q.use /\ m.waiting = q.waiting
      /\ m.rxLock = z /\ m.txLock = z /\ ContentsOf(m) = ContentsOf(q)
  BY LockFields, ZenonT(60)
<1> QED
  BY <1>0, <1>1, <1>2

\* Lock.
LEMMA LockStep ==
    ASSUME Base, NEW t \in Task, Lock(t)
    PROVE  Base' /\ q'.rxLock = 0 /\ q'.txLock = 0 /\ q.rxLock = queueUNLOCKED /\ q.txLock = queueUNLOCKED
           /\ q'.waiting = q.waiting /\ q'.use = q.use /\ ContentsOf(q') = ContentsOf(q)
<1>1. k.cur = t /\ pc[t] = "lock" /\ q' = prvLockQueue(q) /\ pc' = [pc EXCEPT ![t] = "timeout"]
  BY DEF Lock, At, Goto
<1>2. UNCHANGED <<k, op>>
  BY DEF Lock
<1>3. /\ KernelOK(k) /\ Waiters(k) /\ CpuGood(k, q, pc[t]) /\ q \in Queue_t /\ RingOK(q)
      /\ t \in ReadyTasks(k) /\ t # Idle /\ CallGood(op[t], pc[t], q.use)
  BY <1>1, RunningTask DEF Leaving
<1>4. k.locks = 1 /\ q.txLock = queueUNLOCKED /\ q.rxLock = queueUNLOCKED
  BY <1>1, <1>3 DEF CpuGood, Locking, TxLocking, RxLocking
<1>5. /\ q' \in Queue_t /\ RingOK(q') /\ q'.use = q.use /\ q'.waiting = q.waiting
      /\ q'.rxLock = 0 /\ q'.txLock = 0 /\ ContentsOf(q') = ContentsOf(q)
  BY <1>1, <1>3, <1>4, LockedQueue
<1>6. KernelOK(k') /\ TaskGood(k', op[t], "timeout", t)
  BY <1>2, <1>3, ReadyGood
<1>7. \A u \in Task \ {t} : TaskGood(k', op[u], pc[u], u)
  BY <1>1, <1>2, RunningTask
<1>8. CallGood(op[t], "timeout", q.use)
  BY <1>1, <1>3 DEF CallGood
<1>9. CpuGood(k', q', "timeout")
  BY <1>1, <1>2, <1>3, <1>4, <1>5 DEF CpuGood, Locking, Leaving, TxLocking, RxLocking
<1>10. pc'[k'.cur] = "timeout" /\ k'.cur = t
  BY <1>1, <1>2 DEF Base, Typed
<1>11. Base'
  BY <1>1, <1>2, <1>3, <1>5, <1>6, <1>7, <1>8, <1>9, <1>10, SameCall, Frame DEF Label
<1> QED
  BY <1>4, <1>5, <1>11

\* CheckAgain and LookAgain.
LEMMA LookStep ==
    ASSUME Base, NEW t \in Task, CheckAgain(t) \/ LookAgain(t)
    PROVE  Base'
<1>1. UNCHANGED <<k, q, op>>
  BY DEF CheckAgain, LookAgain
<1>2. CASE CheckAgain(t)
  <2>1. /\ k.cur = t /\ pc[t] = "isFull"
        /\ pc' = [pc EXCEPT ![t] = IF Possible(t) THEN "unlockTx" ELSE "place"]
    BY <1>2 DEF CheckAgain, At, Goto
  <2> DEFINE label == IF Possible(t) THEN "unlockTx" ELSE "place"
  <2>2. t # Idle /\ CpuGood(k, q, pc[t]) /\ CallGood(op[t], pc[t], q.use) /\ k.cur \in ReadyTasks(k)
    BY <2>1, RunningTask DEF Leaving
  <2>3. label \in {"unlockTx", "place"} /\ CallGood(op[t], label, q.use)
    BY <2>1, <2>2 DEF CallGood
  <2>4. CpuGood(k, q, label)
    BY <2>1, <2>2, <2>3 DEF CpuGood, Locking, Leaving, TxLocking, RxLocking
  <2> HIDE DEF label
  <2>5. /\ pc[t] \notin Leaving /\ (pc[t] \in Locking <=> label \in Locking) /\ label \in Label
        /\ (pc[t] \in TxLocking <=> label \in TxLocking) /\ (pc[t] \in RxLocking <=> label \in RxLocking)
    BY <2>1, <2>3 DEF Locking, Leaving, TxLocking, RxLocking, Label
  <2>6. pc' = [pc EXCEPT ![t] = label]
    BY <2>1 DEF label
  <2> QED
    BY <1>1, <2>1, <2>2, <2>3, <2>4, <2>5, <2>6, SameCall, StepAlone
<1>3. CASE LookAgain(t)
  <2>1. k.cur = t /\ pc[t] = "giveUp" /\ pc' = [pc EXCEPT ![t] = "try"]
    BY <1>3 DEF LookAgain, At, Goto
  <2>2. t # Idle /\ CallGood(op[t], pc[t], q.use)
    BY <2>1, RunningTask
  <2>3. CallGood(op[t], "try", q.use)
    BY <2>1, <2>2 DEF CallGood
  <2> QED
    BY <1>1, <2>1, <2>2, <2>3, SameCall, StepAlone DEF Label, Leaving, Locking, TxLocking, RxLocking
<1> QED
  BY <1>2, <1>3

\* Unwrapping a difference of tick counts.
LEMMA ElapsedTime ==
    ASSUME NEW a \in Tick, NEW b \in Tick
    PROVE  xElapsedTime(b, a) = IF b >= a THEN b - a ELSE b - a + TickMod
BY TicksAssumption, Z3 DEF Tick, xElapsedTime

\* The call after xTaskCheckForTimeOut: it has time left, counted from now
\* or, if it waits for ever, as before; or it has none.
Renewed(o, m, expired) ==
    /\ m \in Call_t /\ m.send = o.send /\ m.position = o.position /\ m.peek = o.peek
    /\ m.asked = o.asked /\ m.start = o.start /\ m.set = o.set
    /\ IF expired
       THEN /\ m.path = "expired" /\ m.ticks = 0 /\ o.ticks # portMAX_DELAY
            /\ TimedOut(k.tick, k.overflows, o.at, o.overflows, o.ticks)
       ELSE /\ m.path = "retry" /\ m.ticks > 0
            /\ \/ o.ticks = portMAX_DELAY /\ m.ticks = o.ticks /\ m.overflows = o.overflows /\ m.at = o.at
               \/ /\ o.ticks # portMAX_DELAY /\ m.ticks = o.ticks - xElapsedTime(k.tick, o.at)
                  /\ m.overflows = k.overflows /\ m.at = k.tick

\* CheckForTimeOut, what it does to the call.
LEMMA CheckOp ==
    ASSUME NEW o \in Call_t, o.ticks > 0, k \in Kernel
    PROVE  LET r == xTaskCheckForTimeOut(o)
               m == [r.o EXCEPT !.path = IF r.expired THEN "expired" ELSE "retry"]
           IN  r.expired \in BOOLEAN /\ Renewed(o, m, r.expired)
<1> DEFINE r == xTaskCheckForTimeOut(o)
           m == [r.o EXCEPT !.path = IF r.expired THEN "expired" ELSE "retry"]
<1>1. k.tick \in Tick /\ k.overflows \in OverflowCount /\ o.at \in Tick /\ o.ticks \in Tick /\ 0 \in Tick
  BY KernelFields, TicksAssumption DEF Call_t, OverflowCount, Tick
<1>2. CASE o.ticks = portMAX_DELAY
  <2>1. r = [expired |-> FALSE, o |-> o]
    BY <1>2 DEF xTaskCheckForTimeOut
  <2>2. r.expired = FALSE /\ m = [o EXCEPT !.path = "retry"]
    BY <2>1
  <2> HIDE DEF r, m
  <2>3. /\ m \in Call_t /\ m.send = o.send /\ m.position = o.position /\ m.peek = o.peek
        /\ m.asked = o.asked /\ m.start = o.start /\ m.set = o.set /\ m.path = "retry"
        /\ m.ticks = o.ticks /\ m.overflows = o.overflows /\ m.at = o.at
    BY <2>2 DEF Call_t, Path
  <2>4. Renewed(o, m, r.expired)
    BY <1>2, <2>2, <2>3 DEF Renewed
  <2> QED
    BY <2>2, <2>4 DEF r, m
<1>3. CASE o.ticks # portMAX_DELAY /\ TimedOut(k.tick, k.overflows, o.at, o.overflows, o.ticks)
  <2>1. r = [expired |-> TRUE, o |-> [o EXCEPT !.ticks = 0]]
    BY <1>3 DEF xTaskCheckForTimeOut
  <2>2. r.expired = TRUE /\ m = [[o EXCEPT !.ticks = 0] EXCEPT !.path = "expired"]
    BY <2>1
  <2> HIDE DEF r, m
  <2>3. /\ m \in Call_t /\ m.send = o.send /\ m.position = o.position /\ m.peek = o.peek
        /\ m.asked = o.asked /\ m.start = o.start /\ m.set = o.set /\ m.path = "expired" /\ m.ticks = 0
    BY <1>1, <2>2 DEF Call_t, Path
  <2>4. Renewed(o, m, r.expired)
    BY <1>3, <2>2, <2>3 DEF Renewed
  <2> QED
    BY <2>2, <2>4 DEF r, m
<1>4. CASE o.ticks # portMAX_DELAY /\ ~TimedOut(k.tick, k.overflows, o.at, o.overflows, o.ticks)
  <2>0. PICK left \in Tick : left = o.ticks - xElapsedTime(k.tick, o.at) /\ left > 0
    <3>1. ~(xElapsedTime(k.tick, o.at) >= o.ticks)
      BY <1>4 DEF TimedOut
    <3> QED
      BY <1>1, <3>1, ElapsedTime, TicksAssumption, SMTT(30) DEF Tick
  <2>1. r = [expired |-> FALSE, o |-> [o EXCEPT !.ticks = left, !.overflows = k.overflows, !.at = k.tick]]
    BY <1>4, <2>0 DEF xTaskCheckForTimeOut
  <2>2. /\ r.expired = FALSE
        /\ m = [[o EXCEPT !.ticks = left, !.overflows = k.overflows, !.at = k.tick] EXCEPT !.path = "retry"]
    BY <2>1
  <2> HIDE DEF r, m
  <2>3. /\ m \in Call_t /\ m.send = o.send /\ m.position = o.position /\ m.peek = o.peek
        /\ m.asked = o.asked /\ m.start = o.start /\ m.set = o.set /\ m.path = "retry"
        /\ m.ticks = left /\ m.overflows = k.overflows /\ m.at = k.tick
    BY <1>1, <2>0, <2>2 DEF Call_t, Path
  <2>4. Renewed(o, m, r.expired)
    BY <1>4, <2>0, <2>2, <2>3 DEF Renewed
  <2> QED
    BY <2>2, <2>4 DEF r, m
<1> QED
  BY <1>2, <1>3, <1>4

\* CheckForTimeOut.
LEMMA CheckStep ==
    ASSUME Base, NEW t \in Task, CheckForTimeOut(t)
    PROVE  /\ Base' /\ UNCHANGED <<k, q>> /\ k.cur = t /\ pc[t] = "timeout"
           /\ \E o \in Call_t, expired \in BOOLEAN :
                 /\ Renewed(op[t], o, expired) /\ op' = [op EXCEPT ![t] = o]
                 /\ pc' = [pc EXCEPT ![t] = IF expired THEN "unlockTx" ELSE "isFull"]
<1> DEFINE r == xTaskCheckForTimeOut(op[t])
           o == [r.o EXCEPT !.path = IF r.expired THEN "expired" ELSE "retry"]
           label == IF r.expired THEN "unlockTx" ELSE "isFull"
<1>1. /\ k.cur = t /\ pc[t] = "timeout" /\ UNCHANGED <<k, q>> /\ op' = [op EXCEPT ![t] = o]
      /\ pc' = [pc EXCEPT ![t] = label]
  BY DEF CheckForTimeOut, At, Goto
<1>2. /\ KernelOK(k) /\ CpuGood(k, q, pc[t]) /\ op[t] \in Call_t /\ k.cur \in ReadyTasks(k)
      /\ t # Idle /\ CallGood(op[t], pc[t], q.use)
  BY <1>1, RunningTask DEF Leaving
<1>3. op[t].ticks > 0 /\ k \in Kernel
  BY <1>1, <1>2, KernelParts DEF CallGood
<1>4. r.expired \in BOOLEAN /\ Renewed(op[t], o, r.expired)
  BY <1>2, <1>3, CheckOp
<1>5. label = "unlockTx" \/ (label = "isFull" /\ ~r.expired)
  BY <1>4
<1> HIDE DEF r, o
<1>6. o \in Call_t /\ CallGood(o, label, q.use)
  BY <1>1, <1>2, <1>4, <1>5 DEF CallGood, Renewed
<1>7. CpuGood(k, q, label)
  BY <1>1, <1>2, <1>5 DEF CpuGood, Locking, Leaving, TxLocking, RxLocking
<1>8. /\ pc[t] \notin Leaving /\ (pc[t] \in Locking <=> label \in Locking) /\ label \in Label
      /\ (pc[t] \in TxLocking <=> label \in TxLocking) /\ (pc[t] \in RxLocking <=> label \in RxLocking)
  BY <1>1, <1>5 DEF Locking, Leaving, TxLocking, RxLocking, Label
<1>9. Base'
  <2> HIDE DEF label
  <2> QED
    BY <1>1, <1>2, <1>6, <1>7, <1>8, StepAlone
<1> QED
  BY <1>1, <1>4, <1>6, <1>9

\* Place.
LEMMA PlacedStep ==
    ASSUME Base, NEW t \in Task, Place(t)
    PROVE  /\ Base' /\ k.cur = t /\ k'.cur = t /\ pc[t] = "place" /\ UNCHANGED q
           /\ pc' = [pc EXCEPT ![t] = "unlockTx"] /\ op' = [op EXCEPT ![t] = [op[t] EXCEPT !.path = "blocked"]]
           /\ NowOf(k') = NowOf(k) /\ k'.pended = k.pended
           /\ \A u \in Task \ {t} : Stays(k, k', u)
           /\ \A l \in EventList \ {ListOf(op[t].send)} : k'.event[l] = k.event[l]
<1> DEFINE l == ListOf(op[t].send)
           o == [op[t] EXCEPT !.path = "blocked"]
<1>1. /\ k.cur = t /\ pc[t] = "place" /\ UNCHANGED q /\ op' = [op EXCEPT ![t] = o]
      /\ k' = vTaskPlaceOnEventList(k, l, op[t].ticks) /\ pc' = [pc EXCEPT ![t] = "unlockTx"]
  BY DEF Place, At, Goto, OwnList, ListOf
<1>2. /\ KernelOK(k) /\ Waiters(k) /\ CpuGood(k, q, pc[t]) /\ op[t] \in Call_t /\ t \in ReadyTasks(k)
      /\ q \in Queue_t /\ RingOK(q) /\ t # Idle /\ CallGood(op[t], pc[t], q.use)
      /\ \A u \in Task : TaskGood(k, op[u], pc[u], u)
  BY <1>1, RunningTask DEF Leaving
<1>3. op[t].ticks \in Tick \ {0} /\ l \in EventList
  BY <1>1, <1>2, QueueAssumption DEF CallGood, Call_t, ListOf, Tick
<1>4. ~InEvents(k, t) /\ t \notin ToSet(k.pending)
  BY <1>2, ReadyGood, KernelParts DEF TaskGood
<1>5. o \in Call_t /\ o.path = "blocked" /\ o.send = op[t].send /\ o.position = op[t].position
  BY <1>2 DEF Call_t, Path
<1>6. /\ KernelOK(k') /\ k'.cur = t /\ k'.locks = k.locks /\ SameClock(k, k') /\ k'.pending = k.pending
      /\ \A u \in Task \ {t} : Stays(k, k', u)
      /\ t \notin ReadyTasks(k') /\ t \in Away(k')
      /\ ToSet(k'.event[l]) = ToSet(k.event[l]) \cup {t}
      /\ \A x \in EventList \ {l} : k'.event[x] = k.event[x]
  <2> HIDE DEF l
  <2>1. k.cur # Idle /\ ~InEvents(k, k.cur)
    BY <1>1, <1>2, <1>4
  <2> QED
    BY <1>1, <1>2, <1>3, <2>1, PlaceStep
<1> HIDE DEF o
<1>7. TaskGood(k', o, "unlockTx", t)
  <2>1. \A x \in EventList : t \in ToSet(k'.event[x]) => x = l
    BY <1>4, <1>6 DEF InEvents
  <2> QED
    BY <1>4, <1>5, <1>6, <2>1 DEF TaskGood, Parking
<1>8. \A u \in Task \ {t} : TaskGood(k', op[u], pc[u], u)
  BY <1>2, <1>6 DEF TaskGood, Stays
<1>9. CallGood(o, "unlockTx", q.use)
  BY <1>1, <1>2, <1>5 DEF CallGood
<1>10. CpuGood(k', q', "unlockTx")
  BY <1>1, <1>2, <1>6 DEF CpuGood, Locking, Leaving, TxLocking, RxLocking
<1>11. pc'[k'.cur] = "unlockTx"
  BY <1>1, <1>6, SMTT(30) DEF Base, Typed
<1>12. Base'
  BY <1>1, <1>2, <1>5, <1>6, <1>7, <1>8, <1>9, <1>10, <1>11, Frame, ZenonT(60) DEF Label
<1>13. NowOf(k') = NowOf(k) /\ k'.pended = k.pended
  BY <1>6 DEF NowOf, SameClock
<1> QED
  BY <1>1, <1>6, <1>12, <1>13 DEF o

\* A step of the running task that leaves its locals alone and wakes others.
LEMMA WakingStep ==
    ASSUME Base, NEW t \in Task, k.cur = t, t # Idle, KernelOK(k'), Advanced(k, k'), UNCHANGED op,
           NEW label \in Label, pc' = [pc EXCEPT ![t] = label],
           q' \in Queue_t, RingOK(q'), q'.use = q.use, CallGood(op[t], label, q.use),
           t \in Away(k') => label \in Parking /\ op[t].path = "blocked",
           CpuGood(k', q', pc'[k'.cur]), label \in Locking => k'.cur = t
    PROVE  Base'
<1>1. op' = [op EXCEPT ![t] = op[t]] /\ op[t] \in Call_t
  BY SameCall
<1>2. \A u \in Task : TaskGood(k', op[u], pc[u], u)
  BY GoodAfter DEF Base, TaskOK
<1>3. TaskGood(k', op[t], label, t)
  BY <1>2 DEF TaskGood
<1> QED
  BY <1>1, <1>2, <1>3, Frame

\* UnlockTx.
LEMMA UnlockTxStep ==
    ASSUME Base, NEW t \in Task, UnlockTx(t)
    PROVE  /\ Base' /\ k.cur = t /\ pc[t] = "unlockTx" /\ pc' = [pc EXCEPT ![t] = "unlockRx"] /\ UNCHANGED op
           /\ q.txLock \in Nat /\ WakeInv("xTasksWaitingToReceive", k, q.txLock, k')
           /\ q'.use = q.use /\ q'.waiting = q.waiting /\ q'.rxLock = q.rxLock /\ q'.txLock = queueUNLOCKED
           /\ ContentsOf(q') = ContentsOf(q)
<1> DEFINE l == "xTasksWaitingToReceive"
<1>1. /\ k.cur = t /\ pc[t] = "unlockTx" /\ UNCHANGED op /\ pc' = [pc EXCEPT ![t] = "unlockRx"]
      /\ k' = Iterate(WakeReceiver, q.txLock, k) /\ q' = [q EXCEPT !.txLock = queueUNLOCKED]
  BY DEF UnlockTx, At, Goto
<1>2. /\ KernelOK(k) /\ Waiters(k) /\ CpuGood(k, q, pc[t]) /\ q \in Queue_t /\ RingOK(q) /\ t # Idle
      /\ CallGood(op[t], pc[t], q.use) /\ TaskGood(k, op[t], pc[t], t)
  BY <1>1, RunningTask
<1>3. q.txLock \in Nat /\ q.rxLock \in Nat /\ k.locks = 1
  BY <1>1, <1>2 DEF CpuGood, Locking, TxLocking, RxLocking
<1>4. WakeInv(l, k, q.txLock, k')
  BY <1>1, <1>2, <1>3, WakeReceivers
<1>5. KernelOK(k') /\ Advanced(k, k') /\ k'.cur = t /\ k'.locks = 1
  BY <1>1, <1>3, <1>4 DEF WakeInv
<1>6. /\ q' \in Queue_t /\ RingOK(q') /\ q'.use = q.use /\ q'.waiting = q.waiting
      /\ q'.rxLock = q.rxLock /\ q'.txLock = queueUNLOCKED /\ ContentsOf(q') = ContentsOf(q)
  <2>1. PICK z \in Int : z = queueUNLOCKED
    BY DEF queueUNLOCKED
  <2>2. PICK r \in Int : r = q.rxLock
    BY <1>3
  <2>3. q' = [q EXCEPT !.rxLock = r, !.txLock = z]
    BY <1>1, <1>2, <2>1, <2>2 DEF Queue_t
  <2>4. LET m == [q EXCEPT !.rxLock = r, !.txLock = z] IN
        /\ m \in Queue_t /\ RingOK(m) /\ m.use = q.use /\ m.waiting = q.waiting
        /\ m.rxLock = r /\ m.txLock = z /\ ContentsOf(m) = ContentsOf(q)
    BY <1>2, LockFields, ZenonT(60)
  <2> QED
    BY <2>1, <2>2, <2>3, <2>4
<1>7. t \in Away(k') => op[t].path = "blocked"
  <2>1. TaskGood(k', op[t], pc[t], t)
    BY <1>2, <1>5, GoodAfter
  <2> QED
    BY <2>1 DEF TaskGood
<1>8. CallGood(op[t], "unlockRx", q.use)
  BY <1>1, <1>2 DEF CallGood
<1>9. CpuGood(k', q', "unlockRx")
  BY <1>3, <1>5, <1>6 DEF CpuGood, Locking, Leaving, TxLocking, RxLocking
<1>10. pc'[k'.cur] = "unlockRx"
  BY <1>1, <1>5 DEF Base, Typed
<1>11. Base'
  BY <1>1, <1>2, <1>5, <1>6, <1>7, <1>8, <1>9, <1>10, WakingStep DEF Label, Parking
<1> QED
  BY <1>1, <1>3, <1>4, <1>6, <1>11

\* UnlockRx.
LEMMA UnlockRxStep ==
    ASSUME Base, NEW t \in Task, UnlockRx(t)
    PROVE  /\ Base' /\ k.cur = t /\ pc[t] = "unlockRx" /\ pc' = [pc EXCEPT ![t] = "resumeAll"] /\ UNCHANGED op
           /\ q.rxLock \in Nat /\ WakeInv("xTasksWaitingToSend", k, q.rxLock, k')
           /\ q'.use = q.use /\ q'.waiting = q.waiting /\ q'.txLock = q.txLock /\ q'.rxLock = queueUNLOCKED
           /\ ContentsOf(q') = ContentsOf(q)
<1> DEFINE l == "xTasksWaitingToSend"
<1>1. /\ k.cur = t /\ pc[t] = "unlockRx" /\ UNCHANGED op /\ pc' = [pc EXCEPT ![t] = "resumeAll"]
      /\ k' = Iterate(WakeSender, q.rxLock, k) /\ q' = [q EXCEPT !.rxLock = queueUNLOCKED]
  BY DEF UnlockRx, At, Goto
<1>2. /\ KernelOK(k) /\ Waiters(k) /\ CpuGood(k, q, pc[t]) /\ q \in Queue_t /\ RingOK(q) /\ t # Idle
      /\ CallGood(op[t], pc[t], q.use) /\ TaskGood(k, op[t], pc[t], t)
  BY <1>1, RunningTask
<1>3. q.rxLock \in Nat /\ q.txLock = queueUNLOCKED /\ k.locks = 1
  BY <1>1, <1>2 DEF CpuGood, Locking, TxLocking, RxLocking
<1>4. WakeInv(l, k, q.rxLock, k')
  BY <1>1, <1>2, <1>3, WakeSenders
<1>5. KernelOK(k') /\ Advanced(k, k') /\ k'.cur = t /\ k'.locks = 1
  BY <1>1, <1>3, <1>4 DEF WakeInv
<1>6. /\ q' \in Queue_t /\ RingOK(q') /\ q'.use = q.use /\ q'.waiting = q.waiting
      /\ q'.txLock = q.txLock /\ q'.rxLock = queueUNLOCKED /\ ContentsOf(q') = ContentsOf(q)
  <2>1. PICK z \in Int : z = queueUNLOCKED
    BY DEF queueUNLOCKED
  <2>2. q' = [q EXCEPT !.rxLock = z, !.txLock = z]
    BY <1>1, <1>2, <1>3, <2>1 DEF Queue_t
  <2>3. LET m == [q EXCEPT !.rxLock = z, !.txLock = z] IN
        /\ m \in Queue_t /\ RingOK(m) /\ m.use = q.use /\ m.waiting = q.waiting
        /\ m.rxLock = z /\ m.txLock = z /\ ContentsOf(m) = ContentsOf(q)
    BY <1>2, LockFields, ZenonT(60)
  <2> QED
    BY <1>3, <2>1, <2>2, <2>3
<1>7. t \in Away(k') => op[t].path = "blocked"
  <2>1. TaskGood(k', op[t], pc[t], t)
    BY <1>2, <1>5, GoodAfter
  <2> QED
    BY <2>1 DEF TaskGood
<1>8. CallGood(op[t], "resumeAll", q.use)
  BY <1>1, <1>2 DEF CallGood
<1>9. CpuGood(k', q', "resumeAll")
  BY <1>3, <1>5, <1>6 DEF CpuGood, Locking, Leaving, TxLocking, RxLocking
<1>10. pc'[k'.cur] = "resumeAll"
  BY <1>1, <1>5 DEF Base, Typed
<1>11. Base'
  BY <1>1, <1>2, <1>5, <1>6, <1>7, <1>8, <1>9, <1>10, WakingStep DEF Label, Parking
<1> QED
  BY <1>1, <1>3, <1>4, <1>6, <1>11

\* The processor when nothing is locked.
Unlocked(m, s) ==
    /\ m.locks = 0 /\ m.pended = 0 /\ m.pending = <<>>
    /\ s.txLock = queueUNLOCKED /\ s.rxLock = queueUNLOCKED

\* A task that has nothing locked may go on.
LEMMA CpuFree ==
    ASSUME NEW m, NEW s, Unlocked(m, s), NEW label, label \notin Locking,
           m.cur \in ReadyTasks(m) \/ label \in Leaving
    PROVE  CpuGood(m, s, label)
BY DEF CpuGood, Unlocked, Locking, TxLocking, RxLocking

\* ResumeAll.
LEMMA ResumeAllStep ==
    ASSUME Base, NEW t \in Task, ResumeAll(t)
    PROVE  /\ Base' /\ k.cur = t /\ pc[t] = "resumeAll" /\ UNCHANGED <<q, op>> /\ Advanced(k, k')
           /\ \E label \in {"try", "yield", "giveUp"} :
                 /\ pc' = [pc EXCEPT ![t] = label]
                 /\ op[t].path = "blocked" <=> label \in {"try", "yield"} /\ op[t].path # "retry"
                 /\ op[t].path = "expired" <=> label = "giveUp"
           /\ KernelOK(k) /\ k.locks = 1 /\ k' = xTaskResumeAll(k).k /\ k'.pended = 0
<1> DEFINE r == xTaskResumeAll(k)
           label == AfterResume(t, r.yielded)
<1>1. /\ k.cur = t /\ pc[t] = "resumeAll" /\ UNCHANGED <<q, op>> /\ pc' = [pc EXCEPT ![t] = label]
      /\ k' = r.k
  BY DEF ResumeAll, At, Goto
<1>2. /\ KernelOK(k) /\ Waiters(k) /\ CpuGood(k, q, pc[t]) /\ q \in Queue_t /\ RingOK(q) /\ t # Idle
      /\ CallGood(op[t], pc[t], q.use) /\ TaskGood(k, op[t], pc[t], t) /\ op[t] \in Call_t
      /\ \A u \in Task \ {t} : pc[u] \notin Locking
  BY <1>1, RunningTask
<1>3. q.rxLock = queueUNLOCKED /\ q.txLock = queueUNLOCKED /\ k.locks = 1
  BY <1>1, <1>2 DEF CpuGood, Locking, TxLocking, RxLocking
<1>4. /\ r.yielded \in BOOLEAN /\ KernelOK(k') /\ Advanced(k, k')
      /\ k'.locks = 0 /\ k'.pended = 0 /\ k'.pending = <<>>
      /\ ReadyTasks(k) \subseteq ReadyTasks(k')
      /\ IF r.yielded THEN k'.cur \in ReadyTasks(k') ELSE k'.cur = k.cur
  BY <1>1, <1>2, <1>3, ResumeStep
<1> HIDE DEF r
<1>5. op[t].path \in {"retry", "blocked", "expired"}
  BY <1>2 DEF Call_t, Path
<1>6. /\ label \in {"try", "yield", "giveUp"}
      /\ label = "yield" <=> op[t].path = "blocked" /\ ~r.yielded
      /\ op[t].path = "expired" <=> label = "giveUp"
  BY <1>4, <1>5 DEF AfterResume
<1>7. label \notin Locking /\ label \in Label
  BY <1>6 DEF Locking, Label
<1> HIDE DEF label
<1>8. t \in Away(k') => op[t].path = "blocked"
  <2>1. TaskGood(k', op[t], pc[t], t)
    BY <1>2, <1>4, GoodAfter
  <2> QED
    BY <2>1 DEF TaskGood
<1>9. k'.cur \in ReadyTasks(k') \/ label = "yield"
  <2>1. CASE r.yielded
    BY <1>4, <2>1
  <2>2. CASE ~r.yielded /\ op[t].path # "blocked"
    <3>1. t \in ReadyTasks(k)
      BY <1>2, <2>2 DEF TaskGood
    <3> QED
      BY <1>1, <1>4, <2>2, <3>1
  <2>3. CASE ~r.yielded /\ op[t].path = "blocked"
    BY <1>6, <2>3
  <2> QED
    BY <2>1, <2>2, <2>3
<1>10. CpuGood(k', q', pc'[k'.cur])
  <2>1. Unlocked(k', q')
    BY <1>1, <1>3, <1>4 DEF Unlocked
  <2>2. k'.cur \in Task /\ pc \in [Task -> Label]
    BY <1>4, KernelParts DEF Base, Typed
  <2>3. CASE k'.cur = t
    <3>1. pc'[k'.cur] = label
      BY <1>1, <2>2, <2>3
    <3> QED
      BY <1>7, <1>9, <2>1, <3>1, CpuFree DEF Leaving
  <2>4. CASE k'.cur # t
    <3>1. pc'[k'.cur] = pc[k'.cur] /\ pc[k'.cur] \notin Locking
      BY <1>1, <1>2, <2>2, <2>4
    <3>2. k'.cur \in ReadyTasks(k')
      BY <1>1, <1>4, <2>4
    <3> QED
      BY <2>1, <3>1, <3>2, CpuFree
  <2> QED
    BY <2>3, <2>4
<1>11. CallGood(op[t], label, q.use)
  BY <1>1, <1>2, <1>6 DEF CallGood
<1>12. Base'
  <2>1. t \in Away(k') => label \in Parking /\ op[t].path = "blocked"
    BY <1>6, <1>8 DEF Parking
  <2>2. q' \in Queue_t /\ RingOK(q') /\ q'.use = q.use /\ UNCHANGED op
    BY <1>1, <1>2
  <2> QED
    BY <1>1, <1>2, <1>4, <1>7, <1>10, <1>11, <2>1, <2>2, WakingStep
<1>13. op[t].path = "blocked" <=> label \in {"try", "yield"} /\ op[t].path # "retry"
  BY <1>5, <1>6
<1> QED
  BY <1>1, <1>2, <1>3, <1>4, <1>6, <1>12, <1>13 DEF r

\* Yield.
LEMMA YieldedStep ==
    ASSUME Base, NEW t \in Task, Yield(t)
    PROVE  /\ Base' /\ k.cur = t /\ pc[t] = "yield" /\ UNCHANGED <<q, op>>
           /\ Advanced(k, k') /\ NowOf(k') = NowOf(k) /\ k'.pended = k.pended
           /\ pc' = [pc EXCEPT ![t] = "try"]
<1>1. /\ k.cur = t /\ pc[t] = "yield" /\ UNCHANGED <<q, op>> /\ pc' = [pc EXCEPT ![t] = "try"]
      /\ k' = vTaskSwitchContext(k)
  BY DEF Yield, At, Goto
<1>2. /\ KernelOK(k) /\ Waiters(k) /\ CpuGood(k, q, pc[t]) /\ q \in Queue_t /\ RingOK(q) /\ t # Idle
      /\ CallGood(op[t], pc[t], q.use) /\ TaskGood(k, op[t], pc[t], t) /\ op[t] \in Call_t
      /\ \A u \in Task \ {t} : pc[u] \notin Locking
  BY <1>1, RunningTask
<1>3. Unlocked(k, q)
  BY <1>1, <1>2 DEF CpuGood, Locking, TxLocking, RxLocking, Unlocked
<1>4. /\ KernelOK(k') /\ Advanced(k, k') /\ k'.cur \in ReadyTasks(k') /\ k'.locks = 0
      /\ SameClock(k, k') /\ SameEvents(k, k')
  <2>1. k.locks = 0
    BY <1>3 DEF Unlocked
  <2> QED
    BY <1>1, <1>2, <2>1, SwitchStep
<1>5. t \in Away(k') => op[t].path = "blocked"
  <2>1. TaskGood(k', op[t], pc[t], t)
    BY <1>2, <1>4, GoodAfter
  <2> QED
    BY <2>1 DEF TaskGood
<1>6. CpuGood(k', q', pc'[k'.cur])
  <2>1. Unlocked(k', q')
    BY <1>1, <1>3, <1>4 DEF Unlocked, SameClock, SameEvents
  <2>2. k'.cur \in Task /\ pc \in [Task -> Label]
    BY <1>4, KernelParts DEF Base, Typed
  <2>3. pc'[k'.cur] \notin Locking
    BY <1>1, <1>2, <2>2 DEF Locking
  <2> QED
    BY <1>4, <2>1, <2>3, CpuFree
<1>7. CallGood(op[t], "try", q.use) /\ "try" \in Label /\ "try" \in Parking /\ "try" \notin Locking
  BY <1>1, <1>2 DEF CallGood, Label, Parking, Locking
<1>8. Base'
  <2>1. q' \in Queue_t /\ RingOK(q') /\ q'.use = q.use /\ UNCHANGED op
    BY <1>1, <1>2
  <2> QED
    BY <1>1, <1>2, <1>4, <1>5, <1>6, <1>7, <2>1, WakingStep
<1>9. NowOf(k') = NowOf(k) /\ k'.pended = k.pended
  BY <1>4 DEF NowOf, SameClock
<1> QED
  BY <1>1, <1>4, <1>8, <1>9

\* The idle task.
LEMMA IdleStep ==
    ASSUME Base, IdleLoop
    PROVE  /\ Base' /\ UNCHANGED <<q, pc, op>> /\ Advanced(k, k') /\ k.cur = Idle /\ pc[Idle] = "run"
           /\ NowOf(k') = NowOf(k) /\ k'.pended = k.pended
<1>1. /\ k.cur = Idle /\ pc[Idle] = "run" /\ UNCHANGED <<q, pc, op>>
      /\ k' = k \/ k' = vTaskSwitchContext(k)
  BY DEF IdleLoop, At
<1>2. /\ KernelOK(k) /\ CpuGood(k, q, pc[Idle]) /\ q \in Queue_t /\ RingOK(q)
      /\ \A u \in Task : pc[u] \notin Locking
  BY <1>1, RunningTask, TasksAssumption DEF Locking
<1>3. Unlocked(k, q) /\ k.cur \in ReadyTasks(k)
  BY <1>1, <1>2 DEF CpuGood, Locking, TxLocking, RxLocking, Unlocked, Leaving
<1>4. /\ KernelOK(k') /\ Advanced(k, k') /\ k'.cur \in ReadyTasks(k') /\ k'.locks = 0
      /\ SameClock(k, k') /\ SameEvents(k, k')
  <2>1. k.locks = 0
    BY <1>3 DEF Unlocked
  <2>2. CASE k' = k
    <3>1. Advanced(k, k)
      BY DEF Advanced, Stays
    <3> QED
      BY <1>2, <1>3, <2>1, <2>2, <3>1 DEF SameClock, SameEvents
  <2>3. CASE k' = vTaskSwitchContext(k)
    BY <1>2, <2>1, <2>3, SwitchStep
  <2> QED
    BY <1>1, <2>2, <2>3
<1>5. CpuGood(k', q', pc[k'.cur])
  <2>1. Unlocked(k', q') /\ k'.cur \in Task
    BY <1>1, <1>3, <1>4, KernelParts DEF Unlocked, SameClock, SameEvents
  <2> QED
    BY <1>2, <1>4, <2>1, CpuFree
<1>6. Base'
  <2>1. q' \in Queue_t /\ RingOK(q') /\ q'.use = q.use /\ UNCHANGED <<pc, op>> /\ pc[k.cur] \notin Locking
    BY <1>1, <1>2, TasksAssumption
  <2> QED
    BY <1>4, <1>5, <2>1, IsrFrame
<1>7. NowOf(k') = NowOf(k) /\ k'.pended = k.pended
  BY <1>4 DEF NowOf, SameClock
<1> QED
  BY <1>1, <1>4, <1>6, <1>7

\* A step of module QueueSpec, on the contents of a queue of n items.
Moves(c, d, n) ==
    \/ \E x \in Cell : \/ Len(c) < n /\ d = Append(c, x)
                       \/ Len(c) < n /\ d = <<x>> \o c
                       \/ n = 1 /\ d = <<x>>
    \/ c # <<>> /\ d = Tail(c)
    \/ d = c

\* What a transfer does: it adds an item, replaces the only one, removes one
\* or looks at one.
Stored(s) ==
    \/ s.waiting = q.waiting + 1 /\ q.waiting < uxLength
    \/ s.waiting = q.waiting /\ q.waiting = uxLength
Fetched(s) == s.waiting = q.waiting - 1 /\ q.waiting > 0
Transferred(s) ==
    /\ s \in Queue_t /\ RingOK(s) /\ s.use = q.use /\ s.rxLock = q.rxLock /\ s.txLock = q.txLock
    /\ Moves(ContentsOf(q), ContentsOf(s), uxLength)

\* An item is stored.
LEMMA StoreItem ==
    ASSUME q \in Queue_t, RingOK(q), NEW x \in Cell, NEW position \in q.use.positions, Room(position)
    PROVE  LET m == prvCopyDataToQueue(q, x, position) IN Transferred(m) /\ Stored(m)
<1> DEFINE m == prvCopyDataToQueue(q, x, position)
           c == ContentsOf(q)
           d == ContentsOf(m)
<1>1. /\ uxLength \in Nat \ {0} /\ q.waiting \in 0..uxLength /\ Len(c) = q.waiting
      /\ q.use.semaphore => position = "back"
      /\ position \in {"back", "front", "overwrite"}
      /\ position = "overwrite" => uxLength = 1
      /\ NULL \in Cell
  BY RingFields, ContentsAre, UseOfQueue DEF Cell, Position
<1>2. CASE q.use.semaphore
  <2>1. q.waiting < uxLength
    BY <1>1, <1>2 DEF Room
  <2>2. /\ m \in Queue_t /\ m.use = q.use /\ m.rxLock = q.rxLock /\ m.txLock = q.txLock
        /\ m.waiting = q.waiting + 1 /\ RingOK(m) /\ d = Append(c, NULL)
    BY <1>2, <2>1, StoreNothing
  <2> HIDE DEF m, c, d
  <2>3. Moves(c, d, uxLength)
    BY <1>1, <2>1, <2>2 DEF Moves
  <2> QED
    BY <2>1, <2>2, <2>3 DEF Transferred, Stored, m, c, d
<1>3. CASE ~q.use.semaphore /\ position = "back"
  <2>1. q.waiting < uxLength
    BY <1>3 DEF Room
  <2>2. /\ m \in Queue_t /\ m.use = q.use /\ m.rxLock = q.rxLock /\ m.txLock = q.txLock
        /\ m.waiting = q.waiting + 1 /\ RingOK(m) /\ d = Append(c, x)
    BY <1>3, <2>1, StoreBack
  <2> HIDE DEF m, c, d
  <2>3. Moves(c, d, uxLength)
    BY <1>1, <2>1, <2>2 DEF Moves
  <2> QED
    BY <2>1, <2>2, <2>3 DEF Transferred, Stored, m, c, d
<1>4. CASE ~q.use.semaphore /\ position # "back" /\ q.waiting < uxLength
  <2>1. position \in {"front", "overwrite"} /\ (position = "overwrite" => q.waiting = 0)
    BY <1>1, <1>4
  <2>2. /\ m \in Queue_t /\ m.use = q.use /\ m.rxLock = q.rxLock /\ m.txLock = q.txLock
        /\ m.waiting = q.waiting + 1 /\ RingOK(m) /\ d = <<x>> \o c
    BY <1>4, <2>1, StoreFront
  <2> HIDE DEF m, c, d
  <2>3. Moves(c, d, uxLength)
    BY <1>1, <1>4, <2>2 DEF Moves
  <2> QED
    BY <1>4, <2>2, <2>3 DEF Transferred, Stored, m, c, d
<1>5. CASE ~q.use.semaphore /\ position # "back" /\ ~(q.waiting < uxLength)
  <2>1. position = "overwrite" /\ q.waiting = 1 /\ uxLength = 1
    BY <1>1, <1>5 DEF Room
  <2>2. /\ m \in Queue_t /\ m.use = q.use /\ m.rxLock = q.rxLock /\ m.txLock = q.txLock
        /\ m.waiting = q.waiting /\ RingOK(m) /\ d = <<x>>
    BY <1>5, <2>1, StoreOver
  <2> HIDE DEF m, c, d
  <2>3. Moves(c, d, uxLength)
    BY <1>1, <2>1, <2>2 DEF Moves
  <2> QED
    BY <2>1, <2>2, <2>3 DEF Transferred, Stored, m, c, d
<1> QED
  BY <1>2, <1>3, <1>4, <1>5

\* An item is taken out.
LEMMA FetchItem ==
    ASSUME q \in Queue_t, RingOK(q), q.waiting > 0
    PROVE  LET m == prvCopyDataFromQueue(q) IN Transferred(m) /\ Fetched(m)
<1> DEFINE m == prvCopyDataFromQueue(q)
<1>1. /\ m \in Queue_t /\ m.use = q.use /\ m.rxLock = q.rxLock /\ m.txLock = q.txLock
      /\ m.waiting = q.waiting - 1 /\ RingOK(m)
      /\ ContentsOf(q) # <<>> /\ ContentsOf(m) = Tail(ContentsOf(q))
  BY Fetch
<1> HIDE DEF m
<1> QED
  BY <1>1 DEF Transferred, Fetched, Moves, m

\* The first waiter of l, if there is one, has left it.
WokenOne(a, m, l) ==
    /\ \A x \in EventList \ {l} : m.event[x] = a.event[x]
    /\ \/ a.event[l] = <<>> /\ m.event[l] = <<>>
       \/ \E w \in ToSet(a.event[l]) : ToSet(m.event[l]) = ToSet(a.event[l]) \ {w}

\* A task that has done its transfer wakes a peer.
LEMMA PeerStep ==
    ASSUME NEW a, KernelOK(a), Waiters(a), NEW l \in EventList, a.locks = 0, a.pending = <<>>,
           a.cur \in ReadyTasks(a)
    PROVE  LET m == IF a.event[l] = <<>> THEN a
                    ELSE LET r == xTaskRemoveFromEventList(a, l)
                         IN  IF r.higher THEN vTaskSwitchContext(r.k) ELSE r.k
           IN  /\ KernelOK(m) /\ Advanced(a, m) /\ m.locks = 0 /\ m.pending = <<>> /\ SameClock(a, m)
               /\ m.cur \in ReadyTasks(m) /\ WokenOne(a, m, l) /\ ReadyTasks(a) \subseteq ReadyTasks(m)
<1> DEFINE r == xTaskRemoveFromEventList(a, l)
           b == r.k
           c == vTaskSwitchContext(b)
<1>1. CASE a.event[l] = <<>>
  <2>1. Advanced(a, a)
    BY DEF Advanced, Stays
  <2> QED
    BY <1>1, <2>1 DEF SameClock, WokenOne
<1>2. CASE a.event[l] # <<>>
  <2>1. /\ r.higher \in BOOLEAN /\ KernelOK(b) /\ Advanced(a, b)
        /\ b.cur = a.cur /\ b.locks = a.locks /\ SameClock(a, b)
        /\ ReadyTasks(a) \subseteq ReadyTasks(b)
        /\ b.pending = a.pending
        /\ Head(a.event[l]) \in ToSet(a.event[l])
        /\ ToSet(b.event[l]) = ToSet(a.event[l]) \ {Head(a.event[l])}
        /\ \A x \in EventList \ {l} : b.event[x] = a.event[x]
    BY <1>2, RemoveStep
  <2>2. /\ KernelOK(c) /\ Advanced(b, c) /\ c.cur \in ReadyTasks(c) /\ c.locks = 0
        /\ ReadyTasks(c) = ReadyTasks(b) /\ SameClock(b, c) /\ SameEvents(b, c)
    BY <2>1, SwitchStep
  <2> HIDE DEF r, b, c
  <2>3. WokenOne(a, b, l) /\ WokenOne(a, c, l)
    BY <2>1, <2>2 DEF WokenOne, SameEvents
  <2>4. Advanced(a, c) /\ SameClock(a, c) /\ c.pending = <<>>
    BY <2>1, <2>2, AdvancedThen DEF SameClock, SameEvents
  <2> QED
    BY <1>2, <2>1, <2>2, <2>3, <2>4 DEF r, b, c
<1> QED
  BY <1>1, <1>2

\* Succeed.
LEMMA SucceedStep ==
    ASSUME Base, NEW t \in Task, Succeed(t)
    PROVE  /\ Base' /\ k.cur = t /\ pc[t] = "try" /\ t \in ReadyTasks(k) /\ Unlocked(k, q)
           /\ pc' = [pc EXCEPT ![t] = "run"] /\ op' = [op EXCEPT ![t] = NoOp]
           /\ Advanced(k, k') /\ SameClock(k, k') /\ Transferred(q')
           /\ \/ op[t].send /\ Stored(q') /\ WokenOne(k, k', "xTasksWaitingToReceive")
              \/ ~op[t].send /\ q' = q /\ WokenOne(k, k', "xTasksWaitingToReceive")
              \/ ~op[t].send /\ Fetched(q') /\ WokenOne(k, k', "xTasksWaitingToSend")
<1> DEFINE l == PeerList(t)
<1>1. /\ k.cur = t /\ pc[t] = "try" /\ Possible(t) /\ q' = Transfer(t)
      /\ k' = IF k.event[l] = <<>> THEN k
              ELSE LET r == xTaskRemoveFromEventList(k, l)
                   IN  IF r.higher THEN vTaskSwitchContext(r.k) ELSE r.k
      /\ pc' = [pc EXCEPT ![t] = "run"] /\ op' = [op EXCEPT ![t] = NoOp]
  BY DEF Succeed, At, Goto, Return
<1>2. /\ KernelOK(k) /\ Waiters(k) /\ CpuGood(k, q, pc[t]) /\ q \in Queue_t /\ RingOK(q) /\ t # Idle
      /\ CallGood(op[t], pc[t], q.use) /\ op[t] \in Call_t /\ t \in ReadyTasks(k)
      /\ \A u \in Task \ {t} : pc[u] \notin Locking
  BY <1>1, RunningTask DEF Leaving
<1>3. Unlocked(k, q)
  BY <1>1, <1>2 DEF CpuGood, Locking, TxLocking, RxLocking, Unlocked
<1>4. l \in EventList
  BY QueueAssumption DEF PeerList
<1>5. /\ KernelOK(k') /\ Advanced(k, k') /\ k'.locks = 0 /\ k'.pending = <<>> /\ SameClock(k, k')
      /\ k'.cur \in ReadyTasks(k') /\ WokenOne(k, k', l) /\ ReadyTasks(k) \subseteq ReadyTasks(k')
  <2>1. k.locks = 0 /\ k.pending = <<>> /\ k.cur \in ReadyTasks(k)
    BY <1>1, <1>2, <1>3 DEF Unlocked
  <2> HIDE DEF l
  <2> QED
    BY <1>1, <1>2, <1>4, <2>1, PeerStep
<1>6. /\ Transferred(q')
      /\ \/ op[t].send /\ Stored(q') /\ l = "xTasksWaitingToReceive"
         \/ ~op[t].send /\ q' = q /\ l = "xTasksWaitingToReceive"
         \/ ~op[t].send /\ Fetched(q') /\ l = "xTasksWaitingToSend"
  <2>0. op[t].send \in BOOLEAN /\ op[t].peek \in BOOLEAN /\ op[t].item \in Cell
    BY <1>2 DEF Call_t
  <2>1. CASE op[t].send
    <3>1. op[t].position \in q.use.positions /\ Room(op[t].position)
      BY <1>1, <1>2, <2>1 DEF CallGood, Possible
    <3>2. q' = prvCopyDataToQueue(q, op[t].item, op[t].position)
      BY <1>1, <2>1 DEF Transfer
    <3> QED
      BY <1>2, <2>0, <2>1, <3>1, <3>2, StoreItem DEF PeerList
  <2>2. CASE ~op[t].send /\ op[t].peek
    <3>1. q' = q
      BY <1>1, <2>2 DEF Transfer
    <3> QED
      BY <1>2, <2>2, <3>1 DEF Transferred, Moves, PeerList
  <2>3. CASE ~op[t].send /\ ~op[t].peek
    <3>1. q' = prvCopyDataFromQueue(q) /\ q.waiting > 0
      BY <1>1, <2>3 DEF Transfer, Possible
    <3> QED
      BY <1>2, <2>3, <3>1, FetchItem DEF PeerList
  <2> QED
    BY <2>0, <2>1, <2>2, <2>3
<1>7. q' \in Queue_t /\ RingOK(q') /\ q'.use = q.use /\ Unlocked(k', q')
  BY <1>3, <1>5, <1>6 DEF Transferred, Unlocked, SameClock
<1>8. Waiters(k')
  BY <1>2, <1>5, KernelParts, WaitersAfter
<1>9. TaskGood(k', NoOp, "run", t)
  BY <1>2, <1>5, <1>8, ReadyGood
<1>10. \A u \in Task \ {t} : TaskGood(k', op[u], pc[u], u)
  BY <1>5, OthersGood
<1>11. CpuGood(k', q', pc'[k'.cur])
  <2>1. k'.cur \in Task /\ pc \in [Task -> Label]
    BY <1>5, KernelParts DEF Base, Typed
  <2>2. pc'[k'.cur] \notin Locking
    BY <1>1, <1>2, <2>1 DEF Locking
  <2> QED
    BY <1>5, <1>7, <2>2, CpuFree
<1>12. CallGood(NoOp, "run", q.use) /\ NoOp \in Call_t /\ "run" \in Label /\ "run" \notin Locking
  BY NoCall, SMTT(30) DEF CallGood, Label, Locking
<1>13. Base'
  BY <1>1, <1>2, <1>5, <1>7, <1>9, <1>10, <1>11, <1>12, Frame
<1> HIDE DEF l
<1> QED
  BY <1>1, <1>2, <1>3, <1>5, <1>6, <1>13

\* An ISR wakes the first waiter of l, or leaves that to the task that has
\* the queue locked.
LEMMA IsrKernel ==
    ASSUME Base, NEW locked \in BOOLEAN, NEW l \in EventList, IsrWake(locked, l)
    PROVE  /\ KernelOK(k') /\ Advanced(k, k') /\ k'.cur = k.cur /\ k'.locks = k.locks /\ SameClock(k, k')
           /\ ReadyTasks(k) \subseteq ReadyTasks(k') /\ (k.locks = 0 => k'.pending = k.pending)
           /\ IF locked THEN k' = k ELSE WokenOne(k, k', l)
<1>1. KernelOK(k) /\ Waiters(k) /\ Advanced(k, k)
  BY WaitersOK DEF Base, Advanced, Stays
<1>2. CASE k' = k /\ (locked \/ k.event[l] = <<>>)
  BY <1>1, <1>2 DEF SameClock, WokenOne
<1>3. CASE ~locked /\ k.event[l] # <<>>
  <2>1. k' = xTaskRemoveFromEventList(k, l).k
    BY <1>3 DEF IsrWake
  <2>2. /\ KernelOK(k') /\ Advanced(k, k')
        /\ k'.cur = k.cur /\ k'.locks = k.locks /\ SameClock(k, k')
        /\ ReadyTasks(k) \subseteq ReadyTasks(k')
        /\ k.locks = 0 => k'.pending = k.pending
        /\ Head(k.event[l]) \in ToSet(k.event[l])
        /\ ToSet(k'.event[l]) = ToSet(k.event[l]) \ {Head(k.event[l])}
        /\ \A x \in EventList \ {l} : k'.event[x] = k.event[x]
    BY <1>1, <1>3, <2>1, RemoveStep
  <2>3. WokenOne(k, k', l)
    BY <2>2 DEF WokenOne
  <2> QED
    BY <1>3, <2>2, <2>3
<1> QED
  BY <1>2, <1>3 DEF IsrWake

\* What an ISR does at one end of the queue: lock is the count of that end
\* before and new the count after.
Signalled(lock, new, l) ==
    IF lock = queueUNLOCKED THEN new = lock /\ WokenOne(k, k', l)
    ELSE lock \in Nat /\ k' = k /\ new = IncrementLock(lock)

\* The processor after an ISR.
LEMMA IsrCpu ==
    ASSUME Base, KernelOK(k'), k'.cur = k.cur, k'.locks = k.locks, SameClock(k, k'),
           ReadyTasks(k) \subseteq ReadyTasks(k'), k.locks = 0 => k'.pending = k.pending,
           q'.txLock = q.txLock \/ (q.txLock \in Nat /\ q'.txLock \in Nat),
           q'.rxLock = q.rxLock \/ (q.rxLock \in Nat /\ q'.rxLock \in Nat)
    PROVE  CpuGood(k', q', pc[k'.cur])
<1>1. CpuGood(k, q, pc[k.cur])
  BY DEF Base, CpuOK
<1>2. queueUNLOCKED \notin Nat
  BY DEF queueUNLOCKED
<1> QED
  BY <1>1, <1>2 DEF CpuGood, SameClock

\* The lock counts.
LEMMA LockCounts ==
    ASSUME Base
    PROVE  /\ q.txLock = queueUNLOCKED \/ q.txLock \in Nat
           /\ q.rxLock = queueUNLOCKED \/ q.rxLock \in Nat
           /\ q \in Queue_t /\ RingOK(q) /\ k.live = Task /\ Cardinality(Task) \in Nat
           /\ \A n \in Nat : IncrementLock(n) \in Nat
<1>1. CpuGood(k, q, pc[k.cur]) /\ q \in Queue_t /\ RingOK(q) /\ k.live = Task
  BY DEF Base, CpuOK, Typed, KernelOK
<1>2. Cardinality(Task) \in Nat
  BY QueueAssumption, FS_CardinalityType
<1> QED
  BY <1>1, <1>2 DEF CpuGood, IncrementLock

\* What an ISR that sends has done, and one that receives.
IsrSent ==
    /\ Base' /\ Advanced(k, k') /\ SameClock(k, k') /\ k'.cur = k.cur /\ UNCHANGED <<pc, op>>
    /\ Moves(ContentsOf(q), ContentsOf(q'), uxLength) /\ Stored(q') /\ q'.use = q.use
    /\ q'.rxLock = q.rxLock /\ Signalled(q.txLock, q'.txLock, "xTasksWaitingToReceive")
IsrReceived ==
    /\ Base' /\ Advanced(k, k') /\ SameClock(k, k') /\ k'.cur = k.cur /\ UNCHANGED <<pc, op>>
    /\ Moves(ContentsOf(q), ContentsOf(q'), uxLength) /\ Fetched(q') /\ q'.use = q.use
    /\ q'.txLock = q.txLock /\ Signalled(q.rxLock, q'.rxLock, "xTasksWaitingToSend")

\* An ISR has stored an item.
LEMMA IsrSends ==
    ASSUME Base, NEW s, Transferred(s), Stored(s), UNCHANGED <<pc, op>>,
           q' = IF q.txLock = queueUNLOCKED THEN s ELSE [s EXCEPT !.txLock = IncrementLock(q.txLock)],
           IsrWake(q.txLock # queueUNLOCKED, "xTasksWaitingToReceive")
    PROVE  IsrSent
<1> DEFINE l == "xTasksWaitingToReceive"
           locked == q.txLock # queueUNLOCKED
<1>1. /\ KernelOK(k') /\ Advanced(k, k') /\ k'.cur = k.cur /\ k'.locks = k.locks /\ SameClock(k, k')
      /\ ReadyTasks(k) \subseteq ReadyTasks(k') /\ (k.locks = 0 => k'.pending = k.pending)
      /\ IF locked THEN k' = k ELSE WokenOne(k, k', l)
  <2>1. l \in EventList /\ locked \in BOOLEAN
    BY QueueAssumption
  <2> QED
    BY <2>1, IsrKernel
<1>2. /\ q.txLock = queueUNLOCKED \/ q.txLock \in Nat
      /\ \A n \in Nat : IncrementLock(n) \in Nat
  BY LockCounts
<1>3. /\ s \in Queue_t /\ RingOK(s) /\ s.use = q.use /\ s.rxLock = q.rxLock /\ s.txLock = q.txLock
      /\ Moves(ContentsOf(q), ContentsOf(s), uxLength)
  BY DEF Transferred
<1>4. /\ q' \in Queue_t /\ RingOK(q') /\ q'.use = q.use /\ q'.waiting = s.waiting /\ q'.rxLock = q.rxLock
      /\ ContentsOf(q') = ContentsOf(s)
      /\ q'.txLock = IF locked THEN IncrementLock(q.txLock) ELSE q.txLock
  <2>1. CASE ~locked
    BY <1>3, <2>1
  <2>2. CASE locked
    <3>1. PICK x \in Int : x = IncrementLock(q.txLock)
      BY <1>2, <2>2
    <3>2. PICK r \in Int : r = q.rxLock
      BY <1>3 DEF Queue_t
    <3>3. q' = [s EXCEPT !.rxLock = r, !.txLock = x]
      BY <1>3, <2>2, <3>1, <3>2 DEF Queue_t
    <3>4. LET m == [s EXCEPT !.rxLock = r, !.txLock = x] IN
          /\ m \in Queue_t /\ RingOK(m) /\ m.use = s.use /\ m.waiting = s.waiting
          /\ m.rxLock = r /\ m.txLock = x /\ ContentsOf(m) = ContentsOf(s)
      BY <1>3, LockFields, ZenonT(60)
    <3> QED
      BY <1>3, <2>2, <3>1, <3>2, <3>3, <3>4
  <2> QED
    BY <2>1, <2>2
<1>5. CpuGood(k', q', pc[k'.cur])
  BY <1>1, <1>2, <1>4, IsrCpu
<1>6. Base'
  BY <1>1, <1>4, <1>5, IsrFrame
<1>7. Signalled(q.txLock, q'.txLock, l)
  BY <1>1, <1>2, <1>4 DEF Signalled
<1> QED
  BY <1>1, <1>3, <1>4, <1>6, <1>7 DEF IsrSent, Stored

\* An ISR has taken an item out.
LEMMA IsrReceives ==
    ASSUME Base, NEW s, Transferred(s), Fetched(s), UNCHANGED <<pc, op>>,
           q' = IF q.rxLock = queueUNLOCKED THEN s ELSE [s EXCEPT !.rxLock = IncrementLock(q.rxLock)],
           IsrWake(q.rxLock # queueUNLOCKED, "xTasksWaitingToSend")
    PROVE  IsrReceived
<1> DEFINE l == "xTasksWaitingToSend"
           locked == q.rxLock # queueUNLOCKED
<1>1. /\ KernelOK(k') /\ Advanced(k, k') /\ k'.cur = k.cur /\ k'.locks = k.locks /\ SameClock(k, k')
      /\ ReadyTasks(k) \subseteq ReadyTasks(k') /\ (k.locks = 0 => k'.pending = k.pending)
      /\ IF locked THEN k' = k ELSE WokenOne(k, k', l)
  <2>1. l \in EventList /\ locked \in BOOLEAN
    BY QueueAssumption
  <2> QED
    BY <2>1, IsrKernel
<1>2. /\ q.rxLock = queueUNLOCKED \/ q.rxLock \in Nat
      /\ \A n \in Nat : IncrementLock(n) \in Nat
  BY LockCounts
<1>3. /\ s \in Queue_t /\ RingOK(s) /\ s.use = q.use /\ s.rxLock = q.rxLock /\ s.txLock = q.txLock
      /\ Moves(ContentsOf(q), ContentsOf(s), uxLength)
  BY DEF Transferred
<1>4. /\ q' \in Queue_t /\ RingOK(q') /\ q'.use = q.use /\ q'.waiting = s.waiting /\ q'.txLock = q.txLock
      /\ ContentsOf(q') = ContentsOf(s)
      /\ q'.rxLock = IF locked THEN IncrementLock(q.rxLock) ELSE q.rxLock
  <2>1. CASE ~locked
    BY <1>3, <2>1
  <2>2. CASE locked
    <3>1. PICK r \in Int : r = IncrementLock(q.rxLock)
      BY <1>2, <2>2
    <3>2. PICK x \in Int : x = q.txLock
      BY <1>3 DEF Queue_t
    <3>3. q' = [s EXCEPT !.rxLock = r, !.txLock = x]
      BY <1>3, <2>2, <3>1, <3>2 DEF Queue_t
    <3>4. LET m == [s EXCEPT !.rxLock = r, !.txLock = x] IN
          /\ m \in Queue_t /\ RingOK(m) /\ m.use = s.use /\ m.waiting = s.waiting
          /\ m.rxLock = r /\ m.txLock = x /\ ContentsOf(m) = ContentsOf(s)
      BY <1>3, LockFields, ZenonT(60)
    <3> QED
      BY <1>3, <2>2, <3>1, <3>2, <3>3, <3>4
  <2> QED
    BY <2>1, <2>2
<1>5. CpuGood(k', q', pc[k'.cur])
  BY <1>1, <1>2, <1>4, IsrCpu
<1>6. Base'
  BY <1>1, <1>4, <1>5, IsrFrame
<1>7. Signalled(q.rxLock, q'.rxLock, l)
  BY <1>1, <1>2, <1>4 DEF Signalled
<1> QED
  BY <1>1, <1>3, <1>4, <1>6, <1>7 DEF IsrReceived, Fetched

\* xQueueGenericSendFromISR, xQueueGiveFromISR and xQueueReceiveFromISR.
LEMMA IsrStep ==
    ASSUME Base, Isr
    PROVE  IsrSent \/ IsrReceived
<1>0. q \in Queue_t /\ RingOK(q)
  BY LockCounts
<1>1. CASE \E x \in Item, position \in q.use.positions : xQueueGenericSendFromISR(x, position)
  <2>1. PICK x \in Item, position \in q.use.positions : xQueueGenericSendFromISR(x, position)
    BY <1>1
  <2> DEFINE s == prvCopyDataToQueue(q, x, position)
  <2>2. /\ q' = IF q.txLock = queueUNLOCKED THEN s ELSE [s EXCEPT !.txLock = IncrementLock(s.txLock)]
        /\ IsrWake(q.txLock # queueUNLOCKED, "xTasksWaitingToReceive") /\ UNCHANGED <<pc, op>> /\ Room(position)
    BY <2>1 DEF xQueueGenericSendFromISR
  <2>3. Transferred(s) /\ Stored(s)
    BY <1>0, <2>2, StoreItem DEF Cell
  <2> HIDE DEF s
  <2>4. s.txLock = q.txLock
    BY <2>3 DEF Transferred
  <2> QED
    BY <2>2, <2>3, <2>4, IsrSends
<1>2. CASE xQueueGiveFromISR
  <2> DEFINE s == prvCopyDataToQueue(q, NULL, "back")
  <2>1. /\ q.use.semaphore /\ q.waiting < uxLength /\ UNCHANGED <<pc, op>>
        /\ q' = [q EXCEPT !.waiting = @ + 1,
                          !.txLock = IF q.txLock = queueUNLOCKED THEN q.txLock ELSE IncrementLock(q.txLock)]
        /\ IsrWake(q.txLock # queueUNLOCKED, "xTasksWaitingToReceive")
    BY <1>2 DEF xQueueGiveFromISR
  <2>2. s = [q EXCEPT !.waiting = @ + 1]
    BY <1>0, <2>1 DEF prvCopyDataToQueue
  <2>3. Transferred(s) /\ Stored(s)
    <3>1. "back" \in q.use.positions /\ Room("back") /\ NULL \in Cell
      BY <1>0, <2>1, UseOfQueue DEF Room, Cell
    <3> QED
      BY <1>0, <3>1, StoreItem
  <2> HIDE DEF s
  <2>4. q' = IF q.txLock = queueUNLOCKED THEN s ELSE [s EXCEPT !.txLock = IncrementLock(q.txLock)]
    BY <1>0, <2>1, <2>2 DEF Queue_t
  <2> QED
    BY <2>1, <2>3, <2>4, IsrSends
<1>3. CASE xQueueReceiveFromISR
  <2> DEFINE s == prvCopyDataFromQueue(q)
  <2>2. /\ q' = IF q.rxLock = queueUNLOCKED THEN s ELSE [s EXCEPT !.rxLock = IncrementLock(s.rxLock)]
        /\ IsrWake(q.rxLock # queueUNLOCKED, "xTasksWaitingToSend") /\ UNCHANGED <<pc, op>> /\ q.waiting > 0
    BY <1>3 DEF xQueueReceiveFromISR
  <2>3. Transferred(s) /\ Fetched(s)
    BY <1>0, <2>2, FetchItem
  <2> HIDE DEF s
  <2>4. s.rxLock = q.rxLock
    BY <2>3 DEF Transferred
  <2> QED
    BY <2>2, <2>3, <2>4, IsrReceives
<1> QED
  BY <1>1, <1>2, <1>3 DEF Isr

\* The use of the queue does not last longer than the counters can tell.
LEMMA WithinTime ==
    ASSUME Base
    PROVE  q.use.ticks \in Int /\ q.use.ticks <= Eternity
<1>1. q.use \in Uses
  BY DEF Base, Typed, Queue_t
<1>2. q.use.ticks \in 1..(OverflowMod * TickMod)
  BY <1>1, QueueAssumption
<1>3. PICK e \in Int : e = OverflowMod * TickMod
  BY TicksAssumption, TasksAssumption
<1> QED
  BY <1>2, <1>3 DEF Eternity

\* vTickISR.
LEMMA TickISRStep ==
    ASSUME Base, vTickISR
    PROVE  /\ Base' /\ UNCHANGED <<q, pc, op>> /\ Advanced(k, k')
           /\ NowOf(k') \in Nat /\ NowOf(k) <= NowOf(k') /\ k'.pended \in 0..1
           /\ NowOf(k') + k'.pended < q.use.ticks /\ (k'.cur = k.cur \/ pc[k.cur] \notin Locking)
<1> DEFINE r == xTaskIncrementTick(k)
<1>1. /\ ~EndOfTime /\ (k.locks = 0 \/ k.pended = 0) /\ UNCHANGED <<q, pc, op>>
      /\ k' = IF r.switch THEN vTaskSwitchContext(r.k) ELSE r.k
  BY DEF vTickISR
<1>2. /\ KernelOK(k) /\ CpuGood(k, q, pc[k.cur]) /\ q \in Queue_t /\ RingOK(q) /\ k.cur \in Task /\ k \in Kernel
      /\ Apart(k) /\ Timed(k)
  BY KernelParts DEF Base, CpuOK, Typed
<1>3. /\ NowOf(k) \in Nat /\ k.pended \in Nat /\ q.use.ticks \in Int /\ q.use.ticks <= Eternity
      /\ NowOf(k) + k.pended + 1 < q.use.ticks /\ Eternity \in Int
  <2>1. Eternity \in Int
    BY TicksAssumption, TasksAssumption DEF Eternity
  <2>2. ~(NowOf(k) + k.pended + 1 >= q.use.ticks)
    BY <1>1 DEF EndOfTime, Now, NowOf
  <2> QED
    BY <1>2, <2>1, <2>2, NowIsNat, WithinTime
<1>4. CASE k.locks = 0
  <2> DEFINE m == r.k
             n == vTaskSwitchContext(m)
  <2>0. k.pended = 0 /\ k.pending = <<>> /\ pc[k.cur] \notin Locking
    BY <1>2, <1>4 DEF CpuGood
  <2>1. /\ r.switch \in BOOLEAN /\ KernelOK(m) /\ Advanced(k, m) /\ m.cur = k.cur /\ m.locks = 0
        /\ m.pended = 0 /\ ReadyTasks(k) \subseteq ReadyTasks(m) /\ m.pending = <<>>
    BY <1>2, <1>4, <2>0, TickStep
  <2>2. NowOf(m) = NowOf(k) + 1
    <3>1. r = Ticked(k)
      BY <1>4 DEF xTaskIncrementTick
    <3>2. NowOf(k) + 1 < Eternity
      BY <1>3
    <3> QED
      BY <1>2, <3>1, <3>2, TickNow
  <2>3. /\ KernelOK(n) /\ Advanced(m, n) /\ n.cur \in ReadyTasks(n) /\ n.locks = 0
        /\ ReadyTasks(n) = ReadyTasks(m) /\ SameClock(m, n) /\ SameEvents(m, n)
    BY <2>1, SwitchStep
  <2> HIDE DEF r, m, n
  <2>4. /\ KernelOK(k') /\ Advanced(k, k') /\ k'.locks = 0 /\ k'.pended = 0 /\ k'.pending = <<>>
        /\ NowOf(k') = NowOf(k) + 1
        /\ k'.cur \in ReadyTasks(k') \/ (k'.cur = k.cur /\ ReadyTasks(k) \subseteq ReadyTasks(k'))
    <3>1. CASE r.switch
      <4>1. k' = n
        BY <1>1, <3>1 DEF m, n
      <4>2. NowOf(n) = NowOf(m)
        BY <2>3 DEF NowOf, SameClock
      <4> QED
        BY <2>1, <2>2, <2>3, <4>1, <4>2, AdvancedThen DEF SameClock, SameEvents
    <3>2. CASE ~r.switch
      <4>1. k' = m
        BY <1>1, <3>2 DEF m
      <4> QED
        BY <2>1, <2>2, <4>1
    <3> QED
      BY <3>1, <3>2
  <2>5. CpuGood(k', q', pc[k'.cur])
    <3>1. \A u \in Task : pc[u] \notin Locking
      BY <2>0 DEF Base, CpuOK
    <3>2. Unlocked(k', q')
      BY <1>1, <1>2, <2>0, <2>4 DEF CpuGood, Locking, TxLocking, RxLocking, Unlocked
    <3>3. k'.cur \in Task /\ (k'.cur \in ReadyTasks(k') \/ pc[k'.cur] \in Leaving)
      BY <1>2, <2>4, KernelParts DEF CpuGood
    <3> QED
      BY <3>1, <3>2, <3>3, CpuFree
  <2>6. Base'
    BY <1>1, <1>2, <2>0, <2>4, <2>5, IsrFrame
  <2> QED
    BY <1>1, <1>3, <2>0, <2>4, <2>6
<1>5. CASE k.locks # 0
  <2>0. k.pended = 0 /\ k.locks \in Nat
    BY <1>1, <1>2, <1>5, KernelParts
  <2>1. PICK one \in Nat : one = 1
    OBVIOUS
  <2>2. k' = WithCounts(k, one, k.locks)
    <3>1. r = [k |-> [k EXCEPT !.pended = one], switch |-> FALSE]
      BY <1>5, <2>0, <2>1 DEF xTaskIncrementTick
    <3>2. k' = [k EXCEPT !.pended = one]
      BY <1>1, <3>1
    <3> QED
      BY <1>2, <3>2 DEF WithCounts, Kernel
  <2>3. /\ KernelOK(k') /\ Advanced(k, k') /\ k'.cur = k.cur /\ k'.locks = k.locks /\ k'.pended = one
        /\ ReadyTasks(k') = ReadyTasks(k) /\ SameEvents(k, k') /\ NowOf(k') = NowOf(k)
    <3>1. PICK l \in Nat : l = k.locks
      BY <2>0
    <3>2. LET m == WithCounts(k, one, l) IN
          /\ KernelOK(m) /\ Advanced(k, m) /\ m.cur = k.cur /\ m.locks = l /\ m.pended = one
          /\ ReadyTasks(m) = ReadyTasks(k) /\ SameEvents(k, m) /\ NowOf(m) = NowOf(k) /\ Away(m) = Away(k)
      BY <1>2, CountsStep
    <3> QED
      BY <2>2, <3>1, <3>2
  <2>4. CpuGood(k', q', pc[k'.cur])
    BY <1>1, <1>2, <1>5, <2>3 DEF CpuGood, SameEvents
  <2>5. Base'
    BY <1>1, <1>2, <2>3, <2>4, IsrFrame
  <2> QED
    BY <1>1, <1>3, <2>0, <2>1, <2>3, <2>5
<1> QED
  BY <1>4, <1>5

\* Stuttering.
LEMMA Stutter ==
    ASSUME Base, UNCHANGED vars
    PROVE  Base'
<1>1. UNCHANGED <<k, q, pc, op>>
  BY DEF vars
<1>2. UNCHANGED <<pc[k.cur], pc[Idle]>>
  BY <1>1
<1>3. Typed' /\ RingOK(q') /\ (\A t \in Task : CallOK(t)') /\ KernelOK(k') /\ (\A t \in Task : TaskOK(t)')
  BY <1>1 DEF Base, Typed, CallOK, TaskOK
<1>4. CpuOK'
  BY <1>1, <1>2 DEF Base, CpuOK
<1> QED
  BY <1>3, <1>4 DEF Base

\* Every step keeps the first part of the invariant.
LEMMA BaseStep ==
    ASSUME Base, [Next]_vars
    PROVE  Base'
<1>1. ASSUME NEW t \in Task, Call(t) PROVE Base'
  BY <1>1, CallStep
<1>2. ASSUME NEW t \in Task, Continue(t) PROVE Base'
  BY <1>2, SucceedStep, EndStep, PrepareStep, SuspendAllStep, LockStep, CheckStep, LookStep, PlacedStep,
     UnlockTxStep, UnlockRxStep, ResumeAllStep, YieldedStep DEF Continue
<1>3. CASE IdleLoop
  BY <1>3, IdleStep
<1>4. CASE Isr
  BY <1>4, IsrStep DEF IsrSent, IsrReceived
<1>5. CASE vTickISR
  BY <1>5, TickISRStep
<1>6. CASE UNCHANGED vars
  BY <1>6, Stutter
<1> QED
  BY <1>1, <1>2, <1>3, <1>4, <1>5, <1>6 DEF Next

-----------------------------------------------------------------------------
(* The initial state.                                                      *)

\* The tasks in the order of their creation.
LEMMA CreationOrder ==
    LET s == SetToSeq(User) \o <<Idle>> IN
    /\ s \in Seq(Task) /\ Len(s) = Cardinality(Task) /\ IsInjective(s) /\ ToSet(s) = Task
<1> DEFINE f == SetToSeq(User)
           n == Cardinality(User)
           s == f \o <<Idle>>
<1>1. IsFiniteSet(User) /\ IsFiniteSet(Task) /\ Idle \in Task /\ User = Task \ {Idle}
  BY QueueAssumption, TasksAssumption, FS_RemoveElement DEF User
<1>2. n \in Nat /\ ExistsBijection(1..n, User) /\ Cardinality(Task) \in Nat /\ n = Cardinality(Task) - 1
  BY <1>1, FS_CardinalityType, FS_RemoveElement
<1> HIDE DEF n
<1>3. f \in [1..n -> User] /\ IsInjective(f)
  <2>1. \E g \in [1..n -> User] : IsInjective(g)
    BY <1>2 DEF ExistsBijection, Bijection, Injection
  <2> QED
    BY <2>1 DEF SetToSeq, n
<1> HIDE DEF f
<1>4. f \in Surjection(1..n, User)
  <2>1. f \in Injection(1..n, User)
    BY <1>3 DEF Injection
  <2>2. Cardinality(1..n) = n
    <3>1. PICK one \in Int : one = 1
      OBVIOUS
    <3>2. PICK h \in Int : h = n
      BY <1>2
    <3>3. Cardinality(one..h) = IF one > h THEN 0 ELSE h - one + 1
      BY FS_Interval
    <3> QED
      BY <1>2, <3>1, <3>2, <3>3
  <2> QED
    BY <1>1, <2>1, <2>2, FS_Injection DEF n
<1>5. \A t \in User : \E i \in 1..n : f[i] = t
  BY <1>4 DEF Surjection
<1>6. f \in Seq(Task) /\ Len(f) = n
  BY <1>1, <1>2, <1>3
<1>7. s = Append(f, Idle)
  BY <1>1, <1>6
<1>8. ToSet(f) = User
  <2>1. ToSet(f) = {f[i] : i \in 1..n}
    BY <1>3 DEF ToSet
  <2> QED
    BY <1>3, <1>5, <2>1
<1> HIDE DEF s
<1>9. s \in Seq(Task) /\ Len(s) = n + 1 /\ IsInjective(s) /\ ToSet(s) = User \cup {Idle}
  BY <1>1, <1>3, <1>6, <1>7, <1>8, AppendItems
<1>10. s \in Seq(Task) /\ Len(s) = Cardinality(Task) /\ IsInjective(s) /\ ToSet(s) = Task
  BY <1>1, <1>2, <1>9
<1> QED
  BY <1>10 DEF s, f

\* The kernel after i tasks have been created: those are ready, the others
\* are still to come.
CreateInv(c, i, r) ==
    /\ r.k \in Kernel /\ Apart(r.k) /\ Timed(r.k) /\ Hung(r.k) = r.k.live /\ ReadyTasks(r.k) = r.k.live
    /\ r.k.delayed = <<>> /\ r.k.overflow = <<>> /\ r.k.pending = <<>>
    /\ \A l \in EventList : r.k.event[l] = <<>>
    /\ r.k.tick = 0 /\ r.k.overflows = 0 /\ r.k.pended = 0 /\ r.k.locks = 0
    /\ \A t \in r.k.live : r.k.prio[t] = InitialPrio[t]
    /\ r.k.cur \in Task \/ (r.k.cur = NULL /\ i = 0)
    /\ r.todo \in Seq(Task) /\ IsInjective(r.todo) /\ Len(r.todo) = Cardinality(Task) - i
    /\ ToSet(r.todo) = Task \ r.k.live

Creating == INSTANCE LoopProofs WITH Op <- CreateNext, Inv <- CreateInv

\* The loop that creates the tasks.
LEMMA CreateLoop ==
    ASSUME NEW c, NEW n \in Nat, NEW a, CreateInv(c, 0, a),
           \A i \in 0..(n - 1) : \A b : CreateInv(c, i, b) => CreateInv(c, i + 1, CreateNext(b))
    PROVE  CreateInv(c, n, Iterate(CreateNext, n, a))
BY Creating!LoopInvariant DEF Iterate, Creating!Iterate

\* A task is added to those that are ready.
LEMMA AddTask ==
    ASSUME NEW a \in Kernel, Apart(a), Timed(a), NEW t \in Task, t \notin Hung(a), NEW p \in Priority,
           a.cur = NULL \/ a.cur \in Task
    PROVE  LET m == prvAddNewTaskToReadyList(a, t, p) IN
           /\ m \in Kernel /\ Apart(m) /\ Timed(m) /\ Others(a, m, {t}) /\ SameClock(a, m)
           /\ m.cur \in {t, a.cur} /\ m.locks = a.locks /\ m.live = a.live \cup {t} /\ m.prio[t] = p
           /\ SameEvents(a, m) /\ ReadyTasks(m) = ReadyTasks(a) \cup {t} /\ Hung(m) = Hung(a) \cup {t}
           /\ m.delayed = a.delayed /\ m.overflow = a.overflow /\ (a.cur = NULL => m.cur = t)
<1> DEFINE m == prvAddNewTaskToReadyList(a, t, p)
           first == a.cur = NULL
           takesOver == ~first /\ ~a.running /\ a.prio[a.cur] <= p
<1>1. /\ m \in Kernel /\ Apart(m) /\ Timed(m) /\ Others(a, m, {t}) /\ SameClock(a, m)
      /\ m.cur = (IF first \/ takesOver THEN t ELSE a.cur)
      /\ m.locks = a.locks /\ m.running = a.running /\ m.yield = a.yield
      /\ m.live = a.live \cup {t} /\ m.gone = a.gone /\ m.prio[t] = p
      /\ m.asleep = a.asleep /\ m.notify = a.notify /\ SameEvents(a, m)
      /\ ReadyTasks(m) = ReadyTasks(a) \cup {t} /\ Hung(m) = Hung(a) \cup {t}
      /\ m.delayed = a.delayed /\ m.overflow = a.overflow
      /\ (TopOK(a) => TopOK(m))
  BY AddNew
<1> HIDE DEF m, takesOver
<1> QED
  BY <1>1 DEF m

\* One task is created.
LEMMA CreateRound ==
    ASSUME NEW c, NEW i \in 0..(Cardinality(Task) - 1), NEW r, CreateInv(c, i, r)
    PROVE  CreateInv(c, i + 1, CreateNext(r))
<1>a. PICK a : a = r.k
  OBVIOUS
<1>b. PICK t : t = Head(r.todo)
  OBVIOUS
<1>c. PICK p : p = InitialPrio[t]
  OBVIOUS
<1> DEFINE m == prvAddNewTaskToReadyList(a, t, p)
           b == CreateNext(r)
<1>0. Cardinality(Task) \in Nat
  BY QueueAssumption, FS_CardinalityType
<1>1. /\ a \in Kernel /\ Apart(a) /\ Timed(a) /\ Hung(a) = a.live /\ ReadyTasks(a) = a.live
      /\ a.delayed = <<>> /\ a.overflow = <<>> /\ a.pending = <<>>
      /\ \A l \in EventList : a.event[l] = <<>>
      /\ a.tick = 0 /\ a.overflows = 0 /\ a.pended = 0 /\ a.locks = 0
      /\ \A u \in a.live : a.prio[u] = InitialPrio[u]
      /\ a.cur \in Task \/ a.cur = NULL
  BY <1>a DEF CreateInv
<1>2. /\ r.todo \in Seq(Task) /\ IsInjective(r.todo) /\ Len(r.todo) = Cardinality(Task) - i
      /\ ToSet(r.todo) = Task \ a.live
  BY <1>a DEF CreateInv
<1>3. r.todo # <<>>
  BY <1>0, <1>2
<1>4. t \in ToSet(r.todo)
  BY <1>2, <1>3, <1>b, HeadTailProperties DEF ToSet
<1>5. /\ Tail(r.todo) \in Seq(Task) /\ IsInjective(Tail(r.todo)) /\ Len(Tail(r.todo)) = Len(r.todo) - 1
      /\ ToSet(Tail(r.todo)) = ToSet(r.todo) \ {t}
  BY <1>2, <1>3, <1>b, TailItems
<1>6. t \in Task /\ t \notin Hung(a) /\ p \in Priority
  BY <1>1, <1>2, <1>4, <1>c, QueueAssumption
<1>7. b.k = m /\ b.todo = Tail(r.todo)
  BY <1>a, <1>b, <1>c DEF CreateNext
<1>8. /\ m \in Kernel /\ Apart(m) /\ Timed(m) /\ Others(a, m, {t}) /\ SameClock(a, m)
      /\ m.cur \in {t, a.cur} /\ m.locks = a.locks /\ m.live = a.live \cup {t} /\ m.prio[t] = p
      /\ SameEvents(a, m) /\ ReadyTasks(m) = ReadyTasks(a) \cup {t} /\ Hung(m) = Hung(a) \cup {t}
      /\ m.delayed = a.delayed /\ m.overflow = a.overflow /\ (a.cur = NULL => m.cur = t)
  BY <1>1, <1>6, AddTask, ZenonT(60)
<1> HIDE DEF m, b
<1>9. \A u \in m.live : m.prio[u] = InitialPrio[u]
  <2> SUFFICES ASSUME NEW u \in m.live, u # t PROVE m.prio[u] = InitialPrio[u]
    BY <1>8, <1>c
  <2>1. u \in a.live /\ u \in Task
    BY <1>1, <1>8, KernelFields
  <2> QED
    BY <1>1, <1>8, <2>1 DEF Others, Same
<1>10. m.cur \in Task
  BY <1>1, <1>6, <1>8
<1>11. Hung(m) = m.live /\ ReadyTasks(m) = m.live /\ ToSet(b.todo) = Task \ m.live
  BY <1>1, <1>2, <1>5, <1>7, <1>8
<1>12. m.tick = 0 /\ m.overflows = 0 /\ m.pended = 0 /\ m.locks = 0 /\ m.pending = <<>>
       /\ (\A l \in EventList : m.event[l] = <<>>) /\ m.delayed = <<>> /\ m.overflow = <<>>
  BY <1>1, <1>8 DEF SameClock, SameEvents
<1>13. Len(b.todo) = Cardinality(Task) - (i + 1)
  BY <1>0, <1>2, <1>5, <1>7
<1> QED
  BY <1>5, <1>7, <1>8, <1>9, <1>10, <1>11, <1>12, <1>13 DEF CreateInv, b

\* The kernel when the scheduler starts.
LEMMA InitKernel ==
    ASSUME Init
    PROVE  /\ KernelOK(k) /\ ReadyTasks(k) = Task /\ Away(k) = {} /\ k.pending = <<>>
           /\ \A l \in EventList : k.event[l] = <<>>
           /\ k.locks = 0 /\ k.pended = 0 /\ NowOf(k) = 0
<1> DEFINE s == SetToSeq(User) \o <<Idle>>
           n == Cardinality(Task)
           c == [k |-> prvInitialiseTaskLists, todo |-> s]
           r == Iterate(CreateNext, n, c)
           b == r.k
<1>0. n \in Nat
  BY QueueAssumption, FS_CardinalityType
<1>1. k = [b EXCEPT !.running = TRUE, !.next = portMAX_DELAY]
  BY DEF Init
<1>2. s \in Seq(Task) /\ Len(s) = n /\ IsInjective(s) /\ ToSet(s) = Task
  BY CreationOrder
<1> HIDE DEF s, n
<1>3. CreateInv(c, 0, c)
  <2> DEFINE a == prvInitialiseTaskLists
  <2>1. /\ a \in Kernel /\ Apart(a) /\ Timed(a) /\ Hung(a) = {} /\ ReadyTasks(a) = {} /\ a.pending = <<>>
        /\ \A l \in EventList : a.event[l] = <<>>
    BY Initial
  <2>2. /\ a.live = {} /\ a.delayed = <<>> /\ a.overflow = <<>> /\ a.cur = NULL
        /\ a.tick = 0 /\ a.overflows = 0 /\ a.pended = 0 /\ a.locks = 0
    BY DEF prvInitialiseTaskLists
  <2>3. c.k = a /\ c.todo = s
    OBVIOUS
  <2> HIDE DEF a, c
  <2>4. Len(c.todo) = Cardinality(Task) - 0 /\ ToSet(c.todo) = Task \ {}
    BY <1>0, <1>2, <2>3 DEF n
  <2> QED
    BY <1>2, <2>1, <2>2, <2>3, <2>4 DEF CreateInv
<1>4. \A i \in 0..(n - 1) : \A x : CreateInv(c, i, x) => CreateInv(c, i + 1, CreateNext(x))
  BY CreateRound DEF n
<1>5. CreateInv(c, n, r)
  <2> HIDE DEF c
  <2> QED
    BY <1>0, <1>3, <1>4, CreateLoop
<1> HIDE DEF r, c
<1>6. /\ b \in Kernel /\ Apart(b) /\ Hung(b) = b.live /\ ReadyTasks(b) = b.live
      /\ b.delayed = <<>> /\ b.overflow = <<>> /\ b.pending = <<>>
      /\ \A l \in EventList : b.event[l] = <<>>
      /\ b.tick = 0 /\ b.overflows = 0 /\ b.pended = 0 /\ b.locks = 0
      /\ \A u \in b.live : b.prio[u] = InitialPrio[u]
      /\ b.cur \in Task \/ (b.cur = NULL /\ n = 0)
      /\ r.todo \in Seq(Task) /\ Len(r.todo) = n - n /\ ToSet(r.todo) = Task \ b.live
  BY <1>5 DEF CreateInv, n
<1> HIDE DEF b
<1>7. b.live = Task
  <2>1. r.todo = <<>>
    BY <1>0, <1>6
  <2>2. ToSet(r.todo) = {}
    BY <2>1 DEF ToSet
  <2>3. b.live \in SUBSET Task
    BY <1>6, KernelFields
  <2> QED
    BY <1>6, <2>2, <2>3
<1>8. b.cur \in Task
  <2>1. n # 0
    BY QueueAssumption, TasksAssumption, FS_EmptySet DEF n
  <2> QED
    BY <1>6, <2>1
<1>9. b.prio = InitialPrio
  BY <1>6, <1>7, KernelFields, QueueAssumption
<1>10. k = [b EXCEPT !.next = portMAX_DELAY, !.running = TRUE, !.tick = 0]
  BY <1>1, <1>6 DEF Kernel
<1>11. /\ k \in Kernel /\ Apart(k) /\ Timed(k) /\ ReadyTasks(k) = ReadyTasks(b) /\ Hung(k) = Hung(b)
       /\ SameTasks(b, k) /\ SameEvents(b, k) /\ Others(b, k, {})
       /\ k.cur = b.cur /\ k.locks = b.locks /\ k.pended = b.pended
  BY <1>6, <1>10, Start, ZenonT(60)
<1>12. k.overflows = 0 /\ k.tick = 0
  BY <1>6, <1>10 DEF Kernel
<1>13. Away(k) = {}
  <2>1. \A u \in Task : u \in ReadyTasks(k)
    BY <1>6, <1>7, <1>11
  <2>2. \A u \in Away(k) : u \in Task
    <3>1. Away(k) \subseteq Hung(k)
      BY DEF Away, Hung
    <3> QED
      BY <1>6, <1>7, <1>11, <3>1
  <2> QED
    BY <1>11, <2>1, <2>2 DEF Apart, Away, Blocked
<1>14. IdleReady(k)
  BY <1>6, <1>7, <1>9, <1>11, QueueAssumption, TasksAssumption DEF IdleReady, SameTasks
<1>15. \A l \in EventList : k.event[l] = <<>> /\ Sorted(k.event[l], ItemValue)
  BY <1>6, <1>11 DEF SameEvents, Sorted
<1>16. KernelOK(k)
  BY <1>7, <1>8, <1>9, <1>11, <1>14, <1>15 DEF KernelOK, SameTasks
<1>17. NowOf(k) = 0
  BY <1>12, TicksAssumption DEF NowOf
<1> QED
  BY <1>6, <1>7, <1>11, <1>13, <1>15, <1>16, <1>17 DEF SameEvents

\* The queue when it is created.
LEMMA InitQueue ==
    ASSUME Init
    PROVE  /\ q \in Queue_t /\ RingOK(q) /\ q.waiting = 0
           /\ q.txLock = queueUNLOCKED /\ q.rxLock = queueUNLOCKED
<1>1. PICK u \in Uses : q = xQueueGenericReset(u)
  BY DEF Init
<1>2. PICK n \in Nat \ {0} : n = u.uxLength
  BY QueueAssumption
<1>3. PICK z \in Int : z = queueUNLOCKED
  BY DEF queueUNLOCKED
<1>4. /\ q.use = u /\ q.slots = [i \in 0..(n - 1) |-> NULL] /\ q.writeTo = 0 /\ q.readFrom = n - 1
      /\ q.waiting = 0 /\ q.rxLock = z /\ q.txLock = z
  BY <1>1, <1>2, <1>3 DEF xQueueGenericReset
<1>5. q.slots \in [0..(n - 1) -> Cell] /\ q.slots \in Slots
  <2>1. q.slots \in [0..(n - 1) -> Cell]
    BY <1>4 DEF Cell
  <2> QED
    BY <1>2, <2>1 DEF Slots
<1>6. q \in Queue_t
  <2>1. q = [use |-> u, slots |-> q.slots, writeTo |-> 0, readFrom |-> n - 1, waiting |-> 0,
             rxLock |-> z, txLock |-> z]
    BY <1>1, <1>2, <1>3 DEF xQueueGenericReset
  <2>2. n - 1 \in Nat
    BY <1>2
  <2> QED
    BY <1>5, <2>1, <2>2 DEF Queue_t
<1>7. RingOK(q)
  <2>1. n % n = 0
    BY <1>2, Z3
  <2>2. /\ q.use.uxLength = n /\ q.writeTo \in 0..(n - 1) /\ q.readFrom \in 0..(n - 1) /\ q.waiting \in 0..n
        /\ q.readFrom + q.waiting + 1 = n
    BY <1>2, <1>4
  <2>3. q.writeTo = (q.readFrom + q.waiting + 1) % n
    BY <1>4, <2>1, <2>2
  <2> QED
    BY <1>5, <2>2, <2>3 DEF RingOK
<1> QED
  BY <1>3, <1>4, <1>6, <1>7

\* The invariant holds when the scheduler starts.
LEMMA BaseInit ==
    ASSUME Init
    PROVE  Base
<1>1. /\ KernelOK(k) /\ ReadyTasks(k) = Task /\ Away(k) = {} /\ k.pending = <<>>
      /\ \A l \in EventList : k.event[l] = <<>>
      /\ k.locks = 0 /\ k.pended = 0 /\ NowOf(k) = 0
  BY InitKernel
<1>2. /\ q \in Queue_t /\ RingOK(q)
      /\ q.txLock = queueUNLOCKED /\ q.rxLock = queueUNLOCKED
  BY InitQueue
<1>3. pc = [t \in Task |-> "run"] /\ op = [t \in Task |-> NoOp]
  BY DEF Init
<1>4. Typed
  BY <1>2, <1>3, NoCall DEF Typed, Label
<1>5. ASSUME NEW t \in Task PROVE CallOK(t) /\ TaskOK(t)
  <2>1. pc[t] = "run" /\ op[t] = NoOp
    BY <1>3
  <2>2. ToSet(k.pending) = {} /\ \A l \in EventList : ToSet(k.event[l]) = {}
    BY <1>1 DEF ToSet
  <2> QED
    BY <1>1, <2>1, <2>2 DEF CallOK, CallGood, TaskOK, TaskGood
<1>6. CpuOK
  <2>1. k.cur \in Task /\ k.cur \in ReadyTasks(k)
    BY <1>1, KernelParts
  <2>2. pc[k.cur] = "run" /\ pc[Idle] = "run" /\ \A t \in Task : pc[t] = "run"
    BY <1>3, <2>1, TasksAssumption
  <2>3. CpuGood(k, q, pc[k.cur])
    BY <1>1, <1>2, <2>1, <2>2, CpuFree DEF Unlocked, Locking
  <2> QED
    BY <2>2, <2>3 DEF CpuOK, Locking
<1> QED
  BY <1>1, <1>2, <1>4, <1>5, <1>6 DEF Base

-----------------------------------------------------------------------------
(* The contents, and who waits.                                            *)

\* Every step is a step of module QueueSpec, or leaves the contents alone.
LEMMA MovesStep ==
    ASSUME Base, [Next]_vars
    PROVE  q'.use = q.use /\ Moves(ContentsOf(q), ContentsOf(q'), uxLength)
<1>1. CASE UNCHANGED q
  BY <1>1 DEF Moves
<1>2. ASSUME NEW t \in Task, Succeed(t)
      PROVE  q'.use = q.use /\ Moves(ContentsOf(q), ContentsOf(q'), uxLength)
  BY <1>2, SucceedStep DEF Transferred
<1>3. CASE \E t \in Task : Lock(t) \/ UnlockTx(t) \/ UnlockRx(t)
  BY <1>3, LockStep, UnlockTxStep, UnlockRxStep DEF Moves
<1>4. CASE Isr
  <2>1. IsrSent \/ IsrReceived
    BY <1>4, IsrStep
  <2> QED
    BY <2>1 DEF IsrSent, IsrReceived
<1>5. ASSUME NEW t \in Task, Call(t) PROVE UNCHANGED q
  BY <1>5, CallBegins DEF Begins
<1>6. ASSUME NEW t \in Task, \/ FailAtOnce(t) \/ PrepareToBlock(t) \/ SuspendAll(t) \/ CheckForTimeOut(t)
                             \/ CheckAgain(t) \/ Place(t) \/ ResumeAll(t) \/ Yield(t) \/ GiveUp(t) \/ LookAgain(t)
      PROVE  UNCHANGED q
  BY <1>6 DEF FailAtOnce, PrepareToBlock, SuspendAll, CheckForTimeOut, CheckAgain, Place, ResumeAll, Yield,
              GiveUp, LookAgain
<1>7. CASE IdleLoop \/ vTickISR \/ UNCHANGED vars
  BY <1>1, <1>7 DEF IdleLoop, vTickISR, vars
<1> QED
  BY <1>1, <1>2, <1>3, <1>4, <1>5, <1>6, <1>7 DEF Next, Continue

\* The first part of the invariant.
THEOREM BaseInvariance == Spec => []Base
<1>1. Init => Base
  BY BaseInit
<1>2. Base /\ [Next]_vars => Base'
  BY BaseStep
<1> QED
  BY <1>1, <1>2, PTL DEF Spec

\* A task in an event list is blocked (WaitersAreBlocked): a waiter that a
\* timeout or a sender has readied is in the list no more.
THEOREM WaitersSafe == Spec => []WaitersAreBlocked
<1>1. Base => WaitersAreBlocked
  <2> SUFFICES ASSUME Base PROVE WaitersAreBlocked
    OBVIOUS
  <2>1. Waiters(k)
    BY WaitersOK
  <2> QED
    BY <2>1 DEF Waiters, WaitersAreBlocked, Waiting, Away
<1> QED
  BY <1>1, BaseInvariance, PTL

\* The event lists are in the order of the priorities (HighestPriorityFirst),
\* which vTaskPlaceOnEventList keeps and every removal leaves alone.
THEOREM PriorityOrder == Spec => []HighestPriorityFirst
<1>1. Base => HighestPriorityFirst
  <2> SUFFICES ASSUME Base, NEW l \in EventList, NEW i \in DOMAIN k.event[l], NEW j \in DOMAIN k.event[l], i < j
               PROVE  k.prio[k.event[l][i]] >= k.prio[k.event[l][j]]
    BY DEF HighestPriorityFirst
  <2> DEFINE s == k.event[l]
  <2>1. /\ s \in TaskList /\ Sorted(s, ItemValue) /\ k.prio = InitialPrio
    BY KernelParts DEF Base
  <2> HIDE DEF s
  <2>2. s \in Seq(Task) /\ i \in 1..Len(s) /\ j \in 1..Len(s) /\ s[i] \in Task /\ s[j] \in Task
    BY <2>1 DEF TaskList, s
  <2>3. ItemValue[s[i]] <= ItemValue[s[j]]
    BY <2>1, <2>2 DEF Sorted
  <2>4. InitialPrio[s[i]] \in Int /\ InitialPrio[s[j]] \in Int /\ configMAX_PRIORITIES \in Int
    BY <2>2, QueueAssumption, TasksAssumption DEF Priority
  <2>5. InitialPrio[s[i]] >= InitialPrio[s[j]]
    BY <2>2, <2>3, <2>4 DEF ItemValue
  <2> QED
    BY <2>1, <2>5 DEF s
<1> QED
  BY <1>1, BaseInvariance, PTL

\* The queue implements module QueueSpec (ImplementsQueue): every transfer of
\* a task or an ISR is one step of a bounded sequence, and nothing else
\* touches the items.
THEOREM QueueImplemented == Spec => ImplementsQueue
<1>1. Init => Abstract!Init
  <2> SUFFICES ASSUME Init PROVE Abstract!Init
    OBVIOUS
  <2>1. q \in Queue_t /\ q.waiting = 0
    BY InitQueue
  <2>2. uxLength \in Nat \ {0}
    BY <2>1, UseOfQueue
  <2>3. Contents = <<>>
    BY <2>1 DEF Contents
  <2> QED
    BY <2>2, <2>3 DEF Abstract!Init
<1>2. Base /\ [Next]_vars => [Abstract!Next]_<<Contents, uxLength>>
  <2> SUFFICES ASSUME Base, [Next]_vars PROVE [Abstract!Next]_<<Contents, uxLength>>
    OBVIOUS
  <2>1. q'.use = q.use /\ Moves(ContentsOf(q), ContentsOf(q'), uxLength)
    BY MovesStep
  <2>2. Contents = ContentsOf(q) /\ Contents' = ContentsOf(q') /\ uxLength' = uxLength
    BY <2>1 DEF Contents, ContentsOf, uxLength
  <2>3. Item \cup {NULL} = Cell
    BY DEF Cell
  <2> HIDE DEF Contents
  <2> QED
    BY <2>1, <2>2, <2>3 DEF Moves, Abstract!Next, Abstract!Step, Abstract!SendToBack, Abstract!SendToFront,
                            Abstract!Overwrite, Abstract!Receive
<1> QED
  BY <1>1, <1>2, BaseInvariance, PTL DEF Spec, ImplementsQueue, Abstract!Spec

-----------------------------------------------------------------------------
(* The time a call has waited.                                             *)

\* The time a call noted is a number.
LEMMA NotedIsNat ==
    ASSUME NEW o \in Call_t
    PROVE  /\ Noted(o) \in Nat /\ o.ticks \in Nat /\ o.asked \in Nat /\ o.start \in Nat
           /\ o.overflows \in Nat /\ o.at \in Tick /\ o.ticks \in Tick /\ o.asked \in Tick
<1>1. /\ o.ticks \in Tick /\ o.asked \in Tick /\ o.start \in Nat /\ o.overflows \in OverflowCount
      /\ o.at \in Tick
  BY DEF Call_t
<1>2. o.overflows \in Nat /\ o.at \in Nat /\ o.ticks \in Nat /\ o.asked \in Nat /\ TickMod \in Nat
  BY <1>1, TicksAssumption, TasksAssumption DEF OverflowCount, Tick
<1>3. PICK n \in Nat, y \in Nat, x \in Nat : n = TickMod /\ y = o.overflows /\ x = o.at
  BY <1>2
<1>4. y * n + x \in Nat
  BY <1>3
<1> QED
  BY <1>1, <1>2, <1>3, <1>4 DEF Noted

\* The ticks xTaskCheckForTimeOut counts have really passed, also when the
\* tick counter has wrapped once or more since the time was noted.
LEMMA Passed ==
    ASSUME NEW p \in Nat, NEW x \in Tick, NEW o \in Nat, NEW y \in Tick,
           p * TickMod + x <= o * TickMod + y
    PROVE  /\ xElapsedTime(y, x) \in Nat
           /\ p * TickMod + x + xElapsedTime(y, x) <= o * TickMod + y
           /\ (o # p /\ y >= x) => p * TickMod + x + TickMod <= o * TickMod + y
<1>1. TickMod \in Nat \ {0} /\ x \in 0..(TickMod - 1) /\ y \in 0..(TickMod - 1)
  BY TicksAssumption DEF Tick
<1>2. PICK e : e = xElapsedTime(y, x)
  OBVIOUS
<1>3. e = IF y >= x THEN y - x ELSE y - x + TickMod
  BY <1>2, ElapsedTime
<1>4. PICK n \in Nat \ {0} : n = TickMod
  BY <1>1
<1>5. PICK d \in Int : d = o - p
  OBVIOUS
<1>6. o * n = p * n + d * n
  BY <1>4, <1>5, Z3
<1>7. d <= 0 - 1 => d * n <= 0 - n
  BY <1>4, <1>5, Z3
<1>8. d >= 1 => d * n >= n
  BY <1>4, <1>5, Z3
<1>9. d = 0 => d * n = 0
  BY <1>4, <1>5, Z3
<1>10. PICK a \in Int, b \in Int, c \in Int : a = o * n /\ b = p * n /\ c = d * n
  BY <1>4, <1>5
<1>11. d >= 0
  BY <1>1, <1>4, <1>6, <1>7, <1>10
<1>12. e \in Nat /\ b + x + e <= a + y /\ (d # 0 /\ y >= x => b + x + n <= a + y)
  <2>1. CASE d = 0
    BY <2>1, <1>1, <1>3, <1>4, <1>6, <1>9, <1>10
  <2>2. CASE d >= 1
    BY <2>2, <1>1, <1>3, <1>4, <1>6, <1>8, <1>10
  <2> QED
    BY <2>1, <2>2, <1>5, <1>11
<1> QED
  BY <1>12, <1>10, <1>4, <1>2, <1>5

\* What holds of a call now holds of it later.
LEMMA TimeLater ==
    ASSUME NEW o \in Call_t, NEW label, NEW now \in Nat, NEW later \in Nat, now <= later,
           TimeGood(o, label, now)
    PROVE  TimeGood(o, label, later)
BY NotedIsNat DEF TimeGood

\* A step of task t leaves the other calls alone, and time goes on.
LEMMA TimeFrame ==
    ASSUME Base, Base', \A u \in Task : TimeOK(u), NEW t \in Task, NEW o, NEW label,
           op' = [op EXCEPT ![t] = o], pc' = [pc EXCEPT ![t] = label],
           NowOf(k) <= NowOf(k'), TimeGood(o, label, NowOf(k'))
    PROVE  \A u \in Task : TimeOK(u)'
<1>1. NowOf(k) \in Nat /\ NowOf(k') \in Nat
  BY NowIsNat DEF Base, KernelOK
<1>2. /\ pc \in [Task -> Label] /\ op \in [Task -> Call_t]
  BY DEF Base, Typed
<1> SUFFICES ASSUME NEW u \in Task PROVE TimeGood(op'[u], pc'[u], NowOf(k'))
  BY DEF TimeOK, NowOf
<1>3. CASE u = t
  BY <1>2, <1>3
<1>4. CASE u # t
  <2>1. op'[u] = op[u] /\ pc'[u] = pc[u] /\ op[u] \in Call_t /\ TimeGood(op[u], pc[u], NowOf(k))
    BY <1>2, <1>4 DEF TimeOK
  <2> QED
    BY <2>1, <1>1, TimeLater
<1> QED
  BY <1>3, <1>4

\* A step that changes no call.
LEMMA TimePasses ==
    ASSUME Base, Base', \A u \in Task : TimeOK(u), UNCHANGED <<pc, op>>, NowOf(k) <= NowOf(k')
    PROVE  \A u \in Task : TimeOK(u)'
<1>1. NowOf(k) \in Nat /\ NowOf(k') \in Nat
  BY NowIsNat DEF Base, KernelOK
<1> SUFFICES ASSUME NEW u \in Task PROVE TimeGood(op'[u], pc'[u], NowOf(k'))
  BY DEF TimeOK, NowOf
<1>2. op'[u] = op[u] /\ pc'[u] = pc[u] /\ op[u] \in Call_t /\ TimeGood(op[u], pc[u], NowOf(k))
  BY DEF TimeOK, Base, Typed
<1> QED
  BY <1>1, <1>2, TimeLater

\* The clock has not moved.
LEMMA ClockFrame ==
    ASSUME Base, ClockOK, NowOf(k') = NowOf(k), k'.pended = k.pended, q'.use = q.use
    PROVE  ClockOK' /\ NowOf(k) <= NowOf(k')
<1>1. NowOf(k) \in Nat
  BY NowIsNat DEF Base, KernelOK
<1> QED
  BY <1>1 DEF ClockOK, NowOf

Clocked == ClockOK /\ (\A t \in Task : TimeOK(t))

\* A step of task t in no time, after which its call is o at the label.
LEMMA TimedStep ==
    ASSUME Base, Base', Clocked, NEW t \in Task, NEW o, NEW label,
           op' = [op EXCEPT ![t] = o], pc' = [pc EXCEPT ![t] = label],
           NowOf(k') = NowOf(k), k'.pended = k.pended, q'.use = q.use,
           TimeGood(o, label, NowOf(k))
    PROVE  Clocked'
<1>1. ClockOK' /\ NowOf(k) <= NowOf(k')
  BY ClockFrame DEF Clocked
<1>2. \A u \in Task : TimeOK(u)'
  BY <1>1, TimeFrame DEF Clocked
<1> QED
  BY <1>1, <1>2 DEF Clocked

\* The same, when nothing but the label changes.
LEMMA TimedGoto ==
    ASSUME Base, Base', Clocked, NEW t \in Task, NEW label, UNCHANGED op, pc' = [pc EXCEPT ![t] = label],
           NowOf(k') = NowOf(k), k'.pended = k.pended, q'.use = q.use,
           TimeGood(op[t], pc[t], NowOf(k)) => TimeGood(op[t], label, NowOf(k))
    PROVE  Clocked'
<1>1. op' = [op EXCEPT ![t] = op[t]] /\ TimeGood(op[t], pc[t], NowOf(k))
  BY SameCall DEF Clocked, TimeOK
<1> QED
  BY <1>1, TimedStep

\* A call begins.
LEMMA CallTime ==
    ASSUME Base, Base', Clocked, NEW t \in Task, Call(t)
    PROVE  Clocked'
<1>1. PICK o : Begins(t, o)
  BY CallBegins
<1>2. NowOf(k) \in Nat /\ o \in Call_t
  BY <1>1, NowIsNat DEF Base, KernelOK, Begins
<1>3. TimeGood(o, "try", NowOf(k))
  BY <1>1, <1>2, NotedIsNat DEF TimeGood, Begins
<1>4. /\ op' = [op EXCEPT ![t] = o] /\ pc' = [pc EXCEPT ![t] = "try"] /\ k' = k /\ q' = q
  BY <1>1 DEF Begins, Goto
<1>5. NowOf(k') = NowOf(k) /\ k'.pended = k.pended /\ q'.use = q.use
  BY <1>4
<1> QED
  BY <1>3, <1>4, <1>5, TimedStep

\* A call ends.
LEMMA EndTime ==
    ASSUME Base, Base', Clocked, NEW t \in Task, Succeed(t) \/ FailAtOnce(t) \/ GiveUp(t)
    PROVE  Clocked'
<1>1. op' = [op EXCEPT ![t] = NoOp] /\ pc' = [pc EXCEPT ![t] = "run"]
  BY DEF Succeed, FailAtOnce, GiveUp, Return, Goto
<1>2. SameClock(k, k') /\ q'.use = q.use
  <2>1. CASE Succeed(t)
    BY <2>1, SucceedStep DEF Transferred
  <2>2. CASE FailAtOnce(t) \/ GiveUp(t)
    BY <2>2 DEF FailAtOnce, GiveUp, SameClock
  <2> QED
    BY <2>1, <2>2
<1>3. NowOf(k') = NowOf(k) /\ k'.pended = k.pended
  BY <1>2 DEF SameClock, NowOf
<1>4. TimeGood(NoOp, "run", NowOf(k))
  BY DEF TimeGood
<1> QED
  BY <1>1, <1>2, <1>3, <1>4, TimedStep

\* vTaskInternalSetTimeOutState, once in a call.
LEMMA PrepareTime ==
    ASSUME Base, Base', Clocked, NEW t \in Task, PrepareToBlock(t)
    PROVE  Clocked'
<1> DEFINE o == IF op[t].set THEN op[t]
                ELSE [op[t] EXCEPT !.set = TRUE, !.overflows = k.overflows, !.at = k.tick]
<1>1. /\ o \in Call_t /\ op' = [op EXCEPT ![t] = o] /\ o.set = TRUE /\ o.ticks = op[t].ticks
      /\ o.ticks > 0 /\ o.send = op[t].send /\ o.position = op[t].position /\ o.path = op[t].path
      /\ o.asked = op[t].asked /\ o.start = op[t].start
      /\ IF op[t].set THEN o = op[t] ELSE o.overflows = k.overflows /\ o.at = k.tick
      /\ At(t, "try") /\ Goto(t, "suspendAll") /\ UNCHANGED <<k, q>> /\ ~Possible(t)
  BY PrepareOp, ZenonT(60)
<1> HIDE DEF o
<1>2. NowOf(k) \in Nat /\ op[t] \in Call_t
  BY NowIsNat DEF Base, KernelOK, Typed
<1>3. TimeGood(op[t], "try", NowOf(k))
  BY <1>1 DEF Clocked, TimeOK, At
<1>4. op[t].path # "expired"
  BY <1>1, <1>3 DEF TimeGood
<1>5. CASE op[t].set
  <2>1. TimeGood(o, "suspendAll", NowOf(k))
    BY <1>1, <1>3, <1>4, <1>5 DEF TimeGood
  <2> QED
    BY <2>1, <1>1, TimedStep DEF Goto
<1>6. CASE ~op[t].set
  <2>1. Noted(o) = NowOf(k)
    BY <1>1, <1>6 DEF Noted, NowOf
  <2>2. TimeGood(o, "suspendAll", NowOf(k))
    BY <2>1, <1>1, <1>2, <1>3, <1>4, <1>6, NotedIsNat DEF TimeGood
  <2> QED
    BY <2>2, <1>1, TimedStep DEF Goto
<1> QED
  BY <1>5, <1>6, SMTT(30)

\* xTaskCheckForTimeOut: what it lets pass is not yet due, and what it lets
\* expire is.
LEMMA CheckTime ==
    ASSUME Base, Base', Clocked, NEW t \in Task, CheckForTimeOut(t)
    PROVE  Clocked'
<1>1. /\ UNCHANGED <<k, q>> /\ k.cur = t /\ pc[t] = "timeout"
      /\ \E o \in Call_t, expired \in BOOLEAN :
            /\ Renewed(op[t], o, expired) /\ op' = [op EXCEPT ![t] = o]
            /\ pc' = [pc EXCEPT ![t] = IF expired THEN "unlockTx" ELSE "isFull"]
  BY CheckStep
<1>2. PICK o \in Call_t, expired \in BOOLEAN :
            /\ Renewed(op[t], o, expired) /\ op' = [op EXCEPT ![t] = o]
            /\ pc' = [pc EXCEPT ![t] = IF expired THEN "unlockTx" ELSE "isFull"]
  BY <1>1
<1>3. /\ NowOf(k) \in Nat /\ op[t] \in Call_t /\ k.overflows \in Nat /\ k.tick \in Tick
      /\ TickMod \in Nat
  BY NowIsNat, TasksAssumption, TicksAssumption DEF Base, KernelOK, Typed, OverflowCount
<1>4. TimeGood(op[t], "timeout", NowOf(k))
  BY <1>1 DEF Clocked, TimeOK
<1>5. PICK m : m = op[t]
  OBVIOUS
<1>6. m \in Call_t /\ TimeGood(m, "timeout", NowOf(k)) /\ Renewed(m, o, expired)
  BY <1>2, <1>3, <1>4, <1>5
<1>7. /\ m.start <= NowOf(k) /\ m.path # "expired" /\ m.set
      /\ (m.asked = portMAX_DELAY <=> m.ticks = portMAX_DELAY)
      /\ Noted(m) <= NowOf(k) /\ Noted(m) + m.ticks >= m.start + m.asked
  BY <1>6 DEF TimeGood
<1>8. PICK e : e = xElapsedTime(k.tick, m.at)
  OBVIOUS
<1>9. /\ e \in Nat /\ Noted(m) + e <= NowOf(k)
      /\ (k.overflows # m.overflows /\ k.tick >= m.at) => Noted(m) + TickMod <= NowOf(k)
  BY <1>3, <1>6, <1>7, <1>8, Passed, NotedIsNat DEF Noted, NowOf
<1>10. /\ Noted(m) \in Nat /\ m.ticks \in Nat /\ m.asked \in Nat /\ m.start \in Nat
       /\ m.ticks < TickMod /\ m.asked < TickMod /\ o.ticks \in Nat /\ Noted(o) \in Nat
  BY <1>3, <1>6, NotedIsNat DEF Tick
<1>11. CASE expired
  <2>1. /\ o.path = "expired" /\ o.ticks = 0 /\ m.ticks # portMAX_DELAY /\ o.start = m.start
        /\ o.asked = m.asked /\ o.set = m.set
        /\ TimedOut(k.tick, k.overflows, m.at, m.overflows, m.ticks)
    BY <1>6, <1>11 DEF Renewed
  <2>2. NowOf(k) >= Noted(m) + m.ticks
    BY <2>1, <1>3, <1>8, <1>9, <1>10 DEF TimedOut
  <2>3. TimeGood(o, "unlockTx", NowOf(k))
    BY <2>1, <2>2, <1>3, <1>7, <1>10 DEF TimeGood, portMAX_DELAY
  <2> QED
    BY <2>3, <1>1, <1>2, <1>11, TimedStep
<1>12. CASE ~expired
  <2>1. /\ o.path = "retry" /\ o.ticks > 0 /\ o.start = m.start /\ o.asked = m.asked /\ o.set = m.set
        /\ \/ m.ticks = portMAX_DELAY /\ o.ticks = m.ticks /\ o.overflows = m.overflows /\ o.at = m.at
           \/ /\ m.ticks # portMAX_DELAY /\ o.ticks = m.ticks - e
              /\ o.overflows = k.overflows /\ o.at = k.tick
    BY <1>6, <1>8, <1>12 DEF Renewed
  <2>2. TimeGood(o, "isFull", NowOf(k))
    <3>1. CASE m.ticks = portMAX_DELAY
      <4>1. Noted(o) = Noted(m) /\ o.ticks = m.ticks
        BY <2>1, <3>1 DEF Noted
      <4> QED
        BY <4>1, <2>1, <3>1, <1>7 DEF TimeGood
    <3>2. CASE m.ticks # portMAX_DELAY
      <4>1. Noted(o) = NowOf(k) /\ o.ticks = m.ticks - e
        BY <2>1, <3>2 DEF Noted, NowOf
      <4>2. o.ticks # portMAX_DELAY /\ NowOf(k) + o.ticks >= m.start + m.asked
        BY <4>1, <3>2, <1>3, <1>7, <1>9, <1>10 DEF portMAX_DELAY
      <4> QED
        BY <4>1, <4>2, <2>1, <3>2, <1>3, <1>7 DEF TimeGood
    <3> QED
      BY <3>1, <3>2
  <2> QED
    BY <2>2, <1>1, <1>2, <1>12, TimedStep
<1> QED
  BY <1>11, <1>12

\* The steps that change nothing but the label.
LEMMA GotoTime ==
    ASSUME Base, Base', Clocked, NEW t \in Task,
           SuspendAll(t) \/ Lock(t) \/ CheckAgain(t) \/ LookAgain(t) \/ UnlockTx(t) \/ UnlockRx(t) \/ Yield(t)
    PROVE  Clocked'
<1>1. CASE SuspendAll(t)
  <2>1. KernelOK(k) /\ k.locks = 0
    BY <1>1, RunningTask DEF SuspendAll, At, CpuGood, Locking
  <2>2. PICK m : m = vTaskSuspendAll(k)
    OBVIOUS
  <2>3. NowOf(m) = NowOf(k) /\ m.pended = k.pended
    BY <2>1, <2>2, SuspendKernel
  <2>4. k' = m /\ q' = q /\ op' = op /\ pc[t] = "suspendAll" /\ pc' = [pc EXCEPT ![t] = "lock"]
    BY <1>1, <2>2 DEF SuspendAll, At, Goto
  <2>5. TimeGood(op[t], pc[t], NowOf(k)) => TimeGood(op[t], "lock", NowOf(k))
    BY <2>4 DEF TimeGood
  <2>6. NowOf(k') = NowOf(k) /\ k'.pended = k.pended /\ q'.use = q.use
    BY <2>3, <2>4
  <2> QED
    BY <2>4, <2>5, <2>6, TimedGoto
<1>2. CASE Lock(t)
  <2>1. k' = k /\ op' = op /\ pc[t] = "lock" /\ pc' = [pc EXCEPT ![t] = "timeout"] /\ q'.use = q.use
    BY <1>2, LockStep DEF Lock, At, Goto
  <2>2. TimeGood(op[t], pc[t], NowOf(k)) => TimeGood(op[t], "timeout", NowOf(k))
    BY <2>1 DEF TimeGood
  <2>3. NowOf(k') = NowOf(k) /\ k'.pended = k.pended
    BY <2>1
  <2> QED
    BY <2>1, <2>2, <2>3, TimedGoto
<1>3. CASE CheckAgain(t) \/ LookAgain(t)
  <2>1. PICK label : label = pc'[t]
    OBVIOUS
  <2>2. /\ k' = k /\ q' = q /\ op' = op /\ pc' = [pc EXCEPT ![t] = label]
        /\ \/ pc[t] = "isFull" /\ label \in {"unlockTx", "place"}
           \/ pc[t] = "giveUp" /\ label = "try"
    BY <1>3, <2>1 DEF CheckAgain, LookAgain, At, Goto, Base, Typed
  <2>3. TimeGood(op[t], pc[t], NowOf(k)) => TimeGood(op[t], label, NowOf(k))
    BY <2>2 DEF TimeGood
  <2>4. NowOf(k') = NowOf(k) /\ k'.pended = k.pended /\ q'.use = q.use
    BY <2>2
  <2> QED
    BY <2>2, <2>3, <2>4, TimedGoto
<1>4. CASE UnlockTx(t) \/ UnlockRx(t)
  <2>1. /\ \/ pc[t] = "unlockTx" /\ pc' = [pc EXCEPT ![t] = "unlockRx"]
           \/ pc[t] = "unlockRx" /\ pc' = [pc EXCEPT ![t] = "resumeAll"]
        /\ op' = op /\ q'.use = q.use /\ SameClock(k, k')
    BY <1>4, UnlockTxStep, UnlockRxStep DEF WakeInv
  <2>2. PICK label \in {"unlockRx", "resumeAll"} :
            /\ pc' = [pc EXCEPT ![t] = label] /\ pc[t] \in {"unlockTx", "unlockRx"}
    BY <2>1
  <2>3. TimeGood(op[t], pc[t], NowOf(k)) => TimeGood(op[t], label, NowOf(k))
    BY <2>2 DEF TimeGood
  <2>4. NowOf(k') = NowOf(k) /\ k'.pended = k.pended
    BY <2>1 DEF SameClock, NowOf
  <2> QED
    BY <2>1, <2>2, <2>3, <2>4, TimedGoto
<1>5. CASE Yield(t)
  <2>1. /\ NowOf(k') = NowOf(k) /\ k'.pended = k.pended /\ q' = q /\ op' = op
        /\ pc[t] = "yield" /\ pc' = [pc EXCEPT ![t] = "try"]
    BY <1>5, YieldedStep
  <2>2. TimeGood(op[t], pc[t], NowOf(k)) => TimeGood(op[t], "try", NowOf(k))
    BY <2>1 DEF TimeGood
  <2>3. q'.use = q.use
    BY <2>1
  <2> QED
    BY <2>1, <2>2, <2>3, TimedGoto
<1> QED
  BY <1>1, <1>2, <1>3, <1>4, <1>5

\* vTaskPlaceOnEventList.
LEMMA PlaceTime ==
    ASSUME Base, Base', Clocked, NEW t \in Task, Place(t)
    PROVE  Clocked'
<1>1. /\ pc[t] = "place" /\ UNCHANGED q /\ pc' = [pc EXCEPT ![t] = "unlockTx"]
      /\ op' = [op EXCEPT ![t] = [op[t] EXCEPT !.path = "blocked"]]
      /\ NowOf(k') = NowOf(k) /\ k'.pended = k.pended
  BY PlacedStep
<1>2. op[t] \in Call_t /\ TimeGood(op[t], "place", NowOf(k))
  BY <1>1 DEF Base, Typed, Clocked, TimeOK
<1>3. PICK o : o = [op[t] EXCEPT !.path = "blocked"]
  OBVIOUS
<1>4. /\ o.path = "blocked" /\ o.start = op[t].start /\ o.asked = op[t].asked /\ o.set = op[t].set
      /\ o.ticks = op[t].ticks /\ o.overflows = op[t].overflows /\ o.at = op[t].at
  BY <1>2, <1>3 DEF Call_t
<1>5. Noted(o) = Noted(op[t])
  BY <1>4 DEF Noted
<1>6. TimeGood(o, "unlockTx", NowOf(k))
  BY <1>2, <1>4, <1>5 DEF TimeGood
<1>7. q'.use = q.use
  BY <1>1
<1> QED
  BY <1>1, <1>3, <1>6, <1>7, TimedStep

\* xTaskResumeAll lets the pending ticks pass.
LEMMA ResumeTime ==
    ASSUME Base, Base', Clocked, NEW t \in Task, ResumeAll(t)
    PROVE  Clocked'
<1>1. PICK label \in {"try", "yield", "giveUp"} :
         /\ pc' = [pc EXCEPT ![t] = label] /\ (op[t].path = "expired" <=> label = "giveUp")
  BY ResumeAllStep
<1>2. /\ pc[t] = "resumeAll" /\ UNCHANGED <<q, op>> /\ KernelOK(k) /\ k.locks = 1
      /\ k' = xTaskResumeAll(k).k /\ k'.pended = 0
  BY ResumeAllStep
<1>3. NowOf(k) \in Nat /\ k.pended \in Nat
  BY NowIsNat DEF Base, KernelOK
<1>4. NowOf(k) + k.pended < q.use.ticks /\ q.use.ticks \in Int /\ q.use.ticks <= Eternity
  BY WithinTime DEF Clocked, ClockOK
<1>5. Eternity \in Int
  BY TasksAssumption, TicksAssumption DEF Eternity
<1>6. NowOf(k') = NowOf(k) + k.pended
  BY <1>2, <1>3, <1>4, <1>5, ResumeNow
<1>7. ClockOK'
  <2>1. k'.pended = 0 /\ NowOf(k') + 0 < q'.use.ticks
    BY <1>2, <1>3, <1>4, <1>6
  <2> QED
    BY <2>1 DEF ClockOK, NowOf
<1>8. TimeGood(op[t], pc[t], NowOf(k)) /\ op[t] \in Call_t
  BY DEF Clocked, TimeOK, Base, Typed
<1>9. TimeGood(op[t], label, NowOf(k))
  BY <1>1, <1>2, <1>8 DEF TimeGood
<1>10. NowOf(k) <= NowOf(k') /\ NowOf(k') \in Nat
  BY <1>3, <1>6
<1>11. TimeGood(op[t], label, NowOf(k'))
  BY <1>3, <1>8, <1>9, <1>10, TimeLater
<1>12. op' = [op EXCEPT ![t] = op[t]]
  BY <1>2, SameCall
<1>13. \A u \in Task : TimeOK(u)'
  BY <1>1, <1>10, <1>11, <1>12, TimeFrame DEF Clocked
<1> QED
  BY <1>7, <1>13 DEF Clocked

\* The steps that change no call: the idle task, the ISR, the tick.
LEMMA OutsideTime ==
    ASSUME Base, Base', Clocked, IdleLoop \/ Isr \/ vTickISR \/ UNCHANGED vars
    PROVE  Clocked'
<1>1. CASE IdleLoop \/ Isr \/ UNCHANGED vars
  <2>1. UNCHANGED <<pc, op>> /\ q'.use = q.use /\ NowOf(k') = NowOf(k) /\ k'.pended = k.pended
    <3>1. CASE IdleLoop
      BY <3>1, IdleStep
    <3>2. CASE Isr
      <4>1. SameClock(k, k') /\ UNCHANGED <<pc, op>> /\ q'.use = q.use
        BY <3>2, IsrStep DEF IsrSent, IsrReceived
      <4> QED
        BY <4>1 DEF SameClock, NowOf
    <3>3. CASE UNCHANGED vars
      BY <3>3 DEF vars
    <3> QED
      BY <1>1, <3>1, <3>2, <3>3
  <2>2. ClockOK' /\ NowOf(k) <= NowOf(k')
    BY <2>1, ClockFrame DEF Clocked
  <2> QED
    BY <2>1, <2>2, TimePasses DEF Clocked
<1>2. CASE vTickISR
  <2>1. /\ UNCHANGED <<q, pc, op>> /\ NowOf(k') \in Nat /\ NowOf(k) <= NowOf(k') /\ k'.pended \in 0..1
        /\ NowOf(k') + k'.pended < q.use.ticks
    BY <1>2, TickISRStep
  <2>2. ClockOK'
    <3>1. k'.pended <= 1 /\ NowOf(k') + k'.pended < q'.use.ticks
      BY <2>1
    <3> QED
      BY <3>1 DEF ClockOK, NowOf
  <2>3. \A u \in Task : TimeOK(u)'
    BY <2>1, TimePasses DEF Clocked
  <2> QED
    BY <2>2, <2>3 DEF Clocked
<1> QED
  BY <1>1, <1>2

\* Every step keeps the times.
LEMMA ClockedStep ==
    ASSUME Base, Base', Clocked, [Next]_vars
    PROVE  Clocked'
<1>1. ASSUME NEW t \in Task, Call(t) \/ Continue(t) PROVE Clocked'
  BY <1>1, CallTime, EndTime, PrepareTime, CheckTime, GotoTime, PlaceTime, ResumeTime DEF Continue
<1> QED
  BY <1>1, OutsideTime DEF Next

\* The times are right at the start.
LEMMA ClockedInit ==
    ASSUME Init
    PROVE  Clocked
<1>1. k.pended = 0 /\ NowOf(k) = 0
  BY InitKernel
<1>2. q.use \in Uses
  BY InitQueue, UseOfQueue
<1>3. q.use.ticks \in 1..(OverflowMod * TickMod)
  BY <1>2, QueueAssumption
<1>4. q.use.ticks >= 1 /\ q.use.ticks \in Int
  BY <1>3, TasksAssumption, TicksAssumption
<1>5. ClockOK
  BY <1>1, <1>4 DEF ClockOK
<1>6. \A t \in Task : TimeOK(t)
  BY DEF Init, TimeOK, TimeGood
<1> QED
  BY <1>5, <1>6 DEF Clocked

\* What a call has noted of the time, and what is left of its xTicksToWait,
\* add up to no less than it asked for.
THEOREM ClockedInvariance == Spec => []Clocked
<1>1. Init => Clocked
  BY ClockedInit
<1>2. Base /\ Base' /\ Clocked /\ [Next]_vars => Clocked'
  BY ClockedStep
<1> QED
  BY <1>1, <1>2, BaseInvariance, PTL DEF Spec

\* A call that reports a timeout has waited for the ticks it asked for
\* (NoEarlyTimeout), whatever woke it in between and however often the tick
\* counter wrapped (xTaskCheckForTimeOut).
THEOREM NeverTooEarly == Spec => NoEarlyTimeout
<1> DEFINE Waited == \A t \in User :
                        (pc[t] = "giveUp" /\ pc'[t] = "run") =>
                            /\ Now - op[t].start >= op[t].asked
                            /\ op[t].asked < portMAX_DELAY
<1>1. Base /\ Clocked /\ [Next]_vars => [Waited]_vars
  <2> SUFFICES ASSUME Base, Clocked, NEW t \in User, pc[t] = "giveUp"
               PROVE  /\ Now - op[t].start >= op[t].asked
                      /\ op[t].asked < portMAX_DELAY
    OBVIOUS
  <2>1. t \in Task
    BY DEF User
  <2>2. TimeGood(op[t], "giveUp", NowOf(k))
    BY <2>1 DEF Clocked, TimeOK
  <2>3. op[t].asked < portMAX_DELAY /\ NowOf(k) >= op[t].start + op[t].asked
    BY <2>2 DEF TimeGood
  <2>4. op[t].asked \in Nat /\ op[t].start \in Nat /\ NowOf(k) \in Nat /\ Now = NowOf(k)
    BY <2>1, NotedIsNat, NowIsNat DEF Base, Typed, KernelOK, Now, NowOf
  <2> QED
    BY <2>3, <2>4
<1> QED
  BY <1>1, BaseInvariance, ClockedInvariance, PTL DEF Spec, NoEarlyTimeout

-----------------------------------------------------------------------------
(* Who will look at the queue.                                             *)

\* The tasks that will look are finitely many, and fewer than the tasks.
LEMMA ComersAreFew ==
    ASSUME NEW m, NEW ops, NEW labels, NEW send
    PROVE  LET c == ComersOf(m, ops, labels, send) IN
           /\ IsFiniteSet(c) /\ Cardinality(c) \in Nat /\ c \subseteq User
           /\ IsFiniteSet(User) /\ Cardinality(Task) \in Nat /\ Cardinality(User) < Cardinality(Task)
<1> DEFINE c == ComersOf(m, ops, labels, send)
<1>1. c \subseteq User /\ User \subseteq Task /\ IsFiniteSet(Task) /\ Idle \in Task
  BY QueueAssumption, TasksAssumption DEF ComersOf, User
<1> HIDE DEF c
<1>2. IsFiniteSet(User) /\ IsFiniteSet(c)
  BY <1>1, FS_Subset
<1>3. Cardinality(Task) \in Nat /\ Cardinality(c) \in Nat /\ Cardinality(User) \in Nat
  BY <1>1, <1>2, FS_CardinalityType
<1>4. Cardinality(User) = Cardinality(Task) - 1
  BY <1>1, FS_RemoveElement DEF User
<1>5. Cardinality(User) < Cardinality(Task)
  BY <1>3, <1>4
<1> QED
  BY <1>1, <1>2, <1>3, <1>5 DEF c

\* The numbers the matching is about.
LEMMA MatchNumbers ==
    ASSUME NEW s, s \in Queue_t, RingOK(s), NEW send \in BOOLEAN
    PROVE  AvailableIn(s, send) \in Nat /\ LockOf(s, send) \in Int
<1>1. s.use.uxLength \in Nat /\ s.waiting \in 0..s.use.uxLength /\ s.rxLock \in Int /\ s.txLock \in Int
  BY QueueAssumption DEF Queue_t, RingOK
<1> QED
  BY <1>1 DEF AvailableIn, LockOf

\* g more tasks will look, and at most g more items (or slots) are there.
LEMMA MatchedMore ==
    ASSUME q \in Queue_t, RingOK(q), q' \in Queue_t, RingOK(q'), NEW send \in BOOLEAN, NEW c, NEW d,
           Cardinality(c) \in Nat, Cardinality(d) \in Nat, Matched(c, q, send), NEW g \in Int,
           Cardinality(d) >= Cardinality(c) + g, LockOf(q', send) >= LockOf(q, send),
           AvailableIn(q', send) <= AvailableIn(q, send) + g
    PROVE  Matched(d, q', send)
<1>1. PICK a, b, l, n, x, y, z :
         /\ a = AvailableIn(q, send) /\ b = AvailableIn(q', send) /\ l = LockOf(q, send) /\ n = LockOf(q', send)
         /\ x = Cardinality(c) /\ y = Cardinality(d) /\ z = Cardinality(Task)
  OBVIOUS
<1>2. a \in Nat /\ b \in Nat /\ l \in Int /\ n \in Int /\ x \in Nat /\ y \in Nat /\ z \in Nat
  BY <1>1, MatchNumbers, ComersAreFew
<1>3. x + (IF l > 0 THEN l ELSE 0) >= a \/ l >= z
  BY <1>1 DEF Matched
<1>4. y >= x + g /\ n >= l /\ b <= a + g
  BY <1>1
<1>5. y + (IF n > 0 THEN n ELSE 0) >= b \/ n >= z
  BY <1>2, <1>3, <1>4
<1> QED
  BY <1>1, <1>5 DEF Matched

\* Nothing is there.
LEMMA NothingThere ==
    ASSUME NEW s, s \in Queue_t, RingOK(s), NEW send \in BOOLEAN, AvailableIn(s, send) = 0, NEW c,
           Cardinality(c) \in Nat
    PROVE  Matched(c, s, send)
<1>1. LockOf(s, send) \in Int
  BY MatchNumbers
<1>2. PICK l \in Int : l = LockOf(s, send)
  BY <1>1
<1>3. PICK x \in Nat : x = Cardinality(c)
  OBVIOUS
<1>4. x + (IF l > 0 THEN l ELSE 0) >= 0
  OBVIOUS
<1> QED
  BY <1>2, <1>3, <1>4 DEF Matched

\* The call of task t, which the others leave alone.
Changed(t, o, label) ==
    /\ op' = [op EXCEPT ![t] = o] /\ pc' = [pc EXCEPT ![t] = label]
    /\ label = "place" => pc[t] = "place" /\ o.send = op[t].send

\* No task waits, or is about to, that did not before.
LEMMA ExpectingBefore ==
    ASSUME Base, Base', Advanced(k, k'), NEW t \in Task, NEW o, NEW label, Changed(t, o, label),
           NEW send \in BOOLEAN, Expecting(k', op', pc', send)
    PROVE  Expecting(k, op, pc, send)
<1>1. /\ pc \in [Task -> Label] /\ op \in [Task -> Call_t] /\ KernelOK(k) /\ KernelOK(k')
      /\ ListOf(send) \in EventList
  BY QueueAssumption DEF Base, Typed, ListOf
<1>2. CASE k'.event[ListOf(send)] # <<>>
  <2>1. PICK l : l = ListOf(send)
    OBVIOUS
  <2>2. k'.event[l] \in TaskList /\ k'.event[l] # <<>> /\ l \in EventList /\ k.event[l] \in TaskList
    BY <1>1, <1>2, <2>1, KernelParts
  <2>3. PICK u \in Task : u \in ToSet(k'.event[l])
    <3>1. k'.event[l] \in Seq(Task)
      BY <2>2 DEF TaskList
    <3>2. 1 \in 1..Len(k'.event[l]) /\ k'.event[l][1] \in Task
      BY <2>2, <3>1
    <3> QED
      BY <3>2 DEF ToSet
  <2>4. u \in ToSet(k.event[l])
    BY <2>2, <2>3, EventsShrink
  <2>5. k.event[l] # <<>>
    BY <2>4 DEF ToSet
  <2> QED
    BY <2>1, <2>5 DEF Expecting
<1>3. CASE pc'[k'.cur] = "place" /\ op'[k'.cur].send = send
  <2>1. k'.cur \in Task
    BY <1>1, KernelParts
  <2>2. pc[k'.cur] = "place" /\ op[k'.cur].send = send
    BY <2>1, <1>1, <1>3 DEF Changed
  <2>3. k'.cur = k.cur
    BY <2>1, <2>2 DEF Base, CpuOK, Locking
  <2> QED
    BY <2>2, <2>3 DEF Expecting
<1> QED
  BY <1>2, <1>3 DEF Expecting

\* A task that will look and does no step will look.
LEMMA ComersStay ==
    ASSUME Base, Advanced(k, k'), NEW t \in Task, NEW o, NEW label,
           op' = [op EXCEPT ![t] = o], pc' = [pc EXCEPT ![t] = label], NEW send \in BOOLEAN
    PROVE  LET c == ComersOf(k, op, pc, send)
               d == ComersOf(k', op', pc', send)
           IN  /\ c \ {t} \subseteq d
               /\ ((op[t].send = send /\ Turn(op[t], pc[t]) => o.send = send /\ Turn(o, label)) => c \subseteq d)
<1>1. pc \in [Task -> Label] /\ op \in [Task -> Call_t]
  BY DEF Base, Typed
<1>2. ASSUME NEW u \in Task, ~InEvents(k, u) PROVE ~InEvents(k', u)
  BY <1>2, EventsShrink DEF InEvents
<1>3. User \subseteq Task
  BY DEF User
<1> QED
  BY <1>1, <1>2, <1>3 DEF ComersOf

\* A task that is woken will look: it is in its call, after it placed itself
\* in the list.
LEMMA WokenComes ==
    ASSUME Base, Advanced(k, k'), NEW t \in Task, NEW o, NEW label,
           op' = [op EXCEPT ![t] = o], pc' = [pc EXCEPT ![t] = label],
           NEW send \in BOOLEAN, NEW w \in ToSet(k.event[ListOf(send)]), w \notin ToSet(k'.event[ListOf(send)]),
           w = t => o = op[t] /\ label \in Leaving
    PROVE  w \in ComersOf(k', op', pc', send) /\ w \notin ComersOf(k, op, pc, send)
<1>1. PICK l : l = ListOf(send)
  OBVIOUS
<1>2. /\ pc \in [Task -> Label] /\ op \in [Task -> Call_t] /\ l \in EventList
      /\ w \in ToSet(k.event[l]) /\ w \notin ToSet(k'.event[l])
  BY <1>1, QueueAssumption DEF Base, Typed, ListOf
<1>3. w \in Task
  BY <1>2, KernelParts DEF Base
<1>4. TaskGood(k, op[w], pc[w], w) /\ op[w].send \in BOOLEAN
  BY <1>2, <1>3 DEF Base, TaskOK, Call_t
<1>5. pc[w] \in Parking /\ op[w].path = "blocked" /\ l = ListOf(op[w].send)
  BY <1>2, <1>4 DEF TaskGood
<1>6. op[w].send = send
  BY <1>1, <1>4, <1>5 DEF ListOf
<1>7. w # Idle
  BY <1>5 DEF Base, CpuOK, Parking
<1>8. InEvents(k, w) /\ ~InEvents(k', w)
  BY <1>2, <1>3 DEF InEvents, Advanced, Stays, Freed, Pended
<1>9. op'[w] = op[w] /\ Turn(op[w], pc'[w])
  <2>1. CASE w = t
    BY <2>1, <1>2, <1>3, <1>5 DEF Turn
  <2>2. CASE w # t
    BY <2>2, <1>2, <1>3, <1>5 DEF Turn, Parking, Leaving
  <2> QED
    BY <2>1, <2>2
<1> QED
  BY <1>3, <1>6, <1>7, <1>8, <1>9 DEF ComersOf, User

\* The promise of the next state.
LEMMA PledgedNext ==
    ASSUME NEW send
    PROVE  Pledged(send)' <=>
              (Expecting(k', op', pc', send) => Matched(ComersOf(k', op', pc', send), q', send))
BY DEF Pledged, Comers, Expecting, ComersOf, Matched, InEvents, Turn, ListOf, AvailableIn, LockOf

\* Rings of this state and the next.
LEMMA TwoRings ==
    ASSUME Base, Base'
    PROVE  q \in Queue_t /\ RingOK(q) /\ q' \in Queue_t /\ RingOK(q')
BY DEF Base, Typed, RingOK, Queue_t, Cell, Slots

\* No task fewer will look, and no item more is there.
LEMMA PledgeKept ==
    ASSUME Base, Base', NEW send \in BOOLEAN, Pledged(send),
           Expecting(k', op', pc', send) => Expecting(k, op, pc, send),
           ComersOf(k, op, pc, send) \subseteq ComersOf(k', op', pc', send),
           LockOf(q', send) >= LockOf(q, send), AvailableIn(q', send) <= AvailableIn(q, send)
    PROVE  Pledged(send)'
<1> SUFFICES ASSUME Expecting(k', op', pc', send)
             PROVE  Matched(ComersOf(k', op', pc', send), q', send)
  BY PledgedNext
<1>1. PICK c, d : c = ComersOf(k, op, pc, send) /\ d = ComersOf(k', op', pc', send)
  OBVIOUS
<1>2. Matched(c, q, send) /\ c \subseteq d
  BY <1>1 DEF Pledged, Comers
<1>3. IsFiniteSet(c) /\ IsFiniteSet(d) /\ Cardinality(c) \in Nat /\ Cardinality(d) \in Nat
  BY <1>1, ComersAreFew
<1>4. Cardinality(c) <= Cardinality(d)
  BY <1>2, <1>3, FS_Subset
<1>5. q \in Queue_t /\ RingOK(q) /\ q' \in Queue_t /\ RingOK(q')
  BY TwoRings
<1>6. AvailableIn(q, send) \in Nat /\ AvailableIn(q', send) \in Nat
  BY <1>5, MatchNumbers
<1>7. PICK g \in Int : g = 0
  OBVIOUS
<1>8. Cardinality(d) >= Cardinality(c) + g /\ AvailableIn(q', send) <= AvailableIn(q, send) + g
  BY <1>3, <1>4, <1>6, <1>7
<1>9. Matched(d, q', send)
  BY <1>2, <1>3, <1>5, <1>8, MatchedMore
<1> QED
  BY <1>1, <1>9

\* The same for a step of task t.
LEMMA StepKept ==
    ASSUME Base, Base', NEW send \in BOOLEAN, Pledged(send), Advanced(k, k'),
           NEW t \in Task, NEW o, NEW label, Changed(t, o, label),
           op[t].send = send /\ Turn(op[t], pc[t]) => o.send = send /\ Turn(o, label),
           LockOf(q', send) >= LockOf(q, send), AvailableIn(q', send) <= AvailableIn(q, send)
    PROVE  Pledged(send)'
<1>1. Expecting(k', op', pc', send) => Expecting(k, op, pc, send)
  BY ExpectingBefore
<1>2. ComersOf(k, op, pc, send) \subseteq ComersOf(k', op', pc', send)
  BY ComersStay, ZenonT(60) DEF Changed
<1> QED
  BY <1>1, <1>2, PledgeKept

\* A waiter is woken for a transfer; the task that made it may have been one
\* of those that would look.
LEMMA OneWoken ==
    ASSUME Base, Base', NEW send \in BOOLEAN, Pledged(send), Advanced(k, k'),
           NEW t \in Task, NEW o, NEW label, Changed(t, o, label), t \in ReadyTasks(k),
           WokenOne(k, k', ListOf(send)), pc'[k'.cur] # "place",
           LockOf(q', send) = LockOf(q, send), NEW g \in {0, 1},
           g = 1 => (op[t].send = send /\ Turn(op[t], pc[t]) => o.send = send /\ Turn(o, label)),
           AvailableIn(q', send) <= AvailableIn(q, send) + g
    PROVE  Pledged(send)'
<1> SUFFICES ASSUME Expecting(k', op', pc', send)
             PROVE  Matched(ComersOf(k', op', pc', send), q', send)
  BY PledgedNext
<1>1. PICK c, d, l : c = ComersOf(k, op, pc, send) /\ d = ComersOf(k', op', pc', send) /\ l = ListOf(send)
  OBVIOUS
<1>2. k'.event[l] # <<>>
  BY <1>1 DEF Expecting
<1>3. PICK w \in ToSet(k.event[l]) : ToSet(k'.event[l]) = ToSet(k.event[l]) \ {w}
  BY <1>1, <1>2 DEF WokenOne
<1>4. l \in EventList /\ Waiters(k) /\ KernelOK(k)
  BY <1>1, QueueAssumption, WaitersOK DEF ListOf, Base
<1>5. t \notin ToSet(k.event[l])
  BY <1>4, ReadyGood DEF InEvents
<1>6. w \in d /\ w \notin c /\ w # t
  BY <1>1, <1>3, <1>5, WokenComes DEF Changed
<1>7. c \ {t} \subseteq d /\ (g = 1 => c \subseteq d)
  BY <1>1, ComersStay, ZenonT(60) DEF Changed
<1>8. IsFiniteSet(c) /\ IsFiniteSet(d) /\ Cardinality(c) \in Nat /\ Cardinality(d) \in Nat
  BY <1>1, ComersAreFew
<1>9. Cardinality(d) >= Cardinality(c) + g
  <2>1. CASE g = 1
    <3>1. IsFiniteSet(c \cup {w}) /\ Cardinality(c \cup {w}) = Cardinality(c) + 1
      BY <1>6, <1>8, FS_AddElement
    <3>2. c \cup {w} \subseteq d
      BY <1>6, <1>7, <2>1
    <3>3. Cardinality(c \cup {w}) <= Cardinality(d)
      BY <1>8, <3>2, FS_Subset
    <3> QED
      BY <1>8, <3>1, <3>3, <2>1
  <2>2. CASE g = 0
    <3>1. PICK r : r = c \ {t}
      OBVIOUS
    <3>2. IsFiniteSet(r) /\ Cardinality(r) \in Nat /\ Cardinality(r) >= Cardinality(c) - 1
      <4>1. CASE t \in c
        <5>1. IsFiniteSet(c \ {t}) /\ Cardinality(c \ {t}) = Cardinality(c) - 1
          BY <4>1, <1>8, FS_RemoveElement
        <5>2. Cardinality(r) \in Nat
          BY <5>1, <3>1, FS_CardinalityType
        <5> QED
          BY <5>1, <5>2, <3>1, <1>8
      <4>2. CASE t \notin c
        <5>1. r = c
          BY <4>2, <3>1
        <5> QED
          BY <5>1, <1>8
      <4> QED
        BY <4>1, <4>2
    <3>3. w \notin r /\ r \cup {w} \subseteq d
      BY <1>6, <1>7, <3>1
    <3>4. IsFiniteSet(r \cup {w}) /\ Cardinality(r \cup {w}) = Cardinality(r) + 1
      BY <3>2, <3>3, FS_AddElement
    <3>5. Cardinality(r \cup {w}) <= Cardinality(d)
      BY <1>8, <3>3, FS_Subset
    <3> QED
      BY <1>8, <3>2, <3>4, <3>5, <2>2
  <2> QED
    BY <2>1, <2>2
<1>10. Expecting(k, op, pc, send)
  <2>1. k.event[l] # <<>>
    BY <1>3 DEF ToSet
  <2> QED
    BY <2>1, <1>1 DEF Expecting
<1>11. Matched(c, q, send)
  BY <1>1, <1>10 DEF Pledged, Comers
<1>12. q \in Queue_t /\ RingOK(q) /\ q' \in Queue_t /\ RingOK(q') /\ g \in Int
  BY TwoRings
<1>13. LockOf(q', send) >= LockOf(q, send)
  BY <1>12, MatchNumbers
<1>14. Matched(d, q', send)
  BY <1>8, <1>9, <1>11, <1>12, <1>13, MatchedMore
<1> QED
  BY <1>1, <1>14

\* prvUnlockQueue wakes a waiter for every transfer counted, or all of them.
LEMMA AllWoken ==
    ASSUME Base, Base', NEW send \in BOOLEAN, Pledged(send), NEW t \in Task, NEW label,
           Changed(t, op[t], label), label \in Leaving, LockOf(q, send) \in Nat,
           WakeInv(ListOf(send), k, LockOf(q, send), k'), pc'[k'.cur] # "place",
           op[t].send = send /\ Turn(op[t], pc[t]) => Turn(op[t], label),
           LockOf(q', send) = queueUNLOCKED, AvailableIn(q', send) = AvailableIn(q, send)
    PROVE  Pledged(send)'
<1> SUFFICES ASSUME Expecting(k', op', pc', send)
             PROVE  Matched(ComersOf(k', op', pc', send), q', send)
  BY PledgedNext
<1>1. PICK c, d, l, n : /\ c = ComersOf(k, op, pc, send) /\ d = ComersOf(k', op', pc', send)
                        /\ l = ListOf(send) /\ n = LockOf(q, send)
  OBVIOUS
<1>2. k'.event[l] # <<>> /\ Advanced(k, k') /\ WakeInv(l, k, n, k') /\ n \in Nat
  BY <1>1 DEF Expecting, WakeInv
<1>3. PICK W : W = ToSet(k.event[l]) \ ToSet(k'.event[l])
  OBVIOUS
<1>4. Cardinality(W) = n
  BY <1>2, <1>3 DEF WakeInv
<1>5. ASSUME NEW w \in W PROVE w \in d /\ w \notin c
  <2>1. w \in ToSet(k.event[ListOf(send)]) /\ w \notin ToSet(k'.event[ListOf(send)])
    BY <1>1, <1>3
  <2> QED
    BY <2>1, <1>1, <1>2, WokenComes DEF Changed
<1>6. c \subseteq d
  BY <1>1, <1>2, ComersStay, ZenonT(60) DEF Changed
<1>7. IsFiniteSet(c) /\ IsFiniteSet(d) /\ Cardinality(c) \in Nat /\ Cardinality(d) \in Nat /\ d \subseteq User
      /\ IsFiniteSet(User) /\ Cardinality(Task) \in Nat /\ Cardinality(User) < Cardinality(Task)
  BY <1>1, ComersAreFew
<1>8. W \subseteq d /\ c \cap W = {} /\ W \subseteq User
  BY <1>5, <1>7
<1>9. IsFiniteSet(W) /\ n <= Cardinality(User) /\ Cardinality(User) \in Nat
  BY <1>4, <1>7, <1>8, FS_Subset, FS_CardinalityType
<1>10. n < Cardinality(Task)
  BY <1>2, <1>7, <1>9
<1>11. Cardinality(c \cup W) = Cardinality(c) + n
  <2>1. Cardinality(c \cap W) = 0
    BY <1>8, FS_EmptySet
  <2>2. Cardinality(c \cup W) = Cardinality(c) + Cardinality(W) - Cardinality(c \cap W)
    BY <1>7, <1>9, FS_Union
  <2> QED
    BY <2>1, <2>2, <1>2, <1>4, <1>7
<1>12. Cardinality(d) >= Cardinality(c) + n
  <2>1. c \cup W \subseteq d
    BY <1>6, <1>8
  <2>2. Cardinality(c \cup W) <= Cardinality(d)
    BY <2>1, <1>7, FS_Subset
  <2> QED
    BY <2>2, <1>2, <1>7, <1>11
<1>13. Expecting(k, op, pc, send)
  BY <1>1, <1>2, ExpectingBefore
<1>14. Matched(c, q, send)
  BY <1>1, <1>13 DEF Pledged, Comers
<1>15. Cardinality(c) + (IF n > 0 THEN n ELSE 0) >= AvailableIn(q, send)
  BY <1>1, <1>2, <1>7, <1>10, <1>14 DEF Matched
<1>16. AvailableIn(q', send) \in Nat /\ AvailableIn(q, send) = AvailableIn(q', send)
  BY TwoRings, MatchNumbers
<1>17. Cardinality(d) >= AvailableIn(q', send)
  BY <1>2, <1>7, <1>12, <1>15, <1>16
<1>18. LockOf(q', send) = 0 - 1
  BY DEF queueUNLOCKED
<1>19. Matched(d, q', send)
  BY <1>7, <1>17, <1>18 DEF Matched
<1> QED
  BY <1>1, <1>19

Pledges == Pledged(TRUE) /\ Pledged(FALSE)

\* A step of task t that wakes nobody and moves no item.
LEMMA QuietStep ==
    ASSUME Base, Base', Pledges, Advanced(k, k'), NEW t \in Task, NEW o, NEW label, Changed(t, o, label),
           Turn(op[t], pc[t]) => o.send = op[t].send /\ Turn(o, label),
           q'.use = q.use, q'.waiting = q.waiting, q'.rxLock >= q.rxLock, q'.txLock >= q.txLock
    PROVE  Pledges'
<1>1. \A send \in BOOLEAN : AvailableIn(q, send) \in Nat /\ AvailableIn(q', send) = AvailableIn(q, send)
  BY TwoRings, MatchNumbers DEF AvailableIn
<1>2. ASSUME NEW send \in BOOLEAN, Pledged(send) PROVE Pledged(send)'
  <2>1. LockOf(q', send) >= LockOf(q, send) /\ AvailableIn(q', send) <= AvailableIn(q, send)
    BY <1>1 DEF LockOf
  <2>2. op[t].send = send /\ Turn(op[t], pc[t]) => o.send = send /\ Turn(o, label)
    OBVIOUS
  <2> QED
    BY <2>1, <2>2, <1>2, StepKept
<1> QED
  BY <1>2 DEF Pledges

\* The same, when the queue is not touched.
LEMMA QuietCall ==
    ASSUME Base, Base', Pledges, Advanced(k, k'), NEW t \in Task, NEW o, NEW label, Changed(t, o, label),
           Turn(op[t], pc[t]) => o.send = op[t].send /\ Turn(o, label), q' = q
    PROVE  Pledges'
<1>1. q.rxLock \in Int /\ q.txLock \in Int
  BY DEF Base, Typed, Queue_t
<1> QED
  BY <1>1, QuietStep

\* A kernel that has not changed.
LEMMA SameKernel ==
    ASSUME k' = k
    PROVE  Advanced(k, k')
BY AdvancedSame DEF SameEvents

\* A call begins, and its task will look.
LEMMA CallPledge ==
    ASSUME Base, Base', Pledges, NEW t \in Task, Call(t)
    PROVE  Pledges'
<1>1. PICK o : Begins(t, o)
  BY CallBegins
<1>2. /\ Changed(t, o, "try") /\ pc[t] = "run" /\ k' = k /\ q' = q
  BY <1>1 DEF Begins, Changed, Goto, At
<1>3. ~Turn(op[t], pc[t])
  BY <1>2 DEF Turn, Leaving
<1> QED
  BY <1>2, <1>3, SameKernel, QuietCall

\* A task stops looking when there is nothing to be had.
LEMMA LeaveStep ==
    ASSUME Base, Base', Pledges, NEW t \in Task, NEW o, NEW label, UNCHANGED <<k, q>>, ~Possible(t),
           op' = [op EXCEPT ![t] = o], pc' = [pc EXCEPT ![t] = label], pc[t] # "place",
           label = "place" => o.send = op[t].send
    PROVE  Pledges'
<1>1. op[t].send \in BOOLEAN /\ pc \in [Task -> Label] /\ op \in [Task -> Call_t] /\ k.cur \in Task
  BY KernelParts DEF Base, Typed, Call_t
<1>2. PICK s \in BOOLEAN : s = op[t].send
  BY <1>1
<1>3. q \in Queue_t /\ RingOK(q) /\ q' \in Queue_t /\ RingOK(q')
  BY TwoRings
<1>4. AvailableIn(q', s) = 0
  <2>1. q.waiting \in 0..uxLength /\ uxLength \in Nat
    BY <1>3, RingFields
  <2> QED
    BY <1>2, <2>1 DEF Possible, Room, AvailableIn, uxLength
<1>5. Pledged(s)'
  <2>1. Cardinality(ComersOf(k', op', pc', s)) \in Nat
    BY ComersAreFew
  <2>2. PICK d : d = ComersOf(k', op', pc', s)
    OBVIOUS
  <2>3. Matched(d, q', s)
    BY <2>1, <2>2, <1>3, <1>4, NothingThere
  <2> QED
    BY <2>2, <2>3, PledgedNext
<1>6. ASSUME NEW x \in BOOLEAN, x # s, Pledged(x) PROVE Pledged(x)'
  <2>1. Expecting(k', op', pc', x) => Expecting(k, op, pc, x)
    BY <1>1, <1>2, <1>6 DEF Expecting
  <2>2. ComersOf(k, op, pc, x) \subseteq ComersOf(k', op', pc', x)
    <3>1. Advanced(k, k')
      BY SameKernel
    <3>2. ~(op[t].send = x /\ Turn(op[t], pc[t]))
      BY <1>2, <1>6
    <3> QED
      BY <3>1, <3>2, ComersStay
  <2>3. LockOf(q', x) >= LockOf(q, x) /\ AvailableIn(q', x) <= AvailableIn(q, x)
    BY <1>3, MatchNumbers
  <2> QED
    BY <1>6, <2>1, <2>2, <2>3, PledgeKept
<1> QED
  BY <1>5, <1>6, <1>2 DEF Pledges

\* A call ends without a transfer, or goes to block, or finds nothing under
\* the lock.
LEMMA LeavePledge ==
    ASSUME Base, Base', Pledges, NEW t \in Task, FailAtOnce(t) \/ PrepareToBlock(t) \/ GiveUp(t)
    PROVE  Pledges'
<1>1. CASE FailAtOnce(t)
  BY <1>1, LeaveStep DEF FailAtOnce, At, Return, Goto
<1>2. CASE PrepareToBlock(t)
  <2>1. \E o : op' = [op EXCEPT ![t] = o]
    BY <1>2, PrepareOp, ZenonT(60)
  <2> QED
    BY <1>2, <2>1, LeaveStep DEF PrepareToBlock, At, Goto
<1>3. CASE GiveUp(t)
  <2>1. Changed(t, NoOp, "run") /\ k' = k /\ q' = q /\ pc[t] = "giveUp"
    BY <1>3 DEF GiveUp, Return, Goto, Changed, At
  <2>2. ~Turn(op[t], pc[t])
    BY <2>1 DEF Turn, Leaving
  <2> QED
    BY <2>1, <2>2, SameKernel, QuietCall
<1> QED
  BY <1>1, <1>2, <1>3

\* The steps between the looks at the queue that wake nobody.
LEMMA GotoPledge ==
    ASSUME Base, Base', Pledges, NEW t \in Task,
           SuspendAll(t) \/ Lock(t) \/ CheckForTimeOut(t) \/ LookAgain(t) \/ Yield(t) \/ ResumeAll(t)
    PROVE  Pledges'
<1>1. CASE SuspendAll(t)
  <2>1. KernelOK(k) /\ k.locks = 0
    BY <1>1, RunningTask DEF SuspendAll, At, CpuGood, Locking
  <2>2. PICK m : m = vTaskSuspendAll(k)
    OBVIOUS
  <2>3. Advanced(k, m)
    BY <2>1, <2>2, SuspendKernel
  <2>4. k' = m /\ q' = q /\ op' = op /\ pc[t] = "suspendAll" /\ pc' = [pc EXCEPT ![t] = "lock"]
    BY <1>1, <2>2 DEF SuspendAll, At, Goto
  <2>5. Changed(t, op[t], "lock") /\ ~Turn(op[t], pc[t])
    BY <2>4, SameCall DEF Changed, Turn, Leaving
  <2> QED
    BY <2>3, <2>4, <2>5, QuietCall
<1>2. CASE Lock(t)
  <2>1. /\ k' = k /\ op' = op /\ pc[t] = "lock" /\ pc' = [pc EXCEPT ![t] = "timeout"]
        /\ q'.use = q.use /\ q'.waiting = q.waiting /\ q'.rxLock = 0 /\ q'.txLock = 0
        /\ q.rxLock = queueUNLOCKED /\ q.txLock = queueUNLOCKED
    BY <1>2, LockStep DEF Lock, At, Goto
  <2>2. Changed(t, op[t], "timeout") /\ ~Turn(op[t], pc[t])
    BY <2>1, SameCall DEF Changed, Turn, Leaving
  <2>3. q'.rxLock >= q.rxLock /\ q'.txLock >= q.txLock
    BY <2>1 DEF queueUNLOCKED
  <2> QED
    BY <2>1, <2>2, <2>3, SameKernel, QuietStep
<1>3. CASE CheckForTimeOut(t)
  <2>1. PICK o \in Call_t, expired \in BOOLEAN :
            /\ op' = [op EXCEPT ![t] = o]
            /\ pc' = [pc EXCEPT ![t] = IF expired THEN "unlockTx" ELSE "isFull"]
    BY <1>3, CheckStep
  <2>2. PICK label : label = IF expired THEN "unlockTx" ELSE "isFull"
    OBVIOUS
  <2>3. k' = k /\ q' = q /\ pc[t] = "timeout"
    BY <1>3, CheckStep
  <2>4. Changed(t, o, label) /\ ~Turn(op[t], pc[t])
    BY <2>1, <2>2, <2>3 DEF Changed, Turn, Leaving
  <2> QED
    BY <2>3, <2>4, SameKernel, QuietCall
<1>4. CASE LookAgain(t)
  <2>1. k' = k /\ q' = q /\ op' = op /\ pc[t] = "giveUp" /\ pc' = [pc EXCEPT ![t] = "try"]
    BY <1>4 DEF LookAgain, At, Goto
  <2>2. Changed(t, op[t], "try") /\ ~Turn(op[t], pc[t])
    BY <2>1, SameCall DEF Changed, Turn, Leaving
  <2> QED
    BY <2>1, <2>2, SameKernel, QuietCall
<1>5. CASE Yield(t)
  <2>1. Advanced(k, k') /\ q' = q /\ op' = op /\ pc' = [pc EXCEPT ![t] = "try"]
    BY <1>5, YieldedStep
  <2>2. Changed(t, op[t], "try") /\ Turn(op[t], "try")
    BY <2>1, SameCall DEF Changed, Turn
  <2> QED
    BY <2>1, <2>2, QuietCall
<1>6. CASE ResumeAll(t)
  <2>1. PICK label \in {"try", "yield", "giveUp"} :
           /\ pc' = [pc EXCEPT ![t] = label]
           /\ (op[t].path = "blocked" <=> label \in {"try", "yield"} /\ op[t].path # "retry")
    BY <1>6, ResumeAllStep
  <2>2. Advanced(k, k') /\ q' = q /\ op' = op /\ pc[t] = "resumeAll"
    BY <1>6, ResumeAllStep
  <2>3. Changed(t, op[t], label)
    BY <2>1, <2>2, SameCall DEF Changed
  <2>4. Turn(op[t], pc[t]) => Turn(op[t], label)
    BY <2>1, <2>2 DEF Turn, Leaving
  <2> QED
    BY <2>2, <2>3, <2>4, QuietCall
<1> QED
  BY <1>1, <1>2, <1>3, <1>4, <1>5, <1>6

\* A task looks again under the lock: it goes to block only when there is
\* nothing, and from then on every transfer is counted.
LEMMA CheckPledge ==
    ASSUME Base, Base', Pledges, NEW t \in Task, CheckAgain(t)
    PROVE  Pledges'
<1>1. k' = k /\ q' = q /\ op' = op /\ pc[t] = "isFull" /\ op' = [op EXCEPT ![t] = op[t]]
  BY SameCall DEF CheckAgain, At
<1>2. CASE Possible(t)
  <2>1. Changed(t, op[t], "unlockTx") /\ ~Turn(op[t], pc[t])
    BY <1>1, <1>2 DEF CheckAgain, Goto, Changed, Turn, Leaving
  <2> QED
    BY <1>1, <2>1, SameKernel, QuietCall
<1>3. CASE ~Possible(t)
  <2>1. pc' = [pc EXCEPT ![t] = "place"]
    BY <1>3 DEF CheckAgain, Goto
  <2> QED
    BY <1>1, <1>3, <2>1, LeaveStep
<1> QED
  BY <1>2, <1>3

\* vTaskPlaceOnEventList: a task that was about to wait waits.
LEMMA PlacePledge ==
    ASSUME Base, Base', Pledges, NEW t \in Task, Place(t)
    PROVE  Pledges'
<1>1. /\ k.cur = t /\ k'.cur = t /\ pc[t] = "place" /\ q' = q
      /\ pc' = [pc EXCEPT ![t] = "unlockTx"] /\ op' = [op EXCEPT ![t] = [op[t] EXCEPT !.path = "blocked"]]
      /\ \A u \in Task \ {t} : Stays(k, k', u)
      /\ \A l \in EventList \ {ListOf(op[t].send)} : k'.event[l] = k.event[l]
  BY PlacedStep
<1>2. op[t].send \in BOOLEAN /\ pc \in [Task -> Label] /\ op \in [Task -> Call_t]
  BY DEF Base, Typed, Call_t
<1>3. ASSUME NEW x \in BOOLEAN, Pledged(x) PROVE Pledged(x)'
  <2>1. Expecting(k', op', pc', x) => Expecting(k, op, pc, x)
    <3>1. pc'[k'.cur] = "unlockTx"
      BY <1>1, <1>2
    <3>2. CASE x = op[t].send
      BY <3>2, <1>1 DEF Expecting
    <3>3. CASE x # op[t].send
      <4>1. ListOf(x) \in EventList /\ ListOf(x) # ListOf(op[t].send)
        BY <3>3, <1>2, QueueAssumption DEF ListOf
      <4> QED
        BY <4>1, <3>1, <1>1 DEF Expecting
    <3> QED
      BY <3>2, <3>3
  <2>2. ComersOf(k, op, pc, x) \subseteq ComersOf(k', op', pc', x)
    <3> SUFFICES ASSUME NEW u \in ComersOf(k, op, pc, x) PROVE u \in ComersOf(k', op', pc', x)
      OBVIOUS
    <3>1. u \in User /\ op[u].send = x /\ Turn(op[u], pc[u]) /\ ~InEvents(k, u)
      BY DEF ComersOf
    <3>2. u \in Task /\ u # t
      BY <3>1, <1>1 DEF User, Turn, Leaving
    <3>3. op'[u] = op[u] /\ pc'[u] = pc[u]
      BY <3>2, <1>1, <1>2
    <3>4. ~InEvents(k', u)
      BY <3>1, <3>2, <1>1 DEF InEvents, Stays
    <3> QED
      BY <3>1, <3>3, <3>4 DEF ComersOf
  <2>3. LockOf(q', x) >= LockOf(q, x) /\ AvailableIn(q', x) <= AvailableIn(q, x)
    BY <1>1, TwoRings, MatchNumbers
  <2> QED
    BY <1>3, <2>1, <2>2, <2>3, PledgeKept
<1> QED
  BY <1>3 DEF Pledges

\* prvUnlockQueue.
LEMMA UnlockPledge ==
    ASSUME Base, Base', Pledges, NEW t \in Task, UnlockTx(t) \/ UnlockRx(t)
    PROVE  Pledges'
<1>0. TRUE \in BOOLEAN /\ FALSE \in BOOLEAN /\ q.rxLock \in Int /\ q.txLock \in Int
      /\ pc \in [Task -> Label] /\ ListOf(TRUE) = "xTasksWaitingToSend"
      /\ ListOf(FALSE) = "xTasksWaitingToReceive"
  BY DEF Base, Typed, Queue_t, ListOf
<1>1. CASE UnlockTx(t)
  <2>1. /\ k.cur = t /\ pc[t] = "unlockTx" /\ pc' = [pc EXCEPT ![t] = "unlockRx"] /\ op' = op
        /\ q.txLock \in Nat /\ WakeInv("xTasksWaitingToReceive", k, q.txLock, k')
        /\ q'.use = q.use /\ q'.waiting = q.waiting /\ q'.rxLock = q.rxLock /\ q'.txLock = queueUNLOCKED
    BY <1>1, UnlockTxStep
  <2>2. Changed(t, op[t], "unlockRx") /\ (Turn(op[t], pc[t]) => Turn(op[t], "unlockRx"))
    BY <2>1, SameCall DEF Changed, Turn, Leaving
  <2>3. Advanced(k, k') /\ k'.cur = t /\ pc'[k'.cur] # "place"
    BY <2>1, <1>0 DEF WakeInv
  <2>4. /\ AvailableIn(q', FALSE) = AvailableIn(q, FALSE) /\ LockOf(q, FALSE) = q.txLock
        /\ LockOf(q', FALSE) = queueUNLOCKED
    BY <2>1 DEF AvailableIn, LockOf
  <2>5. PICK s \in BOOLEAN : s = FALSE
    BY <1>0
  <2>6. Pledged(s)'
    <3>1. Pledged(s) /\ LockOf(q, s) \in Nat /\ WakeInv(ListOf(s), k, LockOf(q, s), k')
      BY <1>0, <2>1, <2>4, <2>5 DEF Pledges
    <3>2. /\ LockOf(q', s) = queueUNLOCKED /\ AvailableIn(q', s) = AvailableIn(q, s)
          /\ "unlockRx" \in Leaving
      BY <2>4, <2>5 DEF Leaving
    <3> QED
      BY <3>1, <3>2, <2>2, <2>3, AllWoken
  <2>7. PICK x \in BOOLEAN : x = TRUE
    BY <1>0
  <2>8. Pledged(x)'
    <3>1. AvailableIn(q', x) = AvailableIn(q, x) /\ LockOf(q', x) = LockOf(q, x)
      BY <2>1, <2>7 DEF AvailableIn, LockOf
    <3>2. AvailableIn(q, x) \in Nat /\ LockOf(q, x) \in Int
      BY TwoRings, MatchNumbers
    <3>3. LockOf(q', x) >= LockOf(q, x) /\ AvailableIn(q', x) <= AvailableIn(q, x)
      BY <3>1, <3>2
    <3>4. Pledged(x)
      BY <2>7 DEF Pledges
    <3> QED
      BY <3>3, <3>4, <2>2, <2>3, StepKept
  <2> QED
    BY <2>5, <2>6, <2>7, <2>8 DEF Pledges
<1>2. CASE UnlockRx(t)
  <2>1. /\ k.cur = t /\ pc[t] = "unlockRx" /\ pc' = [pc EXCEPT ![t] = "resumeAll"] /\ op' = op
        /\ q.rxLock \in Nat /\ WakeInv("xTasksWaitingToSend", k, q.rxLock, k')
        /\ q'.use = q.use /\ q'.waiting = q.waiting /\ q'.txLock = q.txLock /\ q'.rxLock = queueUNLOCKED
    BY <1>2, UnlockRxStep
  <2>2. Changed(t, op[t], "resumeAll") /\ (Turn(op[t], pc[t]) => Turn(op[t], "resumeAll"))
    BY <2>1, SameCall DEF Changed, Turn, Leaving
  <2>3. Advanced(k, k') /\ k'.cur = t /\ pc'[k'.cur] # "place"
    BY <2>1, <1>0 DEF WakeInv
  <2>4. /\ AvailableIn(q', TRUE) = AvailableIn(q, TRUE) /\ LockOf(q, TRUE) = q.rxLock
        /\ LockOf(q', TRUE) = queueUNLOCKED
    BY <2>1 DEF AvailableIn, LockOf
  <2>5. PICK s \in BOOLEAN : s = TRUE
    BY <1>0
  <2>6. Pledged(s)'
    <3>1. Pledged(s) /\ LockOf(q, s) \in Nat /\ WakeInv(ListOf(s), k, LockOf(q, s), k')
      BY <1>0, <2>1, <2>4, <2>5 DEF Pledges
    <3>2. /\ LockOf(q', s) = queueUNLOCKED /\ AvailableIn(q', s) = AvailableIn(q, s)
          /\ "resumeAll" \in Leaving
      BY <2>4, <2>5 DEF Leaving
    <3> QED
      BY <3>1, <3>2, <2>2, <2>3, AllWoken
  <2>7. PICK x \in BOOLEAN : x = FALSE
    BY <1>0
  <2>8. Pledged(x)'
    <3>1. AvailableIn(q', x) = AvailableIn(q, x) /\ LockOf(q', x) = LockOf(q, x)
      BY <2>1, <2>7 DEF AvailableIn, LockOf
    <3>2. AvailableIn(q, x) \in Nat /\ LockOf(q, x) \in Int
      BY TwoRings, MatchNumbers
    <3>3. LockOf(q', x) >= LockOf(q, x) /\ AvailableIn(q', x) <= AvailableIn(q, x)
      BY <3>1, <3>2
    <3>4. Pledged(x)
      BY <2>7 DEF Pledges
    <3> QED
      BY <3>3, <3>4, <2>2, <2>3, StepKept
  <2> QED
    BY <2>5, <2>6, <2>7, <2>8 DEF Pledges
<1> QED
  BY <1>1, <1>2

\* The list of a direction.
LEMMA Directions ==
    ASSUME NEW s \in BOOLEAN
    PROVE  /\ ListOf(s) \in EventList
           /\ s => ListOf(s) = "xTasksWaitingToSend"
           /\ ~s => ListOf(s) = "xTasksWaitingToReceive"
BY QueueAssumption DEF ListOf

\* A transfer adds at most one to what the other side may have, and takes one
\* from its own, unless there is none.
LEMMA TransferCounts ==
    ASSUME Base, Base', q'.use = q.use, NEW own \in BOOLEAN,
           IF own THEN Stored(q') ELSE Fetched(q')
    PROVE  /\ AvailableIn(q', ~own) <= AvailableIn(q, ~own) + 1
           /\ AvailableIn(q', own) <= AvailableIn(q, own)
           /\ AvailableIn(q', own) = 0 \/ AvailableIn(q', own) = AvailableIn(q, own) - 1
<1>1. q \in Queue_t /\ RingOK(q)
  BY TwoRings
<1>2. q.waiting \in 0..uxLength /\ uxLength \in Nat /\ q'.use.uxLength = uxLength
  BY <1>1, RingFields DEF uxLength
<1>3. PICK n \in Nat, a \in Nat : n = uxLength /\ a = q.waiting /\ a <= n
  BY <1>2
<1>4. CASE own
  <2>1. \/ q'.waiting = a + 1 /\ a < n
        \/ q'.waiting = a /\ a = n
    BY <1>3, <1>4 DEF Stored
  <2> QED
    BY <2>1, <1>2, <1>3, <1>4 DEF AvailableIn, uxLength
<1>5. CASE ~own
  <2>1. q'.waiting = a - 1 /\ a > 0
    BY <1>3, <1>5 DEF Fetched
  <2> QED
    BY <2>1, <1>2, <1>3, <1>5 DEF AvailableIn, uxLength
<1> QED
  BY <1>4, <1>5

\* The task that takes an item (or a slot) was one of those that would look.
LEMMA OwnTransfer ==
    ASSUME Base, Base', NEW own \in BOOLEAN, Pledged(own), Advanced(k, k'),
           NEW t \in Task, NEW o, NEW label, Changed(t, o, label), LockOf(q', own) = LockOf(q, own),
           AvailableIn(q', own) = 0 \/ AvailableIn(q', own) = AvailableIn(q, own) - 1
    PROVE  Pledged(own)'
<1> SUFFICES ASSUME Expecting(k', op', pc', own)
             PROVE  Matched(ComersOf(k', op', pc', own), q', own)
  BY PledgedNext
<1>1. PICK c, d : c = ComersOf(k, op, pc, own) /\ d = ComersOf(k', op', pc', own)
  OBVIOUS
<1>2. IsFiniteSet(c) /\ IsFiniteSet(d) /\ Cardinality(c) \in Nat /\ Cardinality(d) \in Nat
  BY <1>1, ComersAreFew
<1>3. q \in Queue_t /\ RingOK(q) /\ q' \in Queue_t /\ RingOK(q')
  BY TwoRings
<1>4. AvailableIn(q, own) \in Nat /\ AvailableIn(q', own) \in Nat /\ LockOf(q, own) \in Int
  BY <1>3, MatchNumbers
<1>5. CASE AvailableIn(q', own) = 0
  <2>1. Matched(d, q', own)
    BY <1>2, <1>3, <1>5, NothingThere
  <2> QED
    BY <2>1, <1>1
<1>6. CASE AvailableIn(q', own) = AvailableIn(q, own) - 1
  <2>1. Expecting(k, op, pc, own)
    BY ExpectingBefore
  <2>2. Matched(c, q, own)
    BY <2>1, <1>1 DEF Pledged, Comers
  <2>3. c \ {t} \subseteq d
    BY <1>1, ComersStay DEF Changed
  <2>4. IsFiniteSet(c \ {t}) /\ Cardinality(c \ {t}) <= Cardinality(d)
    BY <1>2, <2>3, FS_Subset
  <2>5. Cardinality(c \ {t}) = IF t \in c THEN Cardinality(c) - 1 ELSE Cardinality(c)
    BY <1>2, FS_RemoveElement
  <2>6. PICK g \in Int : g = 0 - 1
    OBVIOUS
  <2>7. Cardinality(d) >= Cardinality(c) + g
    BY <1>2, <2>4, <2>5, <2>6
  <2>8. AvailableIn(q', own) <= AvailableIn(q, own) + g /\ LockOf(q', own) >= LockOf(q, own)
    BY <1>4, <1>6, <2>6
  <2>9. Matched(d, q', own)
    BY <1>2, <1>3, <2>2, <2>7, <2>8, MatchedMore
  <2> QED
    BY <2>9, <1>1
<1> QED
  BY <1>5, <1>6

\* The critical section at the top of the loop, when the call can be carried
\* out: the task leaves those that will look, and the first waiter of the
\* other side (or, after a peek, of its own) joins them.
LEMMA SucceedPledge ==
    ASSUME Base, Base', Pledges, NEW t \in Task, Succeed(t)
    PROVE  Pledges'
<1>1. /\ k.cur = t /\ pc[t] = "try" /\ t \in ReadyTasks(k) /\ Unlocked(k, q)
      /\ pc' = [pc EXCEPT ![t] = "run"] /\ op' = [op EXCEPT ![t] = NoOp]
      /\ Advanced(k, k') /\ Transferred(q')
      /\ \/ op[t].send /\ Stored(q') /\ WokenOne(k, k', "xTasksWaitingToReceive")
         \/ ~op[t].send /\ q' = q /\ WokenOne(k, k', "xTasksWaitingToReceive")
         \/ ~op[t].send /\ Fetched(q') /\ WokenOne(k, k', "xTasksWaitingToSend")
  BY SucceedStep
<1>2. Changed(t, NoOp, "run")
  BY <1>1 DEF Changed
<1>3. /\ pc \in [Task -> Label] /\ k'.cur \in Task /\ op[t].send \in BOOLEAN
      /\ q.rxLock \in Int /\ q.txLock \in Int
  <2>1. KernelOK(k')
    BY DEF Base, KernelOK, Apart, Timed, IdleReady, Sorted
  <2> QED
    BY <2>1, KernelParts DEF Base, Typed, Call_t, Queue_t
<1>4. pc'[k'.cur] # "place"
  BY <1>1, <1>3 DEF Base, CpuOK, Locking
<1>5. \A s \in BOOLEAN : LockOf(q', s) = LockOf(q, s)
  BY <1>1 DEF Transferred, LockOf
<1>6. PICK own \in BOOLEAN : own = op[t].send
  BY <1>3
<1>7. PICK other \in BOOLEAN : other = ~own
  OBVIOUS
<1>8. Pledged(own) /\ Pledged(other)
  BY <1>6, <1>7 DEF Pledges
<1>9. ~(op[t].send = other /\ Turn(op[t], pc[t]))
  BY <1>6, <1>7
<1>10. PICK g \in {0, 1} : g = 1
  OBVIOUS
<1>11. PICK zero \in {0, 1} : zero = 0
  OBVIOUS
<1>12. CASE IF own THEN Stored(q') ELSE Fetched(q')
  <2>1. /\ AvailableIn(q', other) <= AvailableIn(q, other) + g
        /\ AvailableIn(q', own) = 0 \/ AvailableIn(q', own) = AvailableIn(q, own) - 1
    BY <1>1, <1>7, <1>10, <1>12, TransferCounts DEF Transferred
  <2>2. CASE WokenOne(k, k', ListOf(other))
    <3>1. Pledged(other)'
      BY <1>1, <1>2, <1>4, <1>5, <1>8, <1>9, <2>1, <2>2, OneWoken
    <3>2. Pledged(own)'
      BY <1>1, <1>2, <1>5, <1>8, <2>1, OwnTransfer
    <3> QED
      BY <3>1, <3>2, <1>7 DEF Pledges
  <2>3. CASE ~WokenOne(k, k', ListOf(other))
    <3>1. ~own /\ q' = q
      BY <1>1, <1>6, <1>7, <2>3, Directions
    <3>2. Fetched(q') /\ q.waiting \in Int
      BY <1>12, <3>1 DEF Base, Typed, Queue_t
    <3> QED
      BY <3>1, <3>2 DEF Fetched
  <2> QED
    BY <2>2, <2>3
<1>13. CASE ~own /\ q' = q /\ WokenOne(k, k', "xTasksWaitingToReceive")
  <2>1. \A s \in BOOLEAN : AvailableIn(q, s) \in Nat /\ LockOf(q, s) \in Int
    BY TwoRings, MatchNumbers
  <2>2. AvailableIn(q', own) <= AvailableIn(q, own) + zero
    BY <2>1, <1>11, <1>13
  <2>3. AvailableIn(q', other) <= AvailableIn(q, other) /\ LockOf(q', other) >= LockOf(q, other)
    BY <2>1, <1>13
  <2>4. WokenOne(k, k', ListOf(own))
    BY <1>13, Directions
  <2>5. Pledged(own)'
    BY <1>1, <1>2, <1>4, <1>5, <1>8, <1>11, <2>2, <2>4, OneWoken
  <2>6. Pledged(other)'
    BY <1>1, <1>2, <1>8, <1>9, <2>3, StepKept
  <2> QED
    BY <2>5, <2>6, <1>7 DEF Pledges
<1> QED
  BY <1>1, <1>6, <1>12, <1>13

\* A transfer of the ISR: a waiter of the other side is woken, or the
\* transfer is counted for the task that has the queue locked.
LEMMA IsrTransfer ==
    ASSUME Base, Base', Pledges, Advanced(k, k'), k'.cur = k.cur, UNCHANGED <<pc, op>>, q'.use = q.use,
           NEW own \in BOOLEAN, IF own THEN Stored(q') ELSE Fetched(q'),
           LockOf(q', own) = LockOf(q, own), Signalled(LockOf(q, ~own), LockOf(q', ~own), ListOf(~own))
    PROVE  Pledges'
<1>1. PICK other \in BOOLEAN : other = ~own
  OBVIOUS
<1>2. Pledged(own) /\ Pledged(other)
  BY <1>1 DEF Pledges
<1>3. /\ AvailableIn(q', other) <= AvailableIn(q, other) + 1
      /\ AvailableIn(q', own) <= AvailableIn(q, own)
  BY <1>1, TransferCounts
<1>4. \A s \in BOOLEAN : AvailableIn(q, s) \in Nat /\ LockOf(q, s) \in Int /\ AvailableIn(q', s) \in Nat
  BY TwoRings, MatchNumbers
<1>5. PICK t : t = k.cur
  OBVIOUS
<1>6. t \in Task /\ KernelOK(k) /\ k.live = Task
  BY <1>5, KernelParts DEF Base
<1>7. Changed(t, op[t], pc[t])
  <2>1. op' = [op EXCEPT ![t] = op[t]] /\ pc' = [pc EXCEPT ![t] = pc[t]]
    BY <1>6 DEF Base, Typed
  <2> QED
    BY <2>1 DEF Changed
<1>8. Pledged(own)'
  <2>1. LockOf(q', own) >= LockOf(q, own)
    BY <1>4
  <2> QED
    BY <2>1, <1>2, <1>3, <1>6, <1>7, StepKept
<1>9. Signalled(LockOf(q, other), LockOf(q', other), ListOf(other))
  BY <1>1
<1>10. PICK g \in {0, 1} : g = 1
  OBVIOUS
<1>11. Expecting(k', op', pc', other) => Expecting(k, op, pc, other)
  BY <1>6, <1>7, ExpectingBefore
<1>12. ComersOf(k, op, pc, other) \subseteq ComersOf(k', op', pc', other)
  <2>1. PICK o, label : o = op[t] /\ label = pc[t]
    OBVIOUS
  <2>2. op' = [op EXCEPT ![t] = o] /\ pc' = [pc EXCEPT ![t] = label]
    BY <2>1, <1>7 DEF Changed
  <2>3. op[t].send = other /\ Turn(op[t], pc[t]) => o.send = other /\ Turn(o, label)
    BY <2>1
  <2> QED
    BY <2>2, <2>3, <1>6, ComersStay, ZenonT(60)
<1>13. CASE LockOf(q, other) = queueUNLOCKED
  <2>1. LockOf(q', other) = LockOf(q, other) /\ WokenOne(k, k', ListOf(other))
    BY <1>9, <1>13 DEF Signalled
  <2>2. pc'[k'.cur] # "place"
    BY <1>4, <1>13 DEF Base, CpuOK, CpuGood, TxLocking, RxLocking, LockOf, queueUNLOCKED
  <2>3. PICK i : i = Idle
    OBVIOUS
  <2>4. i \in Task /\ i \in ReadyTasks(k) /\ Changed(i, op[i], pc[i])
    <3>1. i \in Task /\ i \in ReadyTasks(k)
      BY <2>3, <1>6, TasksAssumption DEF KernelOK, IdleReady
    <3>2. op' = [op EXCEPT ![i] = op[i]] /\ pc' = [pc EXCEPT ![i] = pc[i]]
      BY <3>1 DEF Base, Typed
    <3> QED
      BY <3>1, <3>2 DEF Changed
  <2>5. Pledged(other)'
    BY <2>1, <2>2, <2>4, <1>2, <1>3, <1>10, OneWoken
  <2> QED
    BY <2>5, <1>8, <1>1 DEF Pledges
<1>14. CASE LockOf(q, other) # queueUNLOCKED
  <2>1. PICK l, n : l = LockOf(q, other) /\ n = LockOf(q', other)
    OBVIOUS
  <2>2. l \in Nat /\ n = IncrementLock(l)
    BY <2>1, <1>9, <1>14 DEF Signalled
  <2>3. PICK N : N = Cardinality(Task)
    OBVIOUS
  <2>4. N \in Nat /\ n = IF l < N THEN l + 1 ELSE l
    BY <2>2, <2>3, <1>6, ComersAreFew DEF IncrementLock
  <2>5. PICK c, d : c = ComersOf(k, op, pc, other) /\ d = ComersOf(k', op', pc', other)
    OBVIOUS
  <2>6. IsFiniteSet(d) /\ Cardinality(c) \in Nat /\ Cardinality(d) \in Nat
    BY <2>5, ComersAreFew
  <2>7. Cardinality(c) <= Cardinality(d)
    BY <1>12, <2>5, <2>6, FS_Subset
  <2>8. ASSUME Expecting(k', op', pc', other) PROVE Matched(d, q', other)
    <3>1. Matched(c, q, other)
      BY <2>8, <1>2, <1>11, <2>5 DEF Pledged, Comers
    <3>2. PICK x, y, a, b : /\ x = Cardinality(c) /\ y = Cardinality(d)
                            /\ a = AvailableIn(q, other) /\ b = AvailableIn(q', other)
      OBVIOUS
    <3>3. x \in Nat /\ y \in Nat /\ a \in Nat /\ b \in Nat /\ x <= y /\ b <= a + 1
      BY <3>2, <1>3, <1>4, <2>6, <2>7
    <3>4. x + (IF l > 0 THEN l ELSE 0) >= a \/ l >= N
      BY <3>1, <3>2, <2>1, <2>3 DEF Matched
    <3>5. y + (IF n > 0 THEN n ELSE 0) >= b \/ n >= N
      BY <3>3, <3>4, <2>2, <2>4
    <3> QED
      BY <3>5, <3>2, <2>1, <2>3 DEF Matched
  <2>9. Pledged(other)'
    BY <2>5, <2>8, PledgedNext
  <2> QED
    BY <2>9, <1>8, <1>1 DEF Pledges
<1> QED
  BY <1>13, <1>14

\* The steps outside the calls.
LEMMA OutsidePledge ==
    ASSUME Base, Base', Pledges, IdleLoop \/ Isr \/ vTickISR \/ UNCHANGED vars
    PROVE  Pledges'
<1>0. TRUE \in BOOLEAN /\ FALSE \in BOOLEAN
  OBVIOUS
<1>1. CASE IdleLoop \/ vTickISR \/ UNCHANGED vars
  <2>1. Advanced(k, k') /\ q' = q /\ op' = op /\ pc' = pc
    <3>1. CASE IdleLoop
      BY <3>1, IdleStep
    <3>2. CASE vTickISR
      BY <3>2, TickISRStep
    <3>3. CASE UNCHANGED vars
      BY <3>3, SameKernel DEF vars
    <3> QED
      BY <1>1, <3>1, <3>2, <3>3
  <2>2. PICK i, o, label : i = Idle /\ o = op[i] /\ label = pc[i]
    OBVIOUS
  <2>3. i \in Task
    BY <2>2, TasksAssumption
  <2>4. op' = [op EXCEPT ![i] = o] /\ pc' = [pc EXCEPT ![i] = label]
    BY <2>1, <2>2, <2>3 DEF Base, Typed
  <2>5. Changed(i, o, label) /\ (Turn(op[i], pc[i]) => o.send = op[i].send /\ Turn(o, label))
    BY <2>2, <2>4 DEF Changed
  <2> QED
    BY <2>1, <2>3, <2>5, QuietCall
<1>2. CASE IsrSent
  <2>1. PICK own \in BOOLEAN : own = TRUE
    BY <1>0
  <2>2. /\ Advanced(k, k') /\ k'.cur = k.cur /\ UNCHANGED <<pc, op>> /\ q'.use = q.use /\ Stored(q')
        /\ q'.rxLock = q.rxLock /\ Signalled(q.txLock, q'.txLock, "xTasksWaitingToReceive")
    BY <1>2 DEF IsrSent
  <2>3. /\ LockOf(q, own) = q.rxLock /\ LockOf(q', own) = q'.rxLock /\ LockOf(q, ~own) = q.txLock
        /\ LockOf(q', ~own) = q'.txLock /\ ListOf(~own) = "xTasksWaitingToReceive"
    BY <2>1 DEF LockOf, ListOf
  <2> QED
    BY <2>1, <2>2, <2>3, IsrTransfer
<1>3. CASE IsrReceived
  <2>1. PICK own \in BOOLEAN : own = FALSE
    BY <1>0
  <2>2. /\ Advanced(k, k') /\ k'.cur = k.cur /\ UNCHANGED <<pc, op>> /\ q'.use = q.use /\ Fetched(q')
        /\ q'.txLock = q.txLock /\ Signalled(q.rxLock, q'.rxLock, "xTasksWaitingToSend")
    BY <1>3 DEF IsrReceived
  <2>3. /\ LockOf(q, own) = q.txLock /\ LockOf(q', own) = q'.txLock /\ LockOf(q, ~own) = q.rxLock
        /\ LockOf(q', ~own) = q'.rxLock /\ ListOf(~own) = "xTasksWaitingToSend"
    BY <2>1 DEF LockOf, ListOf
  <2> QED
    BY <2>1, <2>2, <2>3, IsrTransfer
<1> QED
  BY <1>1, <1>2, <1>3, IsrStep

\* Every step keeps the promise to those that wait.
LEMMA PledgedStep ==
    ASSUME Base, Base', Pledges, [Next]_vars
    PROVE  Pledges'
<1>1. ASSUME NEW t \in Task, Call(t) \/ Continue(t) PROVE Pledges'
  BY <1>1, CallPledge, LeavePledge, GotoPledge, CheckPledge, PlacePledge, UnlockPledge, SucceedPledge
     DEF Continue
<1> QED
  BY <1>1, OutsidePledge DEF Next

\* At the start nobody waits.
LEMMA PledgedInit ==
    ASSUME Init
    PROVE  Pledges
<1>1. \A l \in EventList : k.event[l] = <<>>
  BY InitKernel
<1>2. k.cur \in Task
  BY InitKernel, KernelParts
<1>3. pc[k.cur] = "run"
  BY <1>2 DEF Init
<1>4. \A s \in BOOLEAN : ~Expecting(k, op, pc, s)
  BY <1>1, <1>3, Directions DEF Expecting
<1> QED
  BY <1>4 DEF Pledges, Pledged

\* While tasks wait, each item (or free slot) is matched by a task that will
\* look at the queue or by a transfer counted for prvUnlockQueue.
THEOREM PledgedInvariance == Spec => []Pledges
<1>1. Init => Pledges
  BY PledgedInit
<1>2. Base /\ Base' /\ Pledges /\ [Next]_vars => Pledges'
  BY PledgedStep
<1> QED
  BY <1>1, <1>2, BaseInvariance, PTL DEF Spec

\* No wake-up is lost (NoLostWakeup): while the queue is unlocked and holds
\* an item, a receiver stays blocked only if another one will look, and the
\* same for senders and a free slot (xQueueGenericSend, xQueueReceive,
\* prvUnlockQueue and the FromISR functions).
THEOREM WakeupsKept == Spec => []NoLostWakeup
<1>1. Base /\ Pledges => NoLostWakeup
  <2> SUFFICES ASSUME Base, Pledges PROVE NoLostWakeup
    OBVIOUS
  <2>1. ASSUME NEW s \in BOOLEAN, LockOf(q, s) = queueUNLOCKED, AvailableIn(q, s) > 0,
               ToSet(k.event[ListOf(s)]) # {}
        PROVE  Active(s)
    <3>1. Pledged(s)
      BY DEF Pledges
    <3>2. k.event[ListOf(s)] # <<>>
      BY <2>1 DEF ToSet
    <3>3. PICK c : c = ComersOf(k, op, pc, s)
      OBVIOUS
    <3>4. Matched(c, q, s)
      BY <3>1, <3>2, <3>3 DEF Pledged, Expecting, Comers
    <3>5. /\ IsFiniteSet(c) /\ Cardinality(c) \in Nat /\ Cardinality(Task) \in Nat
          /\ AvailableIn(q, s) \in Nat
      BY <3>3, ComersAreFew, MatchNumbers DEF Base, Typed
    <3>6. LockOf(q, s) = 0 - 1
      BY <2>1 DEF queueUNLOCKED
    <3>7. Cardinality(c) > 0
      BY <2>1, <3>4, <3>5, <3>6 DEF Matched
    <3>8. c # {}
      BY <3>5, <3>7, FS_EmptySet
    <3>9. PICK t : t \in c
      BY <3>8
    <3>10. t \in User /\ op[t].send = s /\ Turn(op[t], pc[t]) /\ ~InEvents(k, t)
      BY <3>3, <3>9 DEF ComersOf
    <3> QED
      BY <3>10 DEF Active, Waiting, InEvents, Turn, Leaving
  <2>2. q.waiting \in Int /\ uxLength \in Int /\ TRUE \in BOOLEAN /\ FALSE \in BOOLEAN
    BY RingFields DEF Base, Typed, Queue_t
  <2>3. ASSUME q.txLock = queueUNLOCKED, q.waiting > 0, Waiting("xTasksWaitingToReceive") # {}
        PROVE  Active(FALSE)
    <3>1. PICK s \in BOOLEAN : s = FALSE
      BY <2>2
    <3>2. LockOf(q, s) = queueUNLOCKED /\ AvailableIn(q, s) > 0 /\ ToSet(k.event[ListOf(s)]) # {}
      BY <2>3, <3>1 DEF LockOf, AvailableIn, ListOf, Waiting
    <3> QED
      BY <3>1, <3>2, <2>1
  <2>4. ASSUME q.rxLock = queueUNLOCKED, q.waiting < uxLength, Waiting("xTasksWaitingToSend") # {}
        PROVE  Active(TRUE)
    <3>1. PICK s \in BOOLEAN : s = TRUE
      BY <2>2
    <3>2. LockOf(q, s) = queueUNLOCKED /\ AvailableIn(q, s) > 0 /\ ToSet(k.event[ListOf(s)]) # {}
      BY <2>2, <2>4, <3>1 DEF LockOf, AvailableIn, ListOf, Waiting, uxLength
    <3> QED
      BY <3>1, <3>2, <2>1
  <2> QED
    BY <2>3, <2>4 DEF NoLostWakeup
<1> QED
  BY <1>1, BaseInvariance, PledgedInvariance, PTL
=============================================================================
