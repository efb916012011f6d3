# A TLA+ model of lwip_TQ_s3c2440

The repository runs FreeRTOS and lwIP 1.4.1 on a TQ2440 board (Samsung S3C2440,
an ARM920T, with a DM9000 Ethernet chip). This directory models the parts of it
that are hard to test: the kernel's scheduler as this port drives it, task
notifications, queues and semaphores, the heap, the arithmetic on a tick counter
that wraps, the receive path from the Ethernet chip to lwIP, and in lwIP the
packet buffers, ARP, IPv4 with reassembly, the timeouts and TCP between two
hosts over a network that loses, duplicates and reorders. TLC checks the models
on small instances; TLAPS proves the safety of the scheduler, the queues, the
heap, the tick arithmetic, the receive path, and of lwIP's buffers, ARP table,
reassembly and timeouts for every value of the constants.
`PROJECT.json` lists the runs, the source lines behind each definition, the
hazards and the theorems.

## Inventory

| Component | State | Operations | Interacts with | What is hard | What makes it correct |
|---|---|---|---|---|---|
| Kernel lists (`list.c`) | rings of items with an end marker, `pxIndex` | insert at the end, insert in order, remove, next owner | every kernel object | removal of the item `pxIndex` is at | round robin over the owners; sorted lists stay sorted |
| Scheduler (`tasks.c`) | ready, delayed, overflow, pending, suspended and termination lists, `pxCurrentTCB`, tick counts, `uxTopReadyPriority`, `xNextTaskUnblockTime`, `xYieldPending`, `uxSchedulerSuspended` | create, delete, delay, delay until, suspend, resume, priority set, suspend all, resume all, tick, context switch, idle task | port (tick, yield), queues (event lists) | ticks and ISRs between the steps of a call; wrapping time; deferred work | one state list per task; nobody oversleeps or wakes early; the highest ready priority runs |
| Task notifications (`tasks.c`) | `ucNotifyState`, `ulNotifiedValue` | take, wait, notify, their FromISR forms, clear | scheduler | the state says "waiting" until the task runs again, whatever list it is in meanwhile | a notified waiter runs, a suspended task stays suspended |
| Port (`ARM9_s3c2440`, `start2.s`) | processor modes, saved contexts | SWI yield, tick as FIQ, IRQ entry and exit | scheduler | the FIQ interrupts SWI and IRQ handlers | a switch that is needed happens |
| Queues (`queue.c`) | ring buffer, message count, lock counts, two event lists | send, receive, peek, overwrite, semaphore take and give, their FromISR forms, lock, unlock | scheduler | an ISR between the test and the blocking of a task; timeouts over several rounds | a bounded FIFO; no lost wake-up; no early timeout |
| Event groups, stream buffers | bits and waiters; a byte ring with trigger level | set, clear, wait, sync; send, receive | scheduler | bits consumed by several waiters | every waiter whose condition holds is released |
| Heap (`heap_4.c`) | free list ordered by address, counts of free bytes | allocate, free | task creation and deletion | splitting and coalescing; a block between the two parts of `vPortFree` | blocks never overlap, no byte is lost, neighbours are merged |
| Receive path (`dm9000.c`, `exti.c`, `irq.c`, `main.c`, `ethernetif.c`) | chip registers and memory, interrupt controller, `exti_status` | interrupt, handler, polling loop, `eth_rx`, `eth_send`, `ethernetif_input` | lwIP, interrupt controller | a level interrupt that is masked, latched in three registers and cleared in separate steps | no receive request is lost; the interrupt is not left masked |
| lwIP timeouts (`timers.c`) | list of time differences | `sys_timeout`, `sys_check_timeouts`, `tcp_timer_needed` | ARP, TCP, IP reassembly | handlers re-arm themselves while the list is walked | no timer is lost or armed twice, none hurries another |
| lwIP buffers (`pbuf.c`, `memp.c`, `mem.c`) | chains with reference counts, pools | alloc, free, ref, cat, chain | all of lwIP | shared tails, buffers handed from layer to layer | every reference has one holder, all buffers come back |
| ARP (`etharp.c`) | table of states, ages, one queued packet per entry, a cached index | input, query, output, timer | IPv4, buffers | a table smaller than the network, entries recycled under the cached index | frames go to the neighbour they are for, queued packets are sent or freed |
| IPv4, ICMP, UDP (`ip.c`, `ip_frag.c`, `icmp.c`, `udp.c`) | reassembly list and count of buffers | input, output, fragment, reassemble, echo, errors | ARP, buffers, application | fragments out of order, twice, never; limits; timeouts | a datagram is delivered whole or dropped; the count follows the buffers |
| TCP (`tcp.c`, `tcp_in.c`, `tcp_out.c`) | PCBs: states, windows, `unsent`, `unacked`, `ooseq`, `refused_data` | connect, listen, write, output, recved, close, shutdown, abort, input, fast and slow timer | IPv4, applications | loss, duplication, reordering, retransmission, windows that close, both sides ending at once | the stream arrives once and in order, windows are accounted for, connections end |
| Raw, DHCP, DNS, AutoIP, IGMP, SNMP, PPP, sockets | PCB lists, client states | | IPv4 | | not used by this application |
| Board start-up, NAND, UART, timers | registers | straight-line set-up | | | |

At the commit modelled `main` creates `LwipTimerTask` and `LEDTask` and starts
the scheduler; `LwipInputTask`, `lwip_init` and `dm9k_netif_init` are commented
out, and the polling loop behind `vTaskStartScheduler` is reached only when the
scheduler cannot start. The receive path and lwIP are modelled as that loop, the
handler and the driver work together when they run.

The build has `configUSE_TIMERS`, `configUSE_MUTEXES` and
`configUSE_QUEUE_SETS` off, preemption, time slicing, task notifications and
`vTaskSuspend` on, five priorities and a 32 bit `TickType_t`; lwIP is built with
`NO_SYS`, `ARP_QUEUEING` 0 and assertions that loop for ever.

## Modules

| Module | Models | How |
|---|---|---|
| `List` | `list.c`, `list.h` | a ready list is the sequence of items after `pxIndex`, end marker included; the other lists are plain or sorted sequences. Pointers are abstracted |
| `Ticks` | the comparisons of `tasks.c` on `TickType_t` | operators modulo `TickMod` |
| `TickClock` | the tick count and a noted time (`vTaskSetTimeOutState`, `pxPreviousWakeTime`) next to a time that does not wrap | two actions; the decisions of `Ticks` are the properties |
| `Loops` | how a loop of the code is written: so many rounds of its body | `Iterate`, a recursive function, so that a rule of induction can be proved for it |
| `Tasks` | the state of `tasks.c` as one record `k`, its internal functions as operators from `k` to `k` | no variables; used by `Sched` and `Queue` |
| `Sched` | the task API, notifications, the idle task and the port | one action per stretch of code that nothing can interrupt (a critical section, or code between two of them that reads shared state); `mode` is the processor mode, `pc` where each task stopped |
| `QueueSpec` | what a queue promises: a bounded sequence | the abstract specification |
| `Queue` | `queue.c` over the kernel state of `Tasks` | the loop that `xQueueGenericSend`, `xQueueReceive`, `xQueuePeek` and `xQueueSemaphoreTake` share, step by step; ISR forms as single steps |
| `NetDriver` | the chip, the interrupt controller, `irq_handle`, `exti4_7_handler`, the loop of `main`, `eth_rx`, `eth_send`, `ethernetif_input` | one action per register access that another party can see |
| `Heap` | `heap_4.c` | `pvPortMalloc` is one step, since it runs with the scheduler suspended; `vPortFree` is two, `vPortFree` up to `vTaskSuspendAll` and `FreeLocked` from there on |
| `TcpPcb` | `tcp_in.c`, `tcp_out.c` and the functions of `tcp.c` on one PCB | operators on a record `p` with the fields of `struct tcp_pcb`; no variables |
| `Tcp` | two hosts, their applications and the network | one action per call into the stack: the application's, a timer's, `tcp_input` for one segment |
| `Pbuf` | `pbuf.c` and the pools | operators on an arena of buffers |
| `Etharp`, `Ip` | `etharp.c`; `ip.c`, `ip_frag.c`, `icmp.c`, `udp.c` | operators on a record `n`, the state of the stack |
| `Timeouts` | the list `next_timeout` of `timers.c` | operators on a sequence |
| `Stack` | the main loop of a `NO_SYS` system on all of these | one action per frame, call of the application and `sys_check_timeouts` |
| `HeapProofs`, `TickClockProofs`, `NetDriverProofs`, `SchedProofs`, `QueueProofs`, `StackProofs` | the theorems and their proofs | |
| `KernelProofs`, `LoopProofs` | what the operations of `List` and `Tasks` do, and the rule for loops; lemmas for the other proofs | |
| `MCSched`, `MCQueue`, `MCHeap`, `MCTcp`, `MCStack` | model values, symmetry, uses and loads for TLC | |

`Sched` and `Queue` compose the port, the kernel and its objects over `Tasks`;
`Stack` composes `Timeouts`, `Ip`, `Etharp` and `Pbuf`.

An operator whose comment begins with "Mutant" is a plausible error in the
definition that follows it. It is not part of the specification; it is there to
see that a property notices.

A constant `Uses` or `Loads` is a set of programs or scenarios; a behaviour
picks one in its initial state and keeps it. One run so covers several kinds of
use without the product of all of them.

### The kernel state

Every list of `tasks.c` is a field of `k`: `ready[p]`, `delayed`, `overflow`,
`pending`, `suspended`, `dead` (`xTasksWaitingTermination`), `event[l]` for each
event list. `wake[t]` is the value of the state list item of `t`. `locks` is
`uxSchedulerSuspended`, `pended` `xPendedTicks`, `yield` `xYieldPending`, `next`
`xNextTaskUnblockTime`, `top` `uxTopReadyPriority`. `live` holds the TCBs that
exist. `notify` and `value` are the state and the value of one of the three
notifications of a task. Two fields are auxiliary:
`asleep`, the tasks `vTaskSuspend` has suspended, which the code cannot tell from
those that wait for ever, and `gone`, the tasks `vTaskDelete` has taken out of
every list and whose TCB its caller has yet to free. `OneStateList` speaks of
the TCBs that are not `gone`: a task may be deleted itself, by a third one,
before it has freed the TCB it was about to free, and that TCB is then lost.

### The port

`vTickISR` is the tick in task context; `PendSwitch` the tick that interrupts an
IRQ handler or an SWI. Neither entry masks FIQ, so both happen, and `start2.s`
then drops the result of `xTaskIncrementTick`. `use.tickInHandler` says whether
the second one is part of a use: the list invariants hold with it, preemption
and time slicing hold only without it. `SvcEnter`, `SvcScan` and `SvcSelect` are
the steps of `vTaskSwitchContext` inside an SWI, where the tick can come between
the read and the write of `uxTopReadyPriority`. A yield inside a critical section
switches at once, with interrupts masked.

### The heap

`heap.size[a]` and `heap.nxt[a]` are the `BlockLink_t` at address `a`, `heap.free`
the set of blocks the walk along `pxNextFreeBlock` from `xStart` meets; that the
set and the links agree is part of `FreeListSound`. A walk is modelled by where
it ends. `used` are the blocks with the allocated bit, `freeing[t]` is the block
whose bit task `t` has cleared and which is in no list yet. A double free is
outside the model: `vPortFree` asserts against it.

### TCP

Data is a sequence of numbered bytes, so that a property can tell which byte
arrived; a queued segment is `[seq, data, syn, fin]`. Sequence numbers are
integers modulo `SeqSpace`, compared by their signed difference. `p.out`,
`p.recv_data` and `p.recv_flags` are what the current call has sent and received
(calls of `ip_output`, the statics of `tcp_in.c`); `Commit` ends every call. The
network is a set of segments: any of them may be next, a fault loses one or keeps
a copy. Both hosts run lwIP, the server from a listening PCB.

A timer is abstract: `p.rtime` and `p.persist` say that it runs, and a timer that
runs may expire at any call of `tcp_slowtmr`. The timeouts of `2 * TCP_MSL` of
LAST_ACK and TIME_WAIT are different, because the code counts them from
`pcb->tmr`, which a segment sets, and not from the entry into the state, nor any
segment after `tcp_close` (`tcp_in.c:618`). `p.stale` says that more than
`2 * TCP_MSL` have passed since `tmr` was set. It is set by `Quiet`, while no
segment is in flight (none lives longer than `TCP_MSL`) and no timer makes either
host send one or has nearly used up its retransmissions, or at any time once the
PCB ignores segments; it is cleared where the code sets `tmr` (`Refreshed`). So a
PCB that has been in CLOSE_WAIT for long is removed soon after it enters
LAST_ACK, with its data and FIN in flight, as in the code.

`TrimLast` compares as the code does at `tcp_in.c:1467`, as plain numbers. It
gives a segment a length beyond its data when only the edge of the window has
wrapped; `Missing` stands for the bytes that are not there, and `app[h].skipped`
counts the ones `rcv_nxt` has passed over. Left out are keepalives, the RTT
estimate, simultaneous open, several connections per host, `snd_queuelen` and
the paths on which memory runs out, and callbacks that call back into the stack.

### The stack

`n.pb[i]` is a buffer with its reference count, successor and contents; a buffer
with `ref` 0 is in its pool. A packet says which parts of which datagram it
carries, and whether its UDP header has a checksum (`sum`). Lengths and header
bytes are left out; a checksum is right unless the packet was damaged, or is a
reassembled datagram with a part missing (`Whole`). `n.wire` holds the IP
frames of the last step with the hardware address each goes to; `told[h]` is what
that address last said of itself: `etharp_update_arp_entry` takes any unicast
sender into the table, also one that is not on the local network (`Outside`).
Running out of `MEMP_FRAG_PBUF` (`ip_frag.c:781`) has the effect of having no
buffer for the header and is not a case of its own. The code uses its clock only as
`now - timeouts_last_time`, so that difference, `n.since`, is the clock of the
model. `n.hung` is an assertion that failed: the board then does nothing more.
TCP takes part only with its timer (`TcpOpen`, `TcpClose`, `tcpip_tcp_timer`).

## Runs

| Run | Checks | Shows |
|---|---|---|
| `tick_clock` | `ShouldDelayRight`, `TimeOutRight` | with `TickMod` 6 and `OverflowMod` 3, `xTaskDelayUntil` and `xTaskCheckForTimeOut` decide as a clock that does not wrap would |
| `sched` | `OneStateList`, `PendingIsBlocked`, `DelayedLists`, `NextUnblockNotLate`, `TopReadyInTasks`, `Preemptive`, `RunningTaskExists`, `NotifiedRuns`, `NoEarlyWake` | three uses. Timing: lists, wake times and deferred work survive every interleaving of delays, periodic delays, suspensions, ISRs and ticks, those inside handlers included. Changing: tasks created, deleted, suspended and re-prioritised in any order; the highest ready priority runs and no list refers to a freed TCB. Notifying: a notification wakes a task that waits, whatever list it is in, and never one that was suspended |
| `sched_live` | `DelayEnds`, `TimeSlicing` | delays end, equal priorities share the processor |
| `sched_top` (violation) | `TopReadyPriority` | with ticks inside SWI, `uxTopReadyPriority` can end below a ready task |
| `queue` | `NoLostWakeup`, `WaitersAreBlocked`, `HighestPriorityFirst`, `ImplementsQueue`, `NoEarlyTimeout` | four uses: a queue of two items and an ISR at both ends, a mailbox with `xQueueOverwrite` over a wrap of the counter, a queue into which tasks peek, a counting semaphore. Each implements `QueueSpec`; nobody stays blocked on a queue that could serve them; a call that times out has waited long enough |
| `netdriver_rx` | `MaskOwned`, `RaisedIsLatched`, `EverySignalServed` | the interrupt is masked exactly while a receive is owed, a raised request is never missed and is acknowledged in the end |
| `netdriver_nopacket` (violation) | `NoPacketIgnored` | an interrupt without a readable frame hands a pbuf of length 0 to the stack |
| `heap` | `BlocksTile`, `FreeListSound`, `AllFreed`, `FreeBytes`, `BlockHoldsRequest` | two tasks allocate and free in any order, one also while the other has cleared the allocated bit: memory is neither lost nor handed out twice, the list stays ordered and merged, `xFreeBytesRemaining` is the number of free bytes, a returned block holds its request |
| `tcp` | `StreamIntegrity`, `SendQueueComplete`, `AcksAreEarned`, `WindowAccounted`, `OoseqOrdered`, `EdgeNeverRetreats`, `AllDelivered`, `ConnectionEnds` | eight loads (handshake, three segments in flight, a window that closes, fast retransmit, refused data, simultaneous close, abort, a window whose edge wraps) with a fault each: bytes arrive once and in order, the send queue has no hole, nothing is acknowledged before it came, the window is what the application holds back, connections end; except for what the code skips at a wrapped edge, and for a sender that is removed in LAST_ACK (Observations) |
| `tcp_assert` (violation) | `AssertionsHold` | data that fills the window with the FIN behind it makes an assertion of `tcp_receive` fail |
| `stack` | `ReferencesHeld`, `ReassemblyBounded`, `RightNeighbour`, `TimersArmed`, `NoTimeoutHurried`, `BuffersReturn` | eight loads (neighbours that change, a host outside the network that takes an ARP entry, fragments out of order and twice, datagrams of two fragments that complete, one with a part missing and a checksum, two with packets of all kinds, connections that come and go under a late main loop): every reference to a buffer has its holder and all come back, frames go where they should, timers are neither lost nor hurried |
| `stack_hole` (violation) | `DatagramsWhole` | fragments 0, 3, 2 of four are delivered as a whole datagram, if it was sent without a UDP checksum |

### Bounds

- Tasks: two application tasks and the idle task. Two are enough for every pair
  of caller and target, for two waiters in one event list (the second is the one
  that has just placed itself) and for two tasks of equal priority.
- `TickMod` 3 to 6 stands for 2^32. Delays go up to `TickMod - 1`, so a wake
  time before, at and after the wrap and a full round of the counter occur.
  `sched*` use `OverflowMod` 1, because only the queue's timeouts read
  `xNumOfOverflows`; `queue` uses 2, and each of its uses ends (`EndOfTime`) at
  the latest with the last tick the two counts can tell apart.
- `maxPended` bounds `xPendedTicks` at 2 in use Timing: the loop in
  `xTaskResumeAll` runs more than once, and a wake time can pass while the
  scheduler is suspended. It is 1 in the other uses and in `Queue`.
- `MaxValue` 1 bounds `ulNotifiedValue`: the code only compares it with 0.
- `uxLength` 2 lets both ring positions wrap, 1 is the mailbox.
- The lock counts of a queue stop at the number of tasks, as in the code.
- The heap has 35 bytes from an odd address, alignment 2 and a header of 2, so
  `prvHeapInit` rounds both ends, and up to seven blocks exist, enough for a
  block with a free block on both sides and more behind. The requests are 0, three sizes
  that make the rest of a block fall on either side of `heapMINIMUM_BLOCK_SIZE`,
  one with the top bit of `size_t` (`SizeMod` 64) and one that overflows it.
- `FifoSize` 3 frames in the chip; one more than the two that are needed for a
  frame behind the one the interrupt was for.
- TCP: `TCP_WND` 4 and `TCP_SND_BUF` 5 with segments of one or two bytes, so
  that two to four segments fill the window and five bytes close it;
  `SeqSpace` 32, with the client's numbers starting at 30, so that they wrap in
  every load, and at 27 in `EdgeLoad`, where the right edge of the window wraps
  while segments of one byte are out of sequence; `TCP_MAXRTX` 4 and `TCP_SYNMAXRTX` 3, more than one fault can use
  up. A load allows one fault (a lost or duplicated segment, or a timer that
  expires while segments are in flight) and two or three segments in flight
  (`cap`): reordering needs two, a gap with data behind it two, a partial
  acknowledgment three.
- Stack: four pool buffers and three of the heap, so that both run out; two ARP
  entries for three neighbours; `ARP_MAXAGE` 3, `ARP_AGE_REREQUEST_USED` 2 and
  `ARP_MAXPENDING` 2 in their order; `IP_REASS_MAX_PBUFS` 3 and
  `MEMP_NUM_REASSDATA` 2, which the fragments of two datagrams exceed and one
  datagram of two or three fragments does not;
  `IP_REASS_MAXAGE` 1; three timeouts, as many as there are handlers, with the
  intervals 1, 2 and 3 in the order of the code's 250 ms, 1 s and 5 s. `stall`
  bounds how late the main loop may be.

`sched`, `sched_top` and `heap` use the symmetry of the two application tasks,
`queue` that of the items; the runs with liveness properties use none.

### Fairness

`Sched`: a tick that stays possible is taken (the request waits in `SRCPND`), a
handler that has started runs to its end, and a task that is inside a kernel call
and gets the processor again and again gets on. Nothing is assumed of what tasks
do on their own accord. `NetDriver`: a pending interrupt is taken and its handler
ends; the main loop, which handlers interrupt, gets on between them (strong
fairness); `netif->input` does not send answers for ever. `EverySignalServed` is
conditional on the key not being pressed for ever: EINT4 and EINT7 share an
interrupt and `exti4_7_handler` serves EINT4 first. It also excepts a device the
driver has stopped, since nothing starts it again.

`Tcp`: a segment that is not lost is delivered (faults are bounded, so the
network does not lose every copy), `tcp_fasttmr` and `tcp_slowtmr` are called
for ever (the main loop's `tcp_tmr`), time passes (a host that can be `Quiet`
will be), the applications write what they have,
return what they have read, take refused data in the end and end the connection
when their load says so. `Stack`: the clock runs, the main loop comes round to
`sys_check_timeouts`, and the application does not keep a datagram. Nothing is
assumed of the network. Both write weak fairness out as "infinitely often
disabled or infinitely often taken".

## Proofs

`HeapProofs` assumes `HeapAssumption`: the header is a positive multiple of the
alignment, and the aligned heap has room in front of `pxEnd`. The inductive
invariant `HeapInv` is `TypeOK` and, from the first allocation on, `Sound`: the
free blocks and the blocks that are out tile the heap (`Tiled`), and the links
are in order, leave no free block out and join no two that touch (`Linked`).
Neither half is inductive alone: that a freed block lands between its neighbours
needs the order of the list, that merging keeps the tiling needs the tiling. The
third clause of `Linked`, that some list element and its successor stand around
every byte, says that the walk of `prvInsertBlockIntoFreeList` finds its place;
stating it as an invariant avoids an induction over the list. One lemma covers
each change: `InsertSound`, `UnlinkSound` and `SplitSound`, from which
`TakeSound` (the work of `pvPortMalloc` on the block it found) follows. The
theorems are `TypeCorrect`, `HeapIsTiled`, `FreeListIsSound`, `FreedHeapIsWhole`
(from the tiling and the merging together), the action property
`RequestsAreHeld`, and `FreeBytesCounted`: `xFreeBytesRemaining` is the number of
bytes of the free blocks. Counted as a set of bytes, not as a sum over blocks,
the free memory needs no induction: `InsertBytes` shows that putting a block back
adds just its bytes, whichever neighbours it is merged with, and as the blocks do
not overlap the sizes add up (`InsertCounts`, `UnlinkCounts`, `TakeCounts`).

`TickClockProofs` assumes `TickMod` at least 2 (`TicksAssumption`) and
`OverflowMod` at least 2 (`ClockAssumption`). The inductive invariant is
`TypeOK /\ CountsTell`: for a round of the counter after a time was noted, the
tick count is that time plus the ticks passed, less `TickMod` exactly if the
overflow count has moved. `TimeOut` and `ShouldDelay` follow from it by linear
arithmetic once `%` is replaced by its two cases (lemmas `Wrap` and `Elapsed`);
`WakeList` needs no invariant beyond the type.

`NetDriverProofs` assumes only that `FifoSize` is a natural number and `Kinds` a
set of the four kinds of frame. `MaskOwned` is not inductive: that the handler
never sets `exti_status` while a receive is owed needs that it is entered only
unmasked, which needs that no request is pending while the interrupt is masked
and no handler runs. `HandlerUnmasked` states both, and that the loop clears
`exti_status` only when it is set; `TypeOK /\ MaskOwned /\ StatusOnce /\
HandlerUnmasked` is inductive. `RaisedIsLatched` is inductive with `TypeOK`.
The theorems are `MaskIsOwned`, `StatusIsSetOnce` and `RaisedStaysLatched`; that
the states have their types is a lemma they use.

`SchedProofs` proves every safety property of `sched`: for any set of tasks,
any priorities, `TickMod` from 2 on and any set of uses. `SchedAssumption` asks
of a use that its pended ticks stay below a round of the counter, and that it
does not have both an ISR that resumes and one that notifies (the assertion
under Observations fails otherwise, and with it `PendingIsBlocked`). The inductive
invariant `IInv` is the conjunction of

- `ListsOK`: the kernel record has its type, no state list item hangs in two
  lists, a ready one hangs in the list of its priority and the delayed lists are
  sorted (`Apart`), the wake times in `delayed` are above the tick count, those
  in `overflow` below it, and `xNextTaskUnblockTime` is not later than any of
  `delayed` (`Timed`). `DelayedLists` and `NextUnblockNotLate` are parts of it;
- `TaskOK`, of each task: it hangs in a list exactly if it has a TCB that is not
  being freed; in `xPendingReadyList` it is blocked, or its wait for a
  notification has just timed out; `ucNotifyState` says "waiting" only inside
  the two calls that wait. `OneStateList` and `PendingIsBlocked` alone are not
  inductive: the resumption of a pended task needs to know where else it is;
- `ControlOK`, of each task: only the running task has the scheduler suspended,
  and no two are about to free the same TCB;
- `CpuOK`: the idle task is ready, the current task is ready unless it is about
  to yield, ticks and tasks are pended only while the scheduler is suspended;
- `BootOK`: before the scheduler starts all tasks are ready;
- `PrioOK`: without ticks inside handlers `uxTopReadyPriority`, or what
  `vTaskSwitchContext` has read of it, is no lower than any ready task, and the
  current task is the highest unless a switch is on its way. `Preemptive` and
  `TopReadyInTasks` follow from it and `CpuOK`.

`NoEarlyWake` is an action property. It follows from `ListsOK` with, for each
action, the tasks the action may take out of a delayed list: the tick takes those
that are due (`UnblockInv`), the loop of `xTaskResumeAll` those due in one of the
ticks it catches up with (`CatchInv`), which are fewer than `TickMod`; and
every other action takes the task that was resumed, notified or deleted.

`QueueProofs` proves all of `queue`, the refinement and the action property
included: for any finite set of tasks with any priorities, any set of items and
any set of uses, so any length of the queue. `QueueAssumption` asks of a use what
`queue.c` asserts (overwriting only in a queue of one item) and that its ticks
end before `xNumOfOverflows` wraps. The proof is in three layers, each an
invariant that is inductive given the ones before it.

- `Base` is `Typed` with `RingOK` (the write position is the read position plus
  the items, round the ring), `CallOK` (a call that goes to block has time left),
  `KernelOK` (the lists of the kernel as in `SchedProofs`, both event lists
  sorted), `TaskOK` (a task is blocked only between placing itself in the event
  list and its next look at the queue, and is not in an event list and in
  `xPendingReadyList` at once) and `CpuOK` (only the running task has the
  scheduler suspended and the queue locked, and where in its call it has).
  `WaitersAreBlocked` and `HighestPriorityFirst` are parts of it that need the
  rest: that a task is in no list when it places itself follows from `TaskOK`
  and `CpuOK` together. `ImplementsQueue` follows from `RingOK` by one lemma for
  each way of `prvCopyDataToQueue` and `prvCopyDataFromQueue`, with the
  arithmetic of a position that goes at most twice round (`Behind`, `BackPlace`,
  `Shift`).
- `Clocked`: a call that has noted the time (`xTimeOut`) has `xTicksToWait` left
  such that both add up to no less than it asked for, counted from its start;
  one whose time has expired was really due. `Passed` shows that the ticks
  `xTaskCheckForTimeOut` counts are no more than have passed, however often the
  counter wrapped. `NoEarlyTimeout` follows.
- `Pledges`: while a task waits, or is about to place itself, the items (for
  senders, the free slots) are no more than the tasks that will look at the
  queue before they block plus the transfers counted in `cTxLock` (`cRxLock`),
  unless that count has reached the number of tasks and is no longer
  incremented. `NoLostWakeup` alone is not inductive: a woken receiver that
  finds the item gone must not have been the only one to be woken for two
  items. A count that has reached its limit is harmless: `prvUnlockQueue` then
  takes as many rounds as there are tasks, and wakes everybody (`AllWoken`).

`StackProofs` proves every safety property of `stack`, the action property
included: for any number of buffers in the two pools, any set of neighbours, any
size of the ARP table, any limits of the reassembly, any intervals of the timers
and any load. The assumptions are that the sizes are natural numbers with at
least one ARP entry and no host has the name of the broadcast address
(`PbufAssumption`, `EtharpAssumption`, `IpAssumption`), that
each of the three handlers has a positive interval (`StackAssumption`), and that
a frame fills at least one buffer, an ARP frame gives a hardware address and an
IP frame has a header (`LoadsAssumption`). The inductive invariant `StackInv`
has three parts.

- Ownership (`IpOK`). `ReferencesHeld` says that counts and holders agree, which
  a step can keep only if it knows more: that what it frees is not in somebody
  else's chain. Between two steps no buffer is shared: a packet an ARP entry
  keeps has one reference, no successor and one entry; all others in use, the
  `Loose` ones, lie in chains that do not meet, and the first of each chain has
  one holder, a datagram in reassembly or the application (`Own`). Inside a step
  there is a third kind of holder, the call in progress; it is the parameter `X`
  of `IpOK`. So each function of the code has the lemma its contract suggests:
  the operators of `Etharp` leave loose buffers alone (`Framed`), those of `Ip`
  that free, keep or hand up a packet take it out of `X`. A buffer has two
  references only inside `udp_sendto`, from the `pbuf_chain` that puts a buffer
  for the header in front of it to the `pbuf_free` of that one.
  `ReassemblyBounded` follows: the count is the number of buffers in the chains
  of the list (`CountOK`), and chains that do not meet can be counted one by one.
- The ARP table (`ArpOK`): an entry that is stable gives the address its
  neighbour gave last, no two entries are for one neighbour, and a packet an
  entry keeps is for that neighbour. Without the second clause an update could
  leave an old address behind; without the third, `etharp_update_arp_entry`
  could send a kept packet to the wrong one after the entry was recycled.
- The timeouts (`Armed`): the list has each handler at most once, those of ARP
  and reassembly always, that of TCP exactly if `tcpip_tcp_timer_active`. That
  one insertion delays no other and brings none nearer is `ArmList`, on the sums
  of differences (`UntilFacts`, `InsertOne`). For `sys_check_timeouts` the
  invariant of the loop (`RunInv`) is that a timeout of the list it started with
  is no nearer than that list says, less the time used up so far, or was due.

A board that hangs keeps the first two parts; only the timeouts of one are free.
The loops (along a chain, over the fragments of a datagram, the datagrams, the
ARP table and the timeouts) are done with `LoopProofs`, each with the invariant
that stands before its `INSTANCE`. `ReferencesCounted` then counts the holders
of `ReferencesHeld` one kind at a time (`ReferredAll`).

The first part of `KernelProofs` shows what `uxListRemove`, `vListInsert`,
`vListInsertEnd` and `listGET_OWNER_OF_NEXT_ENTRY` do to the members and the
order of a list of any length; the second has a lemma for each operator of
`Tasks` that says which tasks it moves from where to where and that `Kernel`,
`Apart` and `Timed` are kept. The kernel's loops (`xTaskIncrementTick`, the two of `xTaskResumeAll`, the
two of `prvUnlockQueue`, and the creation of the tasks) take a number of rounds
that depends on the state, as do those of `Stack`. `LoopProofs` proves the rule
for them: an invariant that the first state has and every round keeps, holds
after all rounds. It has the body and the invariant as constant operators, and
each loop takes it with `INSTANCE ... WITH Op <- ..., Inv <- ...`.

Model-checked only: the safety properties of `Tcp`, and the liveness properties
(the prover has neither fairness nor `ENABLED`). `StreamIntegrity`,
`SendQueueComplete`, `AcksAreEarned`, `WindowAccounted`, `OoseqOrdered` and
`EdgeNeverRetreats` relate the queues of both hosts and every segment in the
network, on sequence numbers that wrap: they hold as long as no segment is so old that
its number has come to mean another byte, which the load bounds and no constant
of the code does.

## Findings

- `sched_top`: `tasks.c` says `uxTopReadyPriority` holds the priority of the
  highest priority ready task. The tick, a FIQ that an SWI does not mask, can
  ready a task between the read and the write of it in
  `taskSELECT_HIGHEST_PRIORITY_TASK`; the write then lowers it below that task.
- `netdriver_nopacket`: `ethernetif_input` says "no packet could be read,
  silently ignore this" and tests for NULL, but `low_level_input` turns a length
  of 0 into an empty pbuf.
- `tcp_assert`: `tcp_receive` asserts that a segment of the out-of-sequence
  queue fits the window. `tcp_output` leaves the FIN out when it compares a
  segment with the window, and the first segment queued out of sequence is not
  cut to it; when the gap closes and the application has read nothing, the
  segment is one longer than `rcv_wnd`.
- `stack_hole`: `ip_reass_chain_frag_into_datagram_and_validate` says that it
  checks continuity, but a fragment put between two others is compared with the
  one before it for an overlap only. A datagram is handed up without one of its
  parts. `udp_input` drops it if it carries a checksum (`udp.c:327-339`), so the
  application gets it only if it was sent with checksum 0, as the load of this
  run is; `stack` has the same fragments with a checksum.

Observations without a run of their own:

- `tcp_receive` cuts the last out-of-sequence segment to the window with a plain
  comparison (`tcp_in.c:1467`), where all others use the signed difference. If
  the edge of the window has wrapped and the end of the segment has not, the
  segment, which fits, gets the length up to the edge (line 1478; `pbuf_realloc`
  does not add data) and loses its FIN. When the gap before it closes `rcv_nxt`
  goes to the edge: bytes that never came are acknowledged and never delivered,
  and `rcv_wnd` keeps missing them. The sender is then acknowledged beyond
  `snd_nxt`, and with the window at 0 `tcp_send_fin` may put the FIN on a segment
  in the middle of its queue. `EdgeLoad` reaches all of this. `StreamIntegrity`,
  `AcksAreEarned` and `WindowAccounted` therefore count the skipped bytes and say
  what still holds: what is delivered is in order and each byte once, and
  only sequence numbers up to a wrapped edge are skipped. `SendQueueComplete`
  excepts a host whose peer has skipped, `AllDelivered` and `ConnectionEnds` such
  a connection.
- `tcp_slowtmr` removes a PCB in LAST_ACK or TIME_WAIT `2 * TCP_MSL` after `tmr`
  was set (`tcp.c:940`, `tcp.c:1010`), which entering these states does not do.
  After a CLOSE_WAIT without reception that long, LAST_ACK ends at the next call,
  with data and FIN unacknowledged and nobody to retransmit them.
  `AllDelivered` excepts a sender that ended so (`idle`).
- `ip_reass_remove_oldest_datagram` (`ip_frag.c:252`) remembers the predecessor
  of the last datagram it looked at, not of the oldest. If the oldest is not the
  last of the list an assertion (`ip_frag.c:165`) fails and the board hangs. The
  model takes this step; the invariants of `stack` except a hung board.
- A TCP sender with nothing in flight and a window that is open, but smaller
  than its next segment, has no timer: `tcp_slowtmr` probes a window of 0 only
  (`tcp.c:831`). If the update is lost it waits for ever. `AllDelivered` excepts
  this state (`Stalled`), only in the loads that fill the window.
- Without keepalives the peer of a connection that broke keeps its PCB for ever;
  `ConnectionEnds` excepts it.
- `sys_timeout` counts from `timeouts_last_time` and `sys_check_timeouts` forgets
  what is left of the time: a new timeout may be early by the age of that time
  (`timers.c:286`), periodic ones drift.
- With `ARP_QUEUEING` 0 an entry keeps one packet, so of a fragmented datagram
  to an unknown neighbour only the last fragment is sent.
- `vTaskPrioritySet` changes the event list item of a blocked task in place, so
  `HighestPriorityFirst` holds only for waiters that keep their priority.
- `prvTaskIsTaskSuspended` takes a task that waits for a notification with
  `portMAX_DELAY` for suspended. `vTaskResume` wakes it, and from an ISR, while
  the scheduler is suspended, a resume and then a notification insert its event
  item in `xPendingReadyList` twice, against the assertion at `tasks.c:5067`. The
  uses of `sched` therefore have an ISR that resumes or one that notifies.
- `eth_rx` clears the interrupt request of all frames after reading one, so a
  second frame waits in the chip for the next arrival; an over-long frame resets
  the chip, and nothing turns its receiver on again.
- `main.c:61` and `main.c:82` leave out the calls of `sys_check_timeouts` and
  `ethernetif_input`, and no handler gives the semaphore `LwipInputTask` takes. Put back as they stand they would be made by two tasks,
  and a `NO_SYS` lwIP has no lock between them; `Stack` models one caller.

## Plan

1. Proofs: the queues of `TcpPcb` on one host, then `Tcp` under a bound on the
   age of segments.
2. TCP callbacks that close or abort the connection they are called for.
3. Event groups and stream buffers on `Tasks`, once something uses them.

## Not modelled

- Event groups, stream buffers, and the event list functions of `tasks.c` only
  they use; mutexes, queue sets, software timers, co-routines and MPU wrappers,
  which this build compiles out; `xTaskAbortDelay` and `eTaskGetState`, compiled
  out as well; statistics and trace functions.
- `vQueueDelete`, and a reset of a queue that tasks wait for.
- `pvPortCalloc`, the call counters and `vPortGetHeapStats` of `heap_4.c`.
- The layout of contexts and stacks, and list pointers in the middle of an
  operation: the FromISR functions mask nothing on this port, so a tick could
  meet a half-linked list. The models change a list in one step.
- Of lwIP: the first-fit allocator of `mem.c` (`PBUF_RAM` is a number of
  buffers), lengths, headers, the sums themselves (a damaged segment is a lost
  one, that of a datagram with a part missing never comes out right), static
  ARP entries, IP options, forwarding and several interfaces, `sys_untimeout`,
  which has no caller here.
- DHCP, DNS, AutoIP, IGMP, SNMP, PPP, IPv6, raw PCBs, sockets and
  `contrib-1.4.1`: not used by this application.
- Start-up code, NAND, UART: straight-line register access.

Most lines of the repository are of the last kinds: vendored code for other
processors, protocols and systems that is not compiled, or is not reached from
this application. What is left after the modules above is small.
