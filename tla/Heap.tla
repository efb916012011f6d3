------------------------------- MODULE Heap ---------------------------------
(***************************************************************************)
(* FreeRTOS-Kernel/portable/MemMang/heap_4.c: the heap tasks, queues and   *)
(* TCBs are allocated from.                                                *)
(*                                                                         *)
(* heap holds the memory: size[a] and nxt[a] are the BlockLink_t at        *)
(* address a, free the blocks of the free list (those the walk from xStart *)
(* meets before pxEnd), remaining xFreeBytesRemaining and least            *)
(* xMinimumEverFreeBytesRemaining.  used holds the blocks with the         *)
(* allocated bit, freeing[t] the block task t is about to free: vPortFree  *)
(* clears the bit before it suspends the scheduler, so another task can    *)
(* run in between.  What is left of a BlockLink_t that was merged into its *)
(* neighbour is never read; it is 0 here.                                  *)
(***************************************************************************)
EXTENDS Integers, FiniteSets

CONSTANTS
    Task,
    ucHeap,                  \* its address
    configTOTAL_HEAP_SIZE,
    portBYTE_ALIGNMENT,
    xHeapStructSize,         \* size of a BlockLink_t, aligned
    SizeMod,                 \* size_t counts modulo SizeMod
    Request                  \* the sizes tasks ask for

NULL == 0
xStart == 0 - 1    \* a variable outside ucHeap, whose xBlockSize is 0

Down(a) == a - (a % portBYTE_ALIGNMENT)
Up(a) == Down(a + portBYTE_ALIGNMENT - 1)

heapMINIMUM_BLOCK_SIZE == 2 * xHeapStructSize

\* The addresses prvHeapInit computes.
pucAlignedHeap == Up(ucHeap)
pxEnd == Down(ucHeap + configTOTAL_HEAP_SIZE - xHeapStructSize)

ASSUME HeapAssumption ==
    /\ {ucHeap, configTOTAL_HEAP_SIZE, xHeapStructSize, portBYTE_ALIGNMENT, SizeMod} \subseteq Nat
    /\ portBYTE_ALIGNMENT > 0 /\ xHeapStructSize > 0
    /\ xHeapStructSize % portBYTE_ALIGNMENT = 0
    /\ NULL < pucAlignedHeap /\ pucAlignedHeap < pxEnd
    /\ Request \subseteq 0..(SizeMod - 1)

Byte == pucAlignedHeap..(pxEnd - 1)
Link == Byte \cup {xStart, pxEnd}

VARIABLES ready, heap, used, freeing
vars == <<ready, heap, used, freeing>>

Init ==
    /\ ready = FALSE
    /\ heap = [size |-> [a \in Link |-> 0], nxt |-> [a \in Link |-> NULL],
               free |-> {}, remaining |-> 0, least |-> 0]
    /\ used = {}
    /\ freeing = [t \in Task |-> NULL]

prvHeapInit ==
    [size |-> [a \in Link |-> IF a = pucAlignedHeap THEN pxEnd - pucAlignedHeap ELSE 0],
     nxt |-> [a \in Link |-> IF a = xStart THEN pucAlignedHeap
                             ELSE IF a = pucAlignedHeap THEN pxEnd ELSE NULL],
     free |-> {pucAlignedHeap},
     remaining |-> pxEnd - pucAlignedHeap,
     least |-> pxEnd - pucAlignedHeap]

\* The walk of prvInsertBlockIntoFreeList stops at the list element whose
\* successor is not below b.
pxIterator(h, b) ==
    CHOOSE p \in h.free \cup {xStart} : p < b /\ b <= h.nxt[p]

\* Mutants: b is only linked in, is merged with neither neighbour; or it is
\* merged with the block before it only.
InsertWithoutMerge(h, b) ==
    LET it == pxIterator(h, b)
    IN  [h EXCEPT !.nxt[b] = h.nxt[it], !.nxt[it] = b, !.free = h.free \cup {b}]

InsertMergingBackwards(h, b) ==
    LET it == pxIterator(h, b)
    IN  IF it + h.size[it] = b
        THEN [h EXCEPT !.size = [h.size EXCEPT ![it] = @ + h.size[b], ![b] = 0]]
        ELSE InsertWithoutMerge(h, b)

\* prvInsertBlockIntoFreeList: link b in, and merge it with the free block
\* before it and the one behind it where they touch.
prvInsertBlockIntoFreeList(h, b) ==
    LET it == pxIterator(h, b)
        next == h.nxt[it]
        joinsPrevious == it + h.size[it] = b
        joinsNext == b + h.size[b] = next /\ next # pxEnd
        head == IF joinsPrevious THEN it ELSE b
        gone == (IF joinsPrevious THEN {b} ELSE {}) \cup (IF joinsNext THEN {next} ELSE {})
        total == h.size[b] + (IF joinsPrevious THEN h.size[it] ELSE 0)
                           + (IF joinsNext THEN h.size[next] ELSE 0)
    IN  [h EXCEPT
            !.size = [a \in Link |-> IF a = head THEN total
                                     ELSE IF a \in gone THEN 0 ELSE h.size[a]],
            !.nxt = [a \in Link |-> IF a = head THEN (IF joinsNext THEN h.nxt[next] ELSE next)
                                    ELSE IF a = it THEN head
                                    ELSE IF a \in gone THEN NULL ELSE h.nxt[a]],
            !.free = (h.free \cup {head}) \ gone]

-----------------------------------------------------------------------------
(* pvPortMalloc.                                                           *)

\* Mutant: the sum wraps.
WantedWraps(n) ==
    IF n = 0 THEN 0
    ELSE (n + xHeapStructSize + portBYTE_ALIGNMENT - (n % portBYTE_ALIGNMENT)) % SizeMod

\* The request with the header, rounded up; 0 when that overflows.
xWantedSize(n) ==
    LET xAdditionalRequiredSize ==
            xHeapStructSize + portBYTE_ALIGNMENT - (n % portBYTE_ALIGNMENT)
    IN  IF n = 0 \/ n > SizeMod - 1 - xAdditionalRequiredSize
        THEN 0 ELSE n + xAdditionalRequiredSize

\* heapBLOCK_SIZE_IS_VALID, and the test against xFreeBytesRemaining.
Plausible(h, wanted) ==
    2 * wanted < SizeMod /\ wanted > 0 /\ wanted <= h.remaining

Fitting(h, wanted) == {a \in h.free : h.size[a] >= wanted}

\* Mutant: the block keeps the size it had before the split.
TakeWithoutShrinking(h, b, wanted) ==
    LET previous == CHOOSE p \in h.free \cup {xStart} : h.nxt[p] = b
        rest == h.size[b] - wanted
        out == [h EXCEPT !.nxt = [h.nxt EXCEPT ![previous] = h.nxt[b], ![b] = NULL],
                         !.free = h.free \ {b}]
    IN  IF rest > heapMINIMUM_BLOCK_SIZE
        THEN prvInsertBlockIntoFreeList([out EXCEPT !.size[b + wanted] = rest], b + wanted)
        ELSE out

\* b leaves the free list; what is too much of it goes back.
Take(h, b, wanted) ==
    LET previous == CHOOSE p \in h.free \cup {xStart} : h.nxt[p] = b
        rest == h.size[b] - wanted
        out == [h EXCEPT !.nxt = [a \in Link |-> IF a = previous THEN h.nxt[b]
                                                 ELSE IF a = b THEN NULL ELSE h.nxt[a]],
                         !.free = h.free \ {b}]
    IN  IF rest > heapMINIMUM_BLOCK_SIZE
        THEN prvInsertBlockIntoFreeList(
                [out EXCEPT !.size = [a \in Link |-> IF a = b THEN wanted
                                      ELSE IF a = b + wanted THEN rest ELSE h.size[a]]],
                b + wanted)
        ELSE out

\* xFreeBytesRemaining and its minimum after b was taken.
Count(h, b) ==
    LET left == h.remaining - h.size[b]
    IN  [h EXCEPT !.remaining = left, !.least = IF left < @ THEN left ELSE @]

\* Between vTaskSuspendAll and xTaskResumeAll.  The list is in the order of
\* the addresses, so the walk finds the lowest block that fits.
pvPortMalloc(n) ==
    LET h == IF ready THEN heap ELSE prvHeapInit
        wanted == xWantedSize(n)
    IN  /\ ready' = TRUE
        /\ IF Plausible(h, wanted) /\ Fitting(h, wanted) # {}
           THEN \E b \in Fitting(h, wanted) :
                    /\ \A a \in Fitting(h, wanted) : b <= a
                    /\ heap' = Count(Take(h, b, wanted), b)
                    /\ used' = used \cup {b}
           ELSE heap' = h /\ UNCHANGED used
        /\ UNCHANGED freeing

-----------------------------------------------------------------------------
(* vPortFree, up to vTaskSuspendAll and from there on.                     *)

vPortFree(t, b) ==
    /\ freeing[t] = NULL /\ b \in used
    /\ heap.nxt[b] = NULL
    /\ used' = used \ {b}
    /\ freeing' = [freeing EXCEPT ![t] = b]
    /\ UNCHANGED <<ready, heap>>

\* Mutant: the bytes are not counted.
FreeLockedUncounted(t) ==
    /\ freeing[t] # NULL
    /\ heap' = prvInsertBlockIntoFreeList(heap, freeing[t])
    /\ freeing' = [freeing EXCEPT ![t] = NULL]
    /\ UNCHANGED <<ready, used>>

FreeLocked(t) ==
    /\ freeing[t] # NULL
    /\ heap' = prvInsertBlockIntoFreeList(
                   [heap EXCEPT !.remaining = @ + heap.size[freeing[t]]], freeing[t])
    /\ freeing' = [freeing EXCEPT ![t] = NULL]
    /\ UNCHANGED <<ready, used>>

Next ==
    \/ \E n \in Request : pvPortMalloc(n)
    \/ \E t \in Task : (\E b \in used : vPortFree(t, b)) \/ FreeLocked(t)

Spec == Init /\ [][Next]_vars

-----------------------------------------------------------------------------
(* Properties.                                                             *)

\* The blocks of the tasks, and those on their way back.
Taken == used \cup ({freeing[t] : t \in Task} \ {NULL})

\* The blocks in the free list and in out cover the heap, from its first
\* byte to pxEnd, without a gap and without an overlap.
Tiled(h, out) ==
    LET Block == h.free \cup out
        EndOf(a) == a + h.size[a]
    IN  /\ pucAlignedHeap \in Block
        /\ \A a \in Block : a < EndOf(a) /\ (EndOf(a) = pxEnd \/ EndOf(a) \in Block)
        /\ \A a, b \in Block : a < b => EndOf(a) <= b

\* The free list is in the order of the addresses and spans the heap, no two
\* blocks of it touch, and what is not in it has no successor.
Linked(h) ==
    LET List == h.free \cup {xStart}
    IN  /\ \A p \in List : p < h.nxt[p] /\ h.nxt[p] \in h.free \cup {pxEnd}
        /\ \A p \in List, f \in h.free : f <= p \/ h.nxt[p] <= f
        /\ \A x \in Byte : \E p \in List : p < x /\ x <= h.nxt[p]
        /\ \A a \in h.free : a + h.size[a] \notin h.free
        /\ \A a \in Byte \ h.free : h.nxt[a] = NULL

\* Types; a block is in the free list, with a task or on its way back, and
\* with one task only.
TypeOK ==
    /\ ready \in BOOLEAN
    /\ heap \in [size : [Link -> Nat], nxt : [Link -> Link \cup {NULL}],
                 free : SUBSET Byte, remaining : Int, least : Int]
    /\ used \subseteq Byte
    /\ freeing \in [Task -> Byte \cup {NULL}]
    /\ heap.free \cap Taken = {}
    /\ \A t, u \in Task :
          freeing[t] # NULL => freeing[t] \notin used /\ (t # u => freeing[t] # freeing[u])

\* Memory is neither lost nor handed out twice, whatever was allocated,
\* split, freed and merged, in whichever order the tasks do it.
BlocksTile == ready => Tiled(heap, Taken)

\* The walks of pvPortMalloc and prvInsertBlockIntoFreeList meet every free
\* block in order, the merging with both neighbours leaves no two that
\* touch, and the assertion of vPortFree on pxNextFreeBlock holds.
FreeListSound == ready => Linked(heap)

\* The bytes of the free blocks.
FreeByte(h) == {x \in Byte : \E a \in h.free : a <= x /\ x < a + h.size[a]}

\* xFreeBytesRemaining is the size of the free blocks: so pvPortMalloc, which
\* compares the request with it first, refuses no request that would fit.
FreeBytes == heap.remaining = Cardinality(FreeByte(heap))

\* Once everything is freed the heap is one block again.
AllFreed ==
    ready /\ Taken = {} =>
        heap.free = {pucAlignedHeap} /\ heap.size[pucAlignedHeap] = pxEnd - pucAlignedHeap

\* What pvPortMalloc returns holds the request and the header, and no step
\* writes to the header of a block that a task has or is about to free.
BlockHoldsRequest ==
    [][/\ \A n \in Request : pvPortMalloc(n) =>
             \A b \in used' \ used : heap'.size[b] >= n + xHeapStructSize
       /\ \A b \in Taken \cap Taken' : heap'.size[b] = heap.size[b]]_vars
=============================================================================
