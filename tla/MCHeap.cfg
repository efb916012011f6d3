SPECIFICATION Spec
CONSTANTS
    t1 = t1
    t2 = t2
    Task <- MCTask
    ucHeap = 3
    configTOTAL_HEAP_SIZE = 35
    portBYTE_ALIGNMENT = 2
    xHeapStructSize = 2
    SizeMod = 64
    Request = {0, 1, 2, 5, 40, 63}
SYMMETRY Symmetry
INVARIANTS BlocksTile FreeListSound AllFreed FreeBytes
PROPERTY BlockHoldsRequest
