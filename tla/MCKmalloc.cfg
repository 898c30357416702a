CONSTANTS
    HDR = 2
    HEAP_SIZE = 14
    Size = {0, 1, 3}
SPECIFICATION Spec
INVARIANTS
    HeapInv
CHECK_DEADLOCK FALSE
