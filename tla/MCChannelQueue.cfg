CONSTANTS
    t1 = t1
    t2 = t2
    t3 = t3
    Thread = {t1, t2, t3}
    idle = idle
    NULL = NULL
    boot <- Boot2
    SCHEDULER_TIME = 2
    SIZE_MAX = 3
    Queue = {q1}
    Value = {v1}
    MsgSize = {1}
    BufSize = {1}
    HEAP = 2
SPECIFICATION Spec
INVARIANTS
    SchedInv   HeapAccounted
