CONSTANTS
    t1 = t1
    t2 = t2
    t3 = t3
    Thread = {t1, t2}
    idle = idle
    NULL = NULL
    boot <- Boot2
    SCHEDULER_TIME = 2
    SIZE_MAX = 3
    Queue = {q1, q2}
    Value = {v1}
    MsgSize = {1, 2}
    BufSize = {1, 2}
    HEAP = 2
SPECIFICATION Spec
INVARIANTS
    RunListSound WaitersSound
