CONSTANTS
    t1 = t1
    t2 = t2
    Thread = {t1, t2}
    idle = idle
    NULL = NULL
    boot <- Boot2
    SCHEDULER_TIME = 2
    SIZE_MAX = 3
    Queue = {q1, q2}
SPECIFICATION Spec
INVARIANTS
    ListenersSound 
CHECK_DEADLOCK FALSE
