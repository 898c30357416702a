CONSTANTS
    t1 = t1
    t2 = t2
    Thread = {t1, t2}
    idle = idle
    NULL = NULL
    boot <- Boot2
    SCHEDULER_TIME = 2
    SIZE_MAX = 7
    Event = {"SCHED_EV_TIMER"}
    Data = {t1, t2}
    TIMER_NUM = 2
    Ms = {0, 1, 2}
    MAX_TICKS = 6
SPECIFICATION Spec
INVARIANTS
     NoEarlyWake
CHECK_DEADLOCK FALSE
