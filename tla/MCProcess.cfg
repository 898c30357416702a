CONSTANTS
    t1 = t1
    t2 = t2
    t3 = t3
    t4 = t4
    p1 = p1
    p2 = p2
    p3 = p3
    p4 = p4
    Thread = {t1, t2, t3}
    idle = idle
    NULL = NULL
    boot <- Boot2
    bootproc <- BootProc2
    Proc = {p1, p2, p3}
    SCHEDULER_TIME = 2
    SIZE_MAX = 3
    Event = {"SCHED_EV_PEXIT"}
    Data <- Pid
    PROCESS_MAX_PID = 4
    THREAD_MAX_PER_PROCESS = 2
    Programs <- Both
SPECIFICATION FairSpec
INVARIANTS
     WaitReturnsExited WaiterWillBeWoken
PROPERTIES
    RoundRobin  WaitReturns
