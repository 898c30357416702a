------------------------------ MODULE Scheduler ------------------------------
(***************************************************************************)
(* The round-robin scheduler of kernel/core/scheduler/scheduler.c on the   *)
(* single CPU the kernel supports (CPU_COUNT is 1, include/kernel/cpu.h).  *)
(*                                                                         *)
(* The module holds the scheduler's state and its operations as action     *)
(* fragments; the modules that extend it (WaitQueue, Sleep, Process) add   *)
(* what the threads do and build the next-state relation.                  *)
(*                                                                         *)
(* Interrupts.  spinlock_lock does `cli' and spinlock_unlock restores the  *)
(* saved flags, so on one CPU a locked region is one atomic step, and a    *)
(* lock is never held by a preempted thread.  Interrupt gates clear IF,    *)
(* the system call gate does not: a thread in a system call can be         *)
(* preempted by the timer between any two locked regions.                  *)
(* scheduler_update itself runs with interrupts off from its spinlock_lock *)
(* to the end (spinlock_unlock_no_restore does not re-enable them), so     *)
(* nothing else moves while `sweep' is not 0; its loop is nevertheless cut *)
(* into one step per list element because thread_destroy, called from it,  *)
(* changes the state of other components.                                  *)
(***************************************************************************)
EXTENDS Naturals, SequencesExt

CONSTANTS
    Thread,          \* the thread structures there can be
    idle,            \* the idle thread; it is never on the run list
    NULL,            \* `running' before scheduler_start
    boot,            \* the run list module_initialize leaves behind
    SCHEDULER_TIME,  \* ticks a thread may run before the next election
    SIZE_MAX         \* largest size_t; `time' is a size_t and wraps

ASSUME SchedulerAssumption ==
    /\ idle \notin Thread
    /\ NULL \notin Thread
    /\ NULL # idle
    /\ boot \in Seq(Thread)
    /\ IsInjective(boot)
    /\ SIZE_MAX \in Nat
    /\ SCHEDULER_TIME \in 1 .. SIZE_MAX

VARIABLES
    state,    \* thread->state; "FREE" when there is no such thread
    threads,  \* sched->threads, the run list (it includes `running')
    running,  \* sched->running
    time,     \* sched->time
    sweep,    \* 0, or the list position scheduler_update has reached
    force     \* the `force' argument of that scheduler_update

schedVars == <<state, threads, running, time, sweep, force>>

ThreadState == {"FREE", "RUNNING", "BLOCKED", "ZOMBIE"}

SchedulerTypeOK ==
    /\ state \in [Thread -> ThreadState]
    /\ threads \in Seq(Thread)
    /\ running \in Thread \cup {idle, NULL}
    /\ time \in 0 .. SIZE_MAX
    /\ sweep \in Nat
    /\ force \in {0, 1}

-----------------------------------------------------------------------------
(* scheduler_initialize, then module_initialize's threads put on the list. *)
scheduler_initialize ==
    /\ state = [t \in Thread |-> IF t \in Range(boot) THEN "RUNNING" ELSE "FREE"]
    /\ threads = boot
    /\ running = NULL
    /\ time = 0
    /\ sweep = 0
    /\ force = 0

(* Interrupts are enabled: the running thread, or the timer, may move. *)
Interruptible == sweep = 0 /\ running # NULL

(* Thread t executes an instruction of its own. *)
OnCpu(t) == Interruptible /\ running = t

(* cpu_add_thread: with one CPU it is scheduler_add_thread. *)
scheduler_add_thread(t) ==
    /\ threads' = Append(threads, t)
    /\ time' = IF running = idle THEN 1 ELSE time

(* The condition of scheduler_update, after `--time' left `left'. *)
MustElect(left, regs, f) ==
    \/ left = 0
    \/ running # idle /\ state[running] # "RUNNING"
    \/ ~regs
    \/ f = 1
    \/ running = idle /\ threads # <<>>

(* Entry of scheduler_update with sched->time = now; regs says whether the *)
(* caller passes registers to save the preempted thread in.                *)
scheduler_update(now, regs, f) ==
    LET left == IF now = 0 THEN SIZE_MAX ELSE now - 1 IN
    /\ time' = left
    /\ IF MustElect(left, regs, f)
       THEN sweep' = 1 /\ force' = f
       ELSE UNCHANGED <<sweep, force>>

(* scheduler_start: `running' is still NULL, but time = 1 makes the first  *)
(* operand of the condition true, so it is not dereferenced.               *)
scheduler_start ==
    /\ running = NULL /\ sweep = 0
    /\ sweep' = 1 /\ time' = 0
    /\ UNCHANGED <<state, threads, running, force>>

(* The timer interrupt without timer callbacks: timer_handler's call.      *)
Tick ==
    /\ Interruptible
    /\ scheduler_update(time, TRUE, 0)
    /\ UNCHANGED <<state, threads, running>>

-----------------------------------------------------------------------------
(* One iteration of the cleaning loop of scheduler_update. *)
SweepAt(t) == sweep \in DOMAIN threads /\ threads[sweep] = t

(* Mutants: the test on `running' forgotten for a zombie, or made for a    *)
(* blocked thread too.                                                     *)
SweepKeepZombie ==
    \E t \in Thread :
        /\ SweepAt(t)
        /\ state[t] \in {"RUNNING", "ZOMBIE"}
        /\ sweep' = sweep + 1
        /\ UNCHANGED <<state, threads, running, time, force>>

SweepKeepRunning ==
    \E t \in Thread :
        /\ SweepAt(t)
        /\ state[t] = "RUNNING" \/ running = t
        /\ sweep' = sweep + 1
        /\ UNCHANGED <<state, threads, running, time, force>>

SweepKeep ==
    \E t \in Thread :
        /\ SweepAt(t)
        /\ state[t] = "RUNNING" \/ (state[t] = "ZOMBIE" /\ running = t)
        /\ sweep' = sweep + 1
        /\ UNCHANGED <<state, threads, running, time, force>>

SweepBlocked ==
    \E t \in Thread :
        /\ SweepAt(t)
        /\ state[t] = "BLOCKED"
        /\ threads' = RemoveAt(threads, sweep)
        /\ UNCHANGED <<state, running, time, sweep, force>>

(* klist_del of a zombie; the thread_destroy call that follows is given by *)
(* the module that extends this one.                                       *)
SweepZombie(t) ==
    /\ SweepAt(t)
    /\ state[t] = "ZOMBIE" /\ running # t
    /\ UNCHANGED <<running, sweep, force>>

(* Both ends of scheduler_update after the election of t: scheduler_switch *)
(* when t is not the running thread, a new time slice when it is.          *)
scheduler_switch(t) ==
    /\ running' = t
    /\ time' = SCHEDULER_TIME
    /\ sweep' = 0
    /\ force' = 0

(* Mutant: the elected thread stays at the head of the list. *)
ElectWithoutRotation ==
    /\ sweep > Len(threads)
    /\ scheduler_switch(IF threads = <<>> THEN idle ELSE Head(threads))
    /\ UNCHANGED <<state, threads>>

(* scheduler_elect: one call; a recursive call is one more step. *)
scheduler_elect ==
    /\ sweep > Len(threads)
    /\ IF threads = <<>>
       THEN scheduler_switch(idle) /\ UNCHANGED threads
       ELSE /\ threads' = Append(Tail(threads), Head(threads))
            /\ IF force = 1 /\ running = Head(threads)
               THEN IF Tail(threads) = <<>>
                    THEN scheduler_switch(idle)
                    ELSE UNCHANGED <<running, time, sweep, force>>
               ELSE scheduler_switch(Head(threads))
    /\ UNCHANGED state

(* scheduler_remove_thread as thread_block and wait_queue_wait call it,    *)
(* with t = thread_current(): the label t goes on from.  A thread already  *)
(* woken returns; a blocked one is left to the `int $0x20' that follows    *)
(* the release of the lock.  The branches for a zombie and for a thread    *)
(* that is not running are never reached: invariant RemovesItself.         *)
scheduler_remove_thread(t, woken, yield) ==
    IF state[t] = "RUNNING" THEN woken ELSE yield

-----------------------------------------------------------------------------
(* The election of scheduler_update starves nobody: a thread that can run  *)
(* gets the CPU, unless process_exit ends it first.                        *)
RoundRobin ==
    \A t \in Thread : state[t] = "RUNNING" ~> running = t \/ state[t] = "ZOMBIE"

(* A thread that has exited is found by the sweep of scheduler_update and  *)
(* destroyed, so that its slot can be used again.                          *)
Reaped ==
    \A t \in Thread : state[t] = "ZOMBIE" ~> state[t] = "FREE"
=============================================================================
