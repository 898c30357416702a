------------------------------ MODULE WaitQueue ------------------------------
(***************************************************************************)
(* Wait queues (include/kernel/proc/wait_queue.h) on top of the scheduler. *)
(* pc[t] is where thread t is; the values of this module are               *)
(*   "user"    outside the kernel, or between two operations               *)
(*   "wait"    wait_queue_wait, before its spinlock_lock                   *)
(*   "remove"  queue lock released, before the scheduler's lock is taken   *)
(*   "int"     scheduler lock released, before `int $0x20'                 *)
(*   "test"    before the `while (!(cond))' of wait_queue_wait             *)
(*   "exit"    sys_thread_exit, the thread is a zombie                     *)
(*   "leave"   sys_thread_exit, sched->time is 1                           *)
(***************************************************************************)
EXTENDS Scheduler

CONSTANT Queue

ASSUME QueueAssumption == Queue # {}

VARIABLES
    pc,  \* pc[t]: where t is
    wq   \* wq[q]: queue->threads, the threads waiting on q, oldest first

waitVars == <<pc, wq>>

WaitPc == {"user", "wait", "remove", "int", "test", "exit", "leave"}

Goto(t, l) == pc' = [pc EXCEPT ![t] = l]

At(t, l) == OnCpu(t) /\ t \in Thread /\ pc[t] = l

wait_queue_init ==
    /\ pc = [t \in Thread |-> "user"]
    /\ wq = [q \in Queue |-> <<>>]

(* Mutants: the condition is not tested under the lock; the thread is      *)
(* queued but not marked blocked.                                          *)
WaitUntested(t, q, cond, then) ==
    /\ At(t, "wait")
    /\ state' = [state EXCEPT ![t] = "BLOCKED"]
    /\ wq' = [wq EXCEPT ![q] = Append(@, t)]
    /\ Goto(t, "remove")
    /\ UNCHANGED <<threads, running, time, sweep, force>>

WaitUnmarked(t, q, cond, then) ==
    /\ At(t, "wait")
    /\ IF cond
       THEN Goto(t, then) /\ UNCHANGED wq
       ELSE wq' = [wq EXCEPT ![q] = Append(@, t)] /\ Goto(t, "remove")
    /\ UNCHANGED schedVars

(* The locked part of wait_queue_wait; `then' is where t goes if the       *)
(* condition already holds.                                                *)
wait_queue_wait(t, q, cond, then) ==
    /\ At(t, "wait")
    /\ IF cond
       THEN Goto(t, then) /\ UNCHANGED <<state, wq>>
       ELSE /\ state' = [state EXCEPT ![t] = "BLOCKED"]
            /\ wq' = [wq EXCEPT ![q] = Append(@, t)]
            /\ Goto(t, "remove")
    /\ UNCHANGED <<threads, running, time, sweep, force>>

(* The call of scheduler_remove_thread, up to the release of its lock. *)
wait_remove(t) ==
    /\ At(t, "remove")
    /\ Goto(t, scheduler_remove_thread(t, "test", "int"))
    /\ UNCHANGED <<schedVars, wq>>

(* `int $0x20': the timer handler, entered by software. *)
wait_int(t) ==
    /\ At(t, "int")
    /\ scheduler_update(time, TRUE, 0)
    /\ Goto(t, "test")
    /\ UNCHANGED <<state, threads, running, wq>>

(* `while (!(cond))', read without a lock. *)
wait_test(t, cond, then) ==
    /\ At(t, "test")
    /\ Goto(t, IF cond THEN then ELSE "wait")
    /\ UNCHANGED <<schedVars, wq>>

(* Mutant: the woken thread stays on the wait queue. *)
NotifyWithoutDel(q) ==
    IF wq[q] = <<>>
    THEN UNCHANGED <<state, threads, time, wq>>
    ELSE /\ state' = [state EXCEPT ![Head(wq[q])] = "RUNNING"]
         /\ scheduler_add_thread(Head(wq[q]))
         /\ UNCHANGED wq

(* wait_queue_notify: wake the oldest waiter, if any. *)
wait_queue_notify(q) ==
    IF wq[q] = <<>>
    THEN UNCHANGED <<state, threads, time, wq>>
    ELSE /\ state' = [state EXCEPT ![Head(wq[q])] = "RUNNING"]
         /\ scheduler_add_thread(Head(wq[q]))
         /\ wq' = [wq EXCEPT ![q] = Tail(@)]

-----------------------------------------------------------------------------
(* sys_thread_create: the new thread starts in user code. *)
sys_thread_create(t) ==
    /\ At(t, "user")
    /\ \E u \in Thread :
        /\ state[u] = "FREE"
        /\ state' = [state EXCEPT ![u] = "RUNNING"]
        /\ scheduler_add_thread(u)
        /\ Goto(u, "user")
    /\ UNCHANGED <<running, sweep, force, wq>>

(* sys_thread_exit: thread_exit, then `time = 1', then scheduler_update    *)
(* without registers; the timer may fire between any two of them.          *)
thread_exit(t) ==
    /\ At(t, "user")
    /\ state' = [state EXCEPT ![t] = "ZOMBIE"]
    /\ Goto(t, "exit")
    /\ UNCHANGED <<threads, running, time, sweep, force, wq>>

exit_time(t) ==
    /\ At(t, "exit")
    /\ time' = 1
    /\ Goto(t, "leave")
    /\ UNCHANGED <<state, threads, running, sweep, force, wq>>

exit_update(t) ==
    /\ At(t, "leave")
    /\ scheduler_update(time, FALSE, 1)
    /\ UNCHANGED <<state, threads, running, pc, wq>>

(* thread_destroy, as the scheduler calls it: the structure is unmapped. *)
thread_destroy(t) ==
    /\ SweepZombie(t)
    /\ threads' = RemoveAt(threads, sweep)
    /\ state' = [state EXCEPT ![t] = "FREE"]
    /\ Goto(t, "user")
    /\ UNCHANGED <<time, wq>>
=============================================================================
