------------------------------- MODULE Process -------------------------------
(***************************************************************************)
(* Processes: process_fork, process_exit, process_destroy                  *)
(* (kernel/core/proc/process.c), process_waitpid (wait.c), the end of      *)
(* process_execv (execv.c), thread_create and sys_thread_exit.  pc[t],     *)
(* besides the values of Event:                                            *)
(*   "dup"    process_fork, pid chosen, before thread_duplicate            *)
(*   "link"   process_fork, the child runs, before klist_add               *)
(*   "plock"  find_child, child found, before the child's plock            *)
(*   "reap"   find_child, before remove_process                            *)
(*   "kill"   process_exit, in the loop over the threads                   *)
(*   "exit"   zombie, before `scheduler.time = 1'                          *)
(*   "leave"  before scheduler_update(NULL, 1)                             *)
(*   "exec"   process_execv, after its loop over the threads               *)
(*                                                                         *)
(* The kernel process has pid 0 and only the idle thread: it is not in     *)
(* Proc.                                                                   *)
(* The model stops when a thread is on the run list twice.                 *)
(***************************************************************************)
EXTENDS Event, Integers

CONSTANTS
    Proc,                   \* the process structures there can be
    bootproc,               \* the processes of the boot threads, in order
    PROCESS_MAX_PID,
    THREAD_MAX_PER_PROCESS,
    Programs                \* what the processes run: a set of functions `calls'

ASSUME ProcessAssumption ==
    /\ NULL \notin Proc
    /\ bootproc \in Seq(Proc) /\ Len(bootproc) = Len(boot)
    /\ PROCESS_MAX_PID \in Nat /\ Len(boot) < PROCESS_MAX_PID
    /\ THREAD_MAX_PER_PROCESS \in Nat \ {0}
    /\ Event = {"SCHED_EV_PEXIT"}
    /\ Programs \subseteq [Proc -> SUBSET
           {"fork", "waitpid", "exit", "thread_create", "thread_exit", "execv"}]

VARIABLES
    proc,       \* proc[t]: thread->parent, NULL for a free thread
    processes,  \* the list of processes, the last one added first
    pid,        \* pid[p]: -1 once waited for
    parent,     \* parent[p]
    pstate,     \* pstate[p]: process->state, "NONE" for an unused structure
    pthreads,   \* pthreads[p]: the list of p's threads, newest first
    newpid,     \* newpid[t]: the pid found by t's process_fork
    child,      \* child[t]: the process t's system call works on
    todo,       \* todo[t]: what is left of the loop of process_exit
    calls       \* calls[p]: the system calls the program of p makes

procVars == <<proc, processes, pid, parent, pstate, pthreads, newpid, child, todo>>
vars == <<schedVars, eventVars, procVars, calls>>

Pid == -1 .. PROCESS_MAX_PID - 1

ProcessPc == {"user", "lock", "int", "dup", "link", "plock", "reap", "kill",
              "exit", "leave", "exec"}

ProcessTypeOK ==
    /\ EventTypeOK
    /\ pc \in [Thread -> ProcessPc]
    /\ proc \in [Thread -> Proc \cup {NULL}]
    /\ processes \in Seq(Proc)
    /\ pid \in [Proc -> Pid]
    /\ parent \in [Proc -> Proc \cup {NULL}]
    /\ pstate \in [Proc -> {"NONE", "ALIVE", "ZOMBIE"}]
    /\ pthreads \in [Proc -> Seq(Thread)]
    /\ newpid \in [Thread -> Pid]
    /\ child \in [Thread -> Proc \cup {NULL}]
    /\ todo \in [Thread -> Seq(Thread)]
    /\ calls \in Programs

Position(s, x) == CHOOSE i \in DOMAIN s : s[i] = x

(* process_create for each boot module; the first is init, pid 1, and the  *)
(* parent of the others.                                                   *)
Booted(p) == p \in Range(bootproc)

Init ==
    /\ scheduler_initialize
    /\ scheduler_event_initialize
    /\ proc = [t \in Thread |->
            IF t \in Range(boot) THEN bootproc[Position(boot, t)] ELSE NULL]
    /\ processes = Reverse(bootproc)
    /\ pid = [p \in Proc |-> IF Booted(p) THEN Position(bootproc, p) ELSE -1]
    /\ parent = [p \in Proc |->
            IF Booted(p) /\ p # bootproc[1] THEN bootproc[1] ELSE NULL]
    /\ pstate = [p \in Proc |-> IF Booted(p) THEN "ALIVE" ELSE "NONE"]
    /\ pthreads = [p \in Proc |->
            IF Booted(p) THEN <<boot[Position(bootproc, p)]>> ELSE <<>>]
    /\ newpid = [t \in Thread |-> -1]
    /\ child = [t \in Thread |-> NULL]
    /\ todo = [t \in Thread |-> <<>>]
    /\ calls \in Programs

(* Thread t makes the system call c. *)
Call(t, c) == At(t, "user") /\ c \in calls[proc[t]]

(* process_get: the first process of the list with this pid. *)
process_get(d) ==
    LET found == SelectSeq(processes, LAMBDA p : pid[p] = d)
    IN  IF found = <<>> THEN NULL ELSE Head(found)

-----------------------------------------------------------------------------
(* process_new_pid: the list is read without a lock. *)
process_new_pid ==
    LET free == {d \in 1 .. PROCESS_MAX_PID - 1 : process_get(d) = NULL}
    IN  IF free = {} THEN -1 ELSE Min(free)

fork_pid(t) ==
    /\ Call(t, "fork")
    /\ newpid' = [newpid EXCEPT ![t] = process_new_pid]
    /\ Goto(t, "dup")
    /\ UNCHANGED <<schedVars, event, waiting, proc, processes, pid, parent, pstate,
                   pthreads, child, todo>>

(* init_process and thread_duplicate: the child can run from here on. *)
fork_duplicate(t) ==
    /\ At(t, "dup")
    /\ \E p \in Proc, u \in Thread :
        /\ pstate[p] = "NONE" /\ state[u] = "FREE"
        /\ pstate' = [pstate EXCEPT ![p] = "ALIVE"]
        /\ pid' = [pid EXCEPT ![p] = newpid[t]]
        /\ parent' = [parent EXCEPT ![p] = proc[t]]
        /\ pthreads' = [pthreads EXCEPT ![p] = <<u>>]
        /\ proc' = [proc EXCEPT ![u] = p]
        /\ state' = [state EXCEPT ![u] = "RUNNING"]
        /\ scheduler_add_thread(u)
        /\ child' = [child EXCEPT ![t] = p]
        /\ pc' = [pc EXCEPT ![t] = "link", ![u] = "user"]
    /\ UNCHANGED <<running, sweep, force, event, waiting, processes, newpid, todo>>

(* -ENOMEM, -EAGAIN: nothing is left behind. *)
fork_fail(t) ==
    /\ At(t, "dup")
    /\ Goto(t, "user")
    /\ UNCHANGED <<schedVars, event, waiting, procVars>>

fork_link(t) ==
    /\ At(t, "link")
    /\ processes' = <<child[t]>> \o processes
    /\ Goto(t, "user")
    /\ UNCHANGED <<schedVars, event, waiting, proc, pid, parent, pstate, pthreads,
                   newpid, child, todo>>

(* Mutant: the new thread is not put on the list of its process. *)
CreateUnlisted(t) ==
    /\ Call(t, "thread_create")
    /\ Len(pthreads[proc[t]]) < THREAD_MAX_PER_PROCESS
    /\ \E u \in Thread :
        /\ state[u] = "FREE"
        /\ state' = [state EXCEPT ![u] = "RUNNING"]
        /\ scheduler_add_thread(u)
        /\ proc' = [proc EXCEPT ![u] = proc[t]]
        /\ Goto(u, "user")
    /\ UNCHANGED <<running, sweep, force, event, waiting, processes, pid, parent,
                   pstate, pthreads, newpid, child, todo>>

(* thread_create, for a thread of the same process. *)
thread_create(t) ==
    LET p == proc[t] IN
    /\ Call(t, "thread_create")
    /\ Len(pthreads[p]) < THREAD_MAX_PER_PROCESS
    /\ \E u \in Thread :
        /\ state[u] = "FREE"
        /\ state' = [state EXCEPT ![u] = "RUNNING"]
        /\ scheduler_add_thread(u)
        /\ proc' = [proc EXCEPT ![u] = p]
        /\ pthreads' = [pthreads EXCEPT ![p] = <<u>> \o @]
        /\ Goto(u, "user")
    /\ UNCHANGED <<running, sweep, force, event, waiting, processes, pid, parent,
                   pstate, newpid, child, todo>>

-----------------------------------------------------------------------------
(* process_waitpid, find_child. *)
wait_find(t) ==
    /\ Call(t, "waitpid")
    /\ \E d \in Pid :
        LET c == process_get(d) IN
        /\ c # NULL /\ parent[c] = proc[t]
        /\ child' = [child EXCEPT ![t] = c]
        /\ event' = [event EXCEPT ![t] = [event |-> "SCHED_EV_PEXIT", data |-> d]]
    /\ Goto(t, "plock")
    /\ UNCHANGED <<schedVars, waiting, proc, processes, pid, parent, pstate, pthreads,
                   newpid, todo>>

(* Mutant: the test for a zombie is inverted. *)
WaitInverted(t) ==
    /\ At(t, "plock")
    /\ IF pstate[child[t]] # "ZOMBIE"
       THEN Goto(t, "reap") /\ UNCHANGED <<state, waiting>>
       ELSE /\ state' = [state EXCEPT ![t] = "BLOCKED"]
            /\ waiting' = [waiting EXCEPT !["SCHED_EV_PEXIT"] = <<t>> \o @]
            /\ Goto(t, "lock")
    /\ UNCHANGED <<threads, running, time, sweep, force, event, procVars>>

(* Under the child's plock: a zombie can be waited for at once; otherwise  *)
(* thread_block marks t and puts it on the waiting list before it releases *)
(* the lock.                                                               *)
wait_lock(t) ==
    /\ At(t, "plock")
    /\ IF pstate[child[t]] = "ZOMBIE"
       THEN Goto(t, "reap") /\ UNCHANGED <<state, waiting>>
       ELSE /\ state' = [state EXCEPT ![t] = "BLOCKED"]
            /\ waiting' = [waiting EXCEPT !["SCHED_EV_PEXIT"] = <<t>> \o @]
            /\ Goto(t, "lock")
    /\ UNCHANGED <<threads, running, time, sweep, force, event, procVars>>

wait_remove(t) == block_remove(t, "reap") /\ UNCHANGED procVars

(* `int $0x20'. *)
wait_int(t) ==
    /\ At(t, "int")
    /\ scheduler_update(time, TRUE, 0)
    /\ Goto(t, "reap")
    /\ UNCHANGED <<state, threads, running, event, waiting, procVars>>

(* remove_process. *)
remove_process(t) ==
    /\ At(t, "reap")
    /\ processes' = SelectSeq(processes, LAMBDA p : p # child[t])
    /\ pid' = [pid EXCEPT ![child[t]] = -1]
    /\ Goto(t, "user")
    /\ UNCHANGED <<schedVars, event, waiting, proc, parent, pstate, pthreads, newpid,
                   child, todo>>

-----------------------------------------------------------------------------
(* process_exit: the locked part. *)
process_exit(t) ==
    /\ Call(t, "exit")
    /\ pstate' = [pstate EXCEPT ![proc[t]] = "ZOMBIE"]
    /\ todo' = [todo EXCEPT ![t] = pthreads[proc[t]]]
    /\ Goto(t, "kill")
    /\ UNCHANGED <<schedVars, event, waiting, proc, processes, pid, parent, pthreads,
                   newpid, child>>

(* thread_exit of the next thread of the list, t itself among them. *)
exit_kill(t) ==
    /\ At(t, "kill")
    /\ IF todo[t] = <<>>
       THEN Goto(t, "exit") /\ UNCHANGED <<state, todo>>
       ELSE /\ state' = [state EXCEPT ![Head(todo[t])] =
                    IF @ = "FREE" THEN "FREE" ELSE "ZOMBIE"]
            /\ todo' = [todo EXCEPT ![t] = Tail(@)]
            /\ UNCHANGED pc
    /\ UNCHANGED <<threads, running, time, sweep, force, event, waiting, proc, processes,
                   pid, parent, pstate, pthreads, newpid, child>>

(* sys_thread_exit: the state of the process is left alone. *)
thread_exit(t) ==
    /\ Call(t, "thread_exit")
    /\ state' = [state EXCEPT ![t] = "ZOMBIE"]
    /\ Goto(t, "exit")
    /\ UNCHANGED <<threads, running, time, sweep, force, event, waiting, procVars>>

exit_time(t) ==
    /\ At(t, "exit")
    /\ time' = 1
    /\ Goto(t, "leave")
    /\ UNCHANGED <<state, threads, running, sweep, force, event, waiting, procVars>>

exit_update(t) ==
    /\ At(t, "leave") \/ At(t, "exec")
    /\ scheduler_update(time, FALSE, 1)
    /\ IF pc[t] = "exec" THEN Goto(t, "user") ELSE UNCHANGED pc
    /\ UNCHANGED <<state, threads, running, event, waiting, procVars>>

(* process_execv once the binary is loaded: its loop calls                 *)
(* thread_exit(thread), on the caller, for each other thread.              *)
process_execv(t) ==
    /\ Call(t, "execv")
    /\ IF Len(pthreads[proc[t]]) > 1
       THEN state' = [state EXCEPT ![t] = "ZOMBIE"]
       ELSE UNCHANGED state
    /\ Goto(t, "exec")
    /\ UNCHANGED <<threads, running, time, sweep, force, event, waiting, procVars>>

(* Mutant: nobody is told. *)
DestroySilently(p, st, run) ==
    /\ pid[p] # 1
    /\ state' = st /\ threads' = run
    /\ UNCHANGED <<time, waiting>>

(* process_destroy: whoever waits for the pid is woken.  The notification  *)
(* of SCHED_EV_PEXIT_PARENT has no waiters anywhere.                       *)
process_destroy(p, st, run) ==
    /\ pid[p] # 1
    /\ scheduler_event_notify("SCHED_EV_PEXIT", pid[p], st, run)

(* thread_destroy, and process_destroy with the last thread; the death of  *)
(* init is a kernel panic: the model stops.                                *)
thread_destroy(t) ==
    LET p == proc[t]
        rest == SelectSeq(pthreads[p], LAMBDA u : u # t)
        freed == [state EXCEPT ![t] = "FREE"]
        swept == RemoveAt(threads, sweep)
    IN  /\ SweepZombie(t)
        /\ pthreads' = [pthreads EXCEPT ![p] = rest]
        /\ IF rest = <<>>
           THEN process_destroy(p, freed, swept)
           ELSE threads' = swept /\ state' = freed /\ UNCHANGED <<time, waiting>>
        /\ Goto(t, "user")
        /\ event' = [event EXCEPT ![t] = NoEvent]
        /\ proc' = [proc EXCEPT ![t] = NULL]
        /\ newpid' = [newpid EXCEPT ![t] = -1]
        /\ child' = [child EXCEPT ![t] = NULL]
        /\ todo' = [todo EXCEPT ![t] = <<>>]
        /\ UNCHANGED <<processes, pid, parent, pstate>>

-----------------------------------------------------------------------------
RunListOnce == IsInjective(threads)

Sweep ==
    \/ (scheduler_start \/ SweepKeep \/ SweepBlocked \/ scheduler_elect)
       /\ UNCHANGED <<eventVars, procVars>>
    \/ \E t \in Thread : thread_destroy(t)

Timer == Tick /\ UNCHANGED <<eventVars, procVars>>

InKernel(t) ==
    \/ fork_duplicate(t) \/ fork_fail(t) \/ fork_link(t)
    \/ wait_lock(t) \/ wait_remove(t) \/ wait_int(t) \/ remove_process(t)
    \/ exit_kill(t) \/ exit_time(t) \/ exit_update(t)

Syscall(t) ==
    \/ fork_pid(t) \/ thread_create(t) \/ wait_find(t)
    \/ process_exit(t) \/ thread_exit(t) \/ process_execv(t)

Next ==
    /\ RunListOnce
    /\ \/ Sweep
       \/ Timer
       \/ \E t \in Thread : InKernel(t) \/ Syscall(t)
    /\ UNCHANGED calls

Spec == Init /\ [][Next]_vars

(* As in ChannelQueue: a thread that gets the CPU again and again gets     *)
(* through the kernel, the scheduler ends, the timer goes on.              *)
FairSpec ==
    /\ Spec
    /\ WF_vars(RunListOnce /\ Sweep /\ UNCHANGED calls)
    /\ WF_vars(RunListOnce /\ Timer /\ UNCHANGED calls)
    /\ \A t \in Thread : SF_vars(RunListOnce /\ InKernel(t) /\ UNCHANGED calls)

-----------------------------------------------------------------------------
Listed(p) == p \in Range(processes)

WaitsFor(t, p) == pc[t] \in {"lock", "int", "reap"} /\ child[t] = p

(* The threads of the processes: each existing thread is on the list of    *)
(* one process, which is how thread_count can tell the last one; every     *)
(* thread that can run or has to be destroyed is on the run list, once.    *)
ThreadsSound ==
    /\ ProcessTypeOK
    /\ RunListOnce
    /\ \A t \in Thread :
        /\ \A p \in Proc : t \in Range(pthreads[p]) <=> proc[t] = p
        /\ state[t] = "FREE" <=> proc[t] = NULL
        /\ state[t] \in {"RUNNING", "ZOMBIE"} => t \in Range(threads)

(* process_waitpid waits "for a child process [...] to exit": when it goes *)
(* on to remove the child, the child has left its last user instruction,   *)
(* so the exit status it reads is final.                                   *)
WaitReturnsExited ==
    \A t \in Thread : pc[t] = "reap" /\ state[t] = "RUNNING" =>
        pstate[child[t]] = "ZOMBIE"

(* Nobody waits for a process that will not tell: a thread blocked in      *)
(* process_waitpid is on the waiting list and its child still has a thread *)
(* and its pid, so that process_destroy will wake the waiter up.           *)
WaiterWillBeWoken ==
    \A t \in Thread : state[t] = "BLOCKED" =>
        /\ t \in Range(waiting["SCHED_EV_PEXIT"])
        /\ pthreads[child[t]] # <<>>
        /\ pid[child[t]] = event[t].data

(* process_fork returns "the processus new pid": no two listed processes   *)
(* have the same pid, so process_get finds the one that is meant.          *)
UniquePid ==
    \A p, q \in Proc : Listed(p) /\ Listed(q) /\ pid[p] = pid[q] => p = q

(* process_fork returns -EAGAIN when "the maximum number of PID has been   *)
(* reached": a listed process has a real pid.                              *)
RealPid == \A p \in Proc : Listed(p) => pid[p] # -1

(* process_exit: "Exit all threads": when none of the threads of a zombie  *)
(* process is still in process_exit's loop, all are zombies.               *)
ExitsAllThreads ==
    \A t \in Thread :
        /\ proc[t] # NULL
        /\ pstate[proc[t]] = "ZOMBIE"
        /\ \A u \in Thread : proc[u] = proc[t] => pc[u] # "kill"
        => state[t] = "ZOMBIE"

(* process_execv replaces the code of the calling thread, which lives on   *)
(* to execute it.                                                          *)
ExecSurvives == \A t \in Thread : pc[t] = "exec" => state[t] = "RUNNING"

(* A process that has exited is waited for: waitpid returns.               *)
WaitReturns ==
    \A t \in Thread, p \in Proc :
        WaitsFor(t, p) /\ pstate[p] = "ZOMBIE" ~> ~WaitsFor(t, p)
=============================================================================
