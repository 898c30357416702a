---------------------------- MODULE UserInterrupt ----------------------------
(***************************************************************************)
(* Interrupts handed to user-space drivers: sys_interrupt_register,        *)
(* _listen and _unregister (kernel/core/syscall/interrupt.c) with the      *)
(* table of kernel/core/interrupt.c, over wait queues and the scheduler.   *)
(* A queue of WaitQueue is the queue of one user interrupt.  pc[t],        *)
(* besides the values of WaitQueue:                                        *)
(*   "register"  sys_interrupt_register, before interrupt_register         *)
(*   "release"   thread_exit, zombie, before its interrupts are released   *)
(*   "fired"     sys_interrupt_listen, after wait_queue_wait               *)
(*                                                                         *)
(* As in Sleep the model stops when a thread is on the run list twice.     *)
(***************************************************************************)
EXTENDS WaitQueue

VARIABLES
    entry,   \* entry[q]: the interrupt_entries type, 1 is CALLBACK
    thread,  \* thread[q]: interrupts[q].thread, NULL if none
    flags,   \* flags[t][q]: thread->interrupts, a set of flags
    irq      \* irq[t]: the interrupt of t's current system call

intrVars == <<entry, thread, flags, irq>>
vars == <<schedVars, waitVars, intrVars>>

Flag == {"REGISTERED", "FIRED"}

UserInterruptTypeOK ==
    /\ SchedulerTypeOK
    /\ pc \in [Thread -> WaitPc \cup {"register", "release", "fired"}]
    /\ wq \in [Queue -> Seq(Thread)]
    /\ entry \in [Queue -> {0, 1}]
    /\ thread \in [Queue -> Thread \cup {NULL}]
    /\ flags \in [Thread -> [Queue -> SUBSET Flag]]
    /\ irq \in [Thread -> Queue]

(* interrupt_initialize. *)
Init ==
    /\ scheduler_initialize
    /\ wait_queue_init
    /\ entry = [q \in Queue |-> 0]
    /\ thread = [q \in Queue |-> NULL]
    /\ flags = [t \in Thread |-> [q \in Queue |-> {}]]
    /\ irq = [t \in Thread |-> CHOOSE q \in Queue : TRUE]

Registered(t, q) == "REGISTERED" \in flags[t][q]

Fired(t) == "FIRED" \in flags[t][irq[t]]

-----------------------------------------------------------------------------
(* sys_interrupt_register up to its call of interrupt_register: the        *)
(* interrupt is taken over before it is known to be free.                  *)
register_claim(t) ==
    /\ At(t, "user")
    /\ \E q \in Queue :
        /\ ~Registered(t, q)
        /\ flags' = [flags EXCEPT ![t][q] = {"REGISTERED"}]
        /\ thread' = [thread EXCEPT ![q] = t]
        /\ wq' = [wq EXCEPT ![q] = <<>>]
        /\ irq' = [irq EXCEPT ![t] = q]
    /\ Goto(t, "register")
    /\ UNCHANGED <<schedVars, entry>>

(* interrupt_register, which fails with -EEXIST on an entry in use, and    *)
(* interrupt_unregister.                                                   *)
interrupt_register(q) == entry[q] = 0 /\ entry' = [entry EXCEPT ![q] = 1]

interrupt_unregister(qs) == entry' = [q \in Queue |-> IF q \in qs THEN 0 ELSE entry[q]]

(* The end of sys_interrupt_register. *)
register_end(t) ==
    LET q == irq[t] IN
    /\ At(t, "register")
    /\ \/ interrupt_register(q) /\ UNCHANGED <<thread, flags>>
       \/ /\ entry[q] = 1
          /\ flags' = [flags EXCEPT ![t][q] = {}]
          /\ thread' = [thread EXCEPT ![q] = NULL]
          /\ UNCHANGED entry
    /\ Goto(t, "user")
    /\ UNCHANGED <<schedVars, wq, irq>>

sys_interrupt_unregister(t) ==
    /\ At(t, "user")
    /\ \E q \in Queue :
        /\ Registered(t, q)
        /\ interrupt_unregister({q})
        /\ flags' = [flags EXCEPT ![t][q] = {}]
        /\ thread' = [thread EXCEPT ![q] = NULL]
    /\ UNCHANGED <<schedVars, waitVars, irq>>

-----------------------------------------------------------------------------
(* sys_interrupt_listen: an interrupt that has fired is taken at once. *)
interrupt_listen(t) ==
    /\ At(t, "user")
    /\ \E q \in Queue :
        /\ Registered(t, q)
        /\ irq' = [irq EXCEPT ![t] = q]
        /\ Goto(t, IF "FIRED" \in flags[t][q] THEN "fired" ELSE "wait")
    /\ UNCHANGED <<schedVars, wq, entry, thread, flags>>

listen_wait(t) ==
    /\ \/ wait_queue_wait(t, irq[t], Fired(t), "fired")
       \/ wait_remove(t)
       \/ wait_int(t)
       \/ wait_test(t, Fired(t), "fired")
    /\ UNCHANGED intrVars

listen_return(t) ==
    /\ At(t, "fired")
    /\ flags' = [flags EXCEPT ![t][irq[t]] = @ \ {"FIRED"}]
    /\ Goto(t, "user")
    /\ UNCHANGED <<schedVars, wq, entry, thread, irq>>

(* interrupt_dispatch calls back for an entry in use. *)
interrupt_dispatch(q) == Interruptible /\ entry[q] = 1

(* Mutant: no notify. *)
CallbackFlagOnly(q) ==
    /\ interrupt_dispatch(q)
    /\ thread[q] # NULL
    /\ flags' = [flags EXCEPT ![thread[q]][q] = @ \cup {"FIRED"}]
    /\ UNCHANGED <<schedVars, waitVars, entry, thread, irq>>

user_interrupt_callback(q) ==
    /\ interrupt_dispatch(q)
    /\ thread[q] # NULL
    /\ flags' = [flags EXCEPT ![thread[q]][q] = @ \cup {"FIRED"}]
    /\ wait_queue_notify(q)
    /\ UNCHANGED <<running, sweep, force, pc, entry, thread, irq>>

-----------------------------------------------------------------------------
(* thread_exit: a zombie first, then the interrupts are released; the      *)
(* zombie may lose the CPU for ever in between.                            *)
exit_zombie(t) ==
    /\ At(t, "user")
    /\ state' = [state EXCEPT ![t] = "ZOMBIE"]
    /\ Goto(t, "release")
    /\ UNCHANGED <<threads, running, time, sweep, force, wq, intrVars>>

exit_release(t) ==
    /\ At(t, "release")
    /\ interrupt_unregister({q \in Queue : Registered(t, q)})
    /\ flags' = [flags EXCEPT ![t] = [q \in Queue |-> {}]]
    /\ Goto(t, "exit")
    /\ UNCHANGED <<schedVars, wq, thread, irq>>

(* sys_thread_create: memset of the new thread's flags. *)
thread_create(t) ==
    /\ sys_thread_create(t)
    /\ flags' = [u \in Thread |->
            IF state[u] = "FREE" /\ state'[u] = "RUNNING"
            THEN [q \in Queue |-> {}] ELSE flags[u]]
    /\ UNCHANGED <<entry, thread, irq>>

-----------------------------------------------------------------------------
RunListOnce == IsInjective(threads)

Sweep ==
    \/ (scheduler_start \/ SweepKeep \/ SweepBlocked \/ scheduler_elect \/ Tick)
       /\ UNCHANGED <<waitVars, intrVars>>
    \/ \E t \in Thread : thread_destroy(t) /\ UNCHANGED intrVars

Running(t) ==
    \/ register_claim(t) \/ register_end(t) \/ sys_interrupt_unregister(t)
    \/ interrupt_listen(t) \/ listen_wait(t) \/ listen_return(t)
    \/ thread_create(t) \/ exit_zombie(t) \/ exit_release(t)
    \/ (exit_time(t) \/ exit_update(t)) /\ UNCHANGED intrVars

Next ==
    /\ RunListOnce
    /\ \/ Sweep
       \/ \E t \in Thread : Running(t)
       \/ \E q \in Queue : user_interrupt_callback(q)

Spec == Init /\ [][Next]_vars

-----------------------------------------------------------------------------
(* The types, and: the queue of an interrupt holds only threads blocked    *)
(* in sys_interrupt_listen for it, each once, so that a callback never     *)
(* makes a thread runnable that is not waiting.                            *)
ListenersSound ==
    /\ UserInterruptTypeOK
    /\ \A q \in Queue :
        /\ IsInjective(wq[q])
        /\ \A t \in Range(wq[q]) : state[t] = "BLOCKED" /\ irq[t] = q

(* No interrupt is slept through: a driver that is blocked in              *)
(* sys_interrupt_listen has no interrupt pending, whatever other threads   *)
(* register, unregister and exit.                                          *)
NoSleepThroughInterrupt ==
    \A t \in Thread : state[t] = "BLOCKED" => ~Fired(t)

(* thread_exit releases the interrupts of the thread ("Unregister          *)
(* interrupts"): an interrupt that can fire is not directed to a thread    *)
(* that has been destroyed.                                                *)
NoDanglingThread ==
    \A q \in Queue : entry[q] = 1 /\ thread[q] # NULL =>
        state[thread[q]] # "FREE"

(* sys_interrupt_listen: "Block thread until an interrupt occured": a      *)
(* blocked driver is the one its interrupt is directed to, and is on the   *)
(* queue the callback notifies.                                            *)
ListenerReachable ==
    \A t \in Thread : state[t] = "BLOCKED" =>
        thread[irq[t]] = t /\ t \in Range(wq[irq[t]])
=============================================================================
