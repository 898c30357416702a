-------------------------------- MODULE Sleep --------------------------------
(***************************************************************************)
(* thread_sleep (kernel/core/proc/thread.c) with the timers of             *)
(* kernel/core/timer.c.  pc[t], besides the values of Event:               *)
(*   "register"  timer_register, before its lock                           *)
(*   "fill"      timer_register, entry taken, before `next = ticks + time' *)
(*   "link"      timer_register, before klist_add                          *)
(*                                                                         *)
(* A run list that holds a thread twice is broken (klist_add_back of a     *)
(* linked node cuts the list or closes it on itself), and what the kernel  *)
(* does then is not modelled: the model stops there.                       *)
(***************************************************************************)
EXTENDS Event

CONSTANTS
    TIMER_NUM,  \* entries of `timers'
    Ms,         \* the arguments of usleep, in ticks
    MAX_TICKS   \* bound of the model: ticks counted before it stops

ASSUME SleepAssumption ==
    /\ TIMER_NUM \in Nat
    /\ MAX_TICKS \in Nat
    /\ Ms \subseteq Nat

VARIABLES
    ticks,   \* ticks, a tick_t
    timers,  \* timers[i]: free, next, data
    list,    \* cpu->timers: the entry added last is first
    irq,     \* 0, or the position timer_handler has reached in the list
    ms,      \* ms[t]: the argument of t's thread_sleep
    timer,   \* timer[t]: the entry timer_register works on, 0 if none
    due      \* history: the tick before which t's sleep must not end

sleepVars == <<ticks, timers, list, irq, ms, timer, due>>
vars == <<schedVars, eventVars, sleepVars>>

SleepPc == {"user", "register", "fill", "link", "block", "event", "lock", "int"}

SleepTypeOK ==
    /\ EventTypeOK
    /\ pc \in [Thread -> SleepPc]
    /\ ticks \in 0 .. MAX_TICKS
    /\ timers \in [1 .. TIMER_NUM ->
            [free : {0, 1}, next : Nat, data : Data \cup {NULL}]]
    /\ list \in Seq(1 .. TIMER_NUM)
    /\ irq \in 0 .. Len(list) + 1
    /\ ms \in [Thread -> Nat]
    /\ timer \in [Thread -> 0 .. TIMER_NUM]
    /\ due \in [Thread -> Nat]

(* timer_initialize. *)
timer_initialize ==
    /\ ticks = 0
    /\ timers = [i \in 1 .. TIMER_NUM |-> [free |-> 1, next |-> 0, data |-> NULL]]
    /\ list = <<>>
    /\ irq = 0

Init ==
    /\ scheduler_initialize
    /\ scheduler_event_initialize
    /\ timer_initialize
    /\ ms = [t \in Thread |-> 0]
    /\ timer = [t \in Thread |-> 0]
    /\ due = [t \in Thread |-> 0]

-----------------------------------------------------------------------------
(* sys_usleep, thread_sleep. *)
thread_sleep(t) ==
    /\ At(t, "user")
    /\ \E m \in Ms :
        /\ ms' = [ms EXCEPT ![t] = m]
        /\ due' = [due EXCEPT ![t] = ticks + m]
    /\ Goto(t, "register")
    /\ UNCHANGED <<schedVars, event, waiting, ticks, timers, list, irq, timer>>

(* timer_new. *)
Free == {i \in 1 .. TIMER_NUM : timers[i].free = 1}

(* Mutant: an entry is chosen but not marked. *)
RegisterUnmarked(t) ==
    /\ At(t, "register")
    /\ IF ms[t] = 0 \/ Free = {}
       THEN Goto(t, "block") /\ UNCHANGED timer
       ELSE timer' = [timer EXCEPT ![t] = Min(Free)] /\ Goto(t, "fill")
    /\ UNCHANGED <<schedVars, event, waiting, ticks, timers, list, irq, ms, due>>

(* timer_register up to the release of timer_lock.  Its errors (time = 0,  *)
(* no entry left) are not looked at by thread_sleep.                       *)
timer_register(t) ==
    /\ At(t, "register")
    /\ IF ms[t] = 0 \/ Free = {}
       THEN Goto(t, "block") /\ UNCHANGED <<timers, timer>>
       ELSE LET i == Min(Free) IN
            /\ timers' = [timers EXCEPT ![i].free = 0]
            /\ timer' = [timer EXCEPT ![t] = i]
            /\ Goto(t, "fill")
    /\ UNCHANGED <<schedVars, event, waiting, ticks, list, irq, ms, due>>

timer_fill(t) ==
    /\ At(t, "fill")
    /\ timers' = [timers EXCEPT ![timer[t]].next = ticks + ms[t],
                                ![timer[t]].data = t]
    /\ Goto(t, "link")
    /\ UNCHANGED <<schedVars, event, waiting, ticks, list, irq, ms, timer, due>>

timer_link(t) ==
    /\ At(t, "link")
    /\ list' = <<timer[t]>> \o list
    /\ timer' = [timer EXCEPT ![t] = 0]
    /\ Goto(t, "block")
    /\ UNCHANGED <<schedVars, event, waiting, ticks, timers, irq, ms, due>>

(* thread_block(thread, SCHED_EV_TIMER, data, NULL). *)
thread_block(t) ==
    /\ \/ block_state(t, "SCHED_EV_TIMER", t)
       \/ scheduler_event_wait(t)
       \/ block_remove(t, "user")
    /\ UNCHANGED sleepVars

-----------------------------------------------------------------------------
(* timer_handler, entered by the clock or by `int $0x20'. *)
HandlerEntry ==
    /\ Interruptible
    /\ ticks < MAX_TICKS
    /\ ticks' = ticks + 1
    /\ irq' = 1
    /\ UNCHANGED <<schedVars, event, waiting, timers, list, ms, timer, due>>

Clock == HandlerEntry /\ UNCHANGED pc

block_int(t) == At(t, "int") /\ HandlerEntry /\ Goto(t, "user")

TimerAt(i) == irq \in DOMAIN list /\ list[irq] = i

(* Mutant: a timer that is overdue fires too, and one that has fired keeps *)
(* its entry.                                                              *)
FireBeforeDue ==
    \E i \in 1 .. TIMER_NUM :
        /\ TimerAt(i)
        /\ timers[i].next <= ticks + 1
        /\ scheduler_event_notify("SCHED_EV_TIMER", timers[i].data, state, threads)
        /\ list' = RemoveAt(list, irq)
        /\ timers' = [timers EXCEPT ![i].free = 1]
        /\ UNCHANGED <<running, sweep, force, pc, event, ticks, irq, ms, timer, due>>

timer_fire ==
    \E i \in 1 .. TIMER_NUM :
        /\ TimerAt(i)
        /\ timers[i].next = ticks
        /\ scheduler_event_notify("SCHED_EV_TIMER", timers[i].data, state, threads)
        /\ list' = RemoveAt(list, irq)
        /\ timers' = [timers EXCEPT ![i].free = 1]
        /\ UNCHANGED <<running, sweep, force, pc, event, ticks, irq, ms, timer, due>>

timer_skip ==
    \E i \in 1 .. TIMER_NUM :
        /\ TimerAt(i)
        /\ timers[i].next # ticks
        /\ irq' = irq + 1
        /\ UNCHANGED <<schedVars, eventVars, ticks, timers, list, ms, timer, due>>

timer_update ==
    /\ irq > Len(list)
    /\ scheduler_update(time, TRUE, 0)
    /\ irq' = 0
    /\ UNCHANGED <<state, threads, running, eventVars, ticks, timers, list, ms,
                   timer, due>>

-----------------------------------------------------------------------------
RunListOnce == IsInjective(threads)

Handler == timer_fire \/ timer_skip \/ timer_update

Sweep ==
    /\ scheduler_start \/ SweepKeep \/ SweepBlocked \/ scheduler_elect
    /\ UNCHANGED <<eventVars, sleepVars>>

Running(t) ==
    \/ thread_sleep(t) \/ timer_register(t) \/ timer_fill(t) \/ timer_link(t)
    \/ thread_block(t) \/ block_int(t)

Next ==
    /\ RunListOnce
    /\ \/ irq > 0 /\ Handler
       \/ irq = 0 /\ (Clock \/ Sweep \/ \E t \in Thread : Running(t))

Spec == Init /\ [][Next]_vars

-----------------------------------------------------------------------------
Linked(i) == i \in Range(list)

Holds(t, i) == timer[t] = i

(* An entry of `timers' is free, or on cpu->timers once, or with exactly   *)
(* one thread inside timer_register: none is lost and none is given to two *)
(* threads, although only the choice of the entry is under timer_lock.     *)
TimersSound ==
    /\ IsInjective(list)
    /\ \A i \in 1 .. TIMER_NUM :
        /\ timers[i].free = 1 => ~Linked(i) /\ \A t \in Thread : ~Holds(t, i)
        /\ timers[i].free = 0 /\ ~Linked(i) => \E t \in Thread : Holds(t, i)
        /\ \A t \in Thread : Holds(t, i) => ~Linked(i)
        /\ \A t, u \in Thread : Holds(t, i) /\ Holds(u, i) => t = u

SleepInv == SleepTypeOK /\ TimersSound

(* A sleep does not end early: a thread that has blocked in thread_sleep   *)
(* runs again only when `ticks' has reached the tick it asked for.         *)
NoEarlyWake ==
    \A t \in Thread :
        /\ event[t] # NoEvent
        /\ pc[t] \in {"lock", "int", "user"}
        /\ state[t] = "RUNNING"
        => ticks >= due[t]

(* thread_block: a thread that was unblocked before it takes the           *)
(* scheduler's lock had "already [been] removed" from the run list         *)
(* (comment in thread_block), so that it is on the list once.              *)
UnblockedOnce == RunListOnce

(* thread_block: a thread that has been marked blocked and was interrupted *)
(* "would have been already unblocked" (same comment): once the scheduler  *)
(* has removed it from the run list it is on a waiting list.               *)
BlockedReachable ==
    \A t \in Thread :
        state[t] = "BLOCKED" /\ t \notin Range(threads) =>
            \E e \in Event : t \in Range(waiting[e])
=============================================================================
