-------------------------------- MODULE Event --------------------------------
(***************************************************************************)
(* Blocking on an event: thread_block, thread_unblock                      *)
(* (kernel/core/proc/thread.c) and the waiting lists of                    *)
(* kernel/core/scheduler/event.c, on top of the scheduler.  The users of   *)
(* thread_block are thread_sleep (module Sleep) and process_waitpid        *)
(* (module Process).  pc[t] is where thread t is:                          *)
(*   "user"   outside the kernel, or between two operations                *)
(*   "block"  thread_block, before `state = BLOCKED'                       *)
(*   "event"  thread_block, before scheduler_event_wait                    *)
(*   "lock"   thread_block, before the scheduler's lock is taken           *)
(*   "int"    scheduler_remove_thread, before `int $0x20'                  *)
(***************************************************************************)
EXTENDS Scheduler

CONSTANTS
    Event,  \* the SCHED_EV_ numbers
    Data    \* what an event carries

VARIABLES
    pc,       \* pc[t]: where t is
    event,    \* event[t]: thread->event
    waiting   \* waiting_list: the thread added last is first

eventVars == <<pc, event, waiting>>

NoEvent == [event |-> "SCHED_EV_NONE", data |-> NULL]

EventTypeOK ==
    /\ SchedulerTypeOK
    /\ event \in [Thread -> [event : Event, data : Data] \cup {NoEvent}]
    /\ waiting \in [Event -> Seq(Thread)]

Goto(t, l) == pc' = [pc EXCEPT ![t] = l]

At(t, l) == OnCpu(t) /\ t \in Thread /\ pc[t] = l

scheduler_event_initialize ==
    /\ pc = [t \in Thread |-> "user"]
    /\ event = [t \in Thread |-> NoEvent]
    /\ waiting = [e \in Event |-> <<>>]

(* scheduler_event_notify: every thread that waits for (e, d) is unblocked *)
(* (thread_unblock: RUNNING, cpu_add_thread), in the order of the list.    *)
(* st and run are the thread states and the run list the call finds.       *)
scheduler_event_notify(e, d, st, run) ==
    LET Waits(t) == event[t] = [event |-> e, data |-> d]
        woken == SelectSeq(waiting[e], Waits)
    IN  /\ waiting' = [waiting EXCEPT ![e] = SelectSeq(@, LAMBDA t : ~Waits(t))]
        /\ state' = [t \in Thread |->
                IF t \in Range(woken) THEN "RUNNING" ELSE st[t]]
        /\ threads' = run \o woken
        /\ time' = IF running = idle /\ woken # <<>> THEN 1 ELSE time

(* `thread->state = BLOCKED' and the event; the next step may come a long  *)
(* time after, when the caller holds no lock.                              *)
block_state(t, e, d) ==
    /\ At(t, "block")
    /\ state' = [state EXCEPT ![t] = "BLOCKED"]
    /\ event' = [event EXCEPT ![t] = [event |-> e, data |-> d]]
    /\ Goto(t, "event")
    /\ UNCHANGED <<threads, running, time, sweep, force, waiting>>

(* scheduler_event_wait. *)
scheduler_event_wait(t) ==
    /\ At(t, "event")
    /\ waiting' = [waiting EXCEPT ![event[t].event] = <<t>> \o @]
    /\ Goto(t, "lock")
    /\ UNCHANGED <<schedVars, event>>

(* The end of thread_block. *)
block_remove(t, then) ==
    /\ At(t, "lock")
    /\ Goto(t, scheduler_remove_thread(t, then, "int"))
    /\ UNCHANGED <<schedVars, event, waiting>>
=============================================================================
