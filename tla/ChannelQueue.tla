---------------------------- MODULE ChannelQueue ----------------------------
(***************************************************************************)
(* Message passing between threads: channel_read_message and               *)
(* channel_write_message (kernel/core/fs/channel.c) over wait queues and   *)
(* the scheduler.  A queue of the model is one (wait queue, input list)    *)
(* pair of the code: the master side of a channel, or one slave.           *)
(*                                                                         *)
(* Threads start, exit, read from and write to any queue, in any order;    *)
(* the timer preempts them anywhere outside a locked region.               *)
(***************************************************************************)
EXTENDS WaitQueue, FiniteSets

CONSTANTS
    Value,    \* what a message carries
    MsgSize,  \* sizes of the messages that are written
    BufSize,  \* sizes of the buffers they are read into
    HEAP      \* how many messages kmalloc can hold before it panics

Message == [val : Value, size : MsgSize, off : {0} \cup MsgSize]

ASSUME ChannelAssumption ==
    /\ MsgSize \subseteq Nat
    /\ BufSize \subseteq Nat
    /\ HEAP \in Nat
    /\ NULL \notin Message

VARIABLES
    input,  \* input[q]: the list of messages of q
    queue,  \* queue[t]: the queue of t's current operation
    size,   \* size[t]: the `size' argument of t's current read
    msg,    \* msg[t]: the message t holds, NULL if none
    heap    \* how many more messages kmalloc can serve

chanVars == <<input, queue, size, msg, heap>>
vars == <<schedVars, waitVars, chanVars>>

ChannelPc == WaitPc \cup {"take", "copy", "push", "notify"}

TypeOK ==
    /\ SchedulerTypeOK
    /\ pc \in [Thread -> ChannelPc]
    /\ wq \in [Queue -> Seq(Thread)]
    /\ input \in [Queue -> Seq(Message)]
    /\ queue \in [Thread -> Queue]
    /\ size \in [Thread -> Nat]
    /\ msg \in [Thread -> Message \cup {NULL}]
    /\ heap \in Nat

Init ==
    /\ scheduler_initialize
    /\ wait_queue_init
    /\ input = [q \in Queue |-> <<>>]
    /\ queue = [t \in Thread |-> CHOOSE q \in Queue : TRUE]
    /\ size = [t \in Thread |-> 0]
    /\ msg = [t \in Thread |-> NULL]
    /\ heap = HEAP

-----------------------------------------------------------------------------
(* channel_read_message. *)
read_call(t) ==
    /\ At(t, "user")
    /\ \E q \in Queue, n \in BufSize :
        /\ queue' = [queue EXCEPT ![t] = q]
        /\ size' = [size EXCEPT ![t] = n]
    /\ Goto(t, "wait")
    /\ UNCHANGED <<schedVars, wq, input, msg, heap>>

HasInput(t) == input[queue[t]] # <<>>

read_wait(t) ==
    /\ wait_queue_wait(t, queue[t], HasInput(t), "take")
    /\ UNCHANGED chanVars

read_remove(t) == wait_remove(t) /\ UNCHANGED chanVars

read_int(t) == wait_int(t) /\ UNCHANGED chanVars

read_test(t) == wait_test(t, HasInput(t), "take") /\ UNCHANGED chanVars

(* The first message leaves the list; another reader may have taken it. *)
read_take(t) ==
    /\ At(t, "take")
    /\ IF HasInput(t)
       THEN /\ msg' = [msg EXCEPT ![t] = Head(input[queue[t]])]
            /\ input' = [input EXCEPT ![queue[t]] = Tail(@)]
            /\ Goto(t, "copy")
       ELSE Goto(t, "wait") /\ UNCHANGED <<input, msg>>
    /\ UNCHANGED <<schedVars, wq, queue, size, heap>>

(* Mutant: the message is never freed. *)
CopyWithoutFree(t) ==
    /\ At(t, "copy")
    /\ msg' = [msg EXCEPT ![t] = NULL]
    /\ Goto(t, "user")
    /\ UNCHANGED <<schedVars, wq, queue, size, input, heap>>

(* After the copy: a message larger than the buffer goes back to the head  *)
(* of the list with off = size, and no notify; any other one is freed.     *)
read_copy(t) ==
    LET m == msg[t] IN
    /\ At(t, "copy")
    /\ IF size[t] < m.size
       THEN /\ input' = [input EXCEPT ![queue[t]] = <<[m EXCEPT !.off = m.size]>> \o @]
            /\ UNCHANGED heap
       ELSE heap' = heap + 1 /\ UNCHANGED input
    /\ msg' = [msg EXCEPT ![t] = NULL]
    /\ Goto(t, "user")
    /\ UNCHANGED <<schedVars, wq, queue, size>>

-----------------------------------------------------------------------------
(* channel_write_message.  With the heap exhausted kmalloc panics and the  *)
(* -ENOMEM branch is not reached: the model covers what precedes that.     *)
write_call(t) ==
    /\ At(t, "user")
    /\ heap > 0
    /\ heap' = heap - 1
    /\ \E q \in Queue, v \in Value, n \in MsgSize :
        /\ queue' = [queue EXCEPT ![t] = q]
        /\ msg' = [msg EXCEPT ![t] = [val |-> v, size |-> n, off |-> 0]]
    /\ Goto(t, "push")
    /\ UNCHANGED <<schedVars, wq, input, size>>

(* Mutant: notify only when the list was empty before the push. *)
PushNotifyIfEmpty(t) ==
    /\ At(t, "push")
    /\ input' = [input EXCEPT ![queue[t]] = Append(@, msg[t])]
    /\ msg' = [msg EXCEPT ![t] = NULL]
    /\ Goto(t, IF HasInput(t) THEN "user" ELSE "notify")
    /\ UNCHANGED <<schedVars, wq, queue, size, heap>>

write_push(t) ==
    /\ At(t, "push")
    /\ input' = [input EXCEPT ![queue[t]] = Append(@, msg[t])]
    /\ msg' = [msg EXCEPT ![t] = NULL]
    /\ Goto(t, "notify")
    /\ UNCHANGED <<schedVars, wq, queue, size, heap>>

write_notify(t) ==
    /\ At(t, "notify")
    /\ wait_queue_notify(queue[t])
    /\ Goto(t, "user")
    /\ UNCHANGED <<running, sweep, force, chanVars>>

-----------------------------------------------------------------------------
(* What thread t does inside a system call, and what it may start. *)
InKernel(t) ==
    \/ read_wait(t) \/ read_remove(t) \/ read_int(t) \/ read_test(t)
    \/ read_take(t) \/ read_copy(t)
    \/ write_push(t) \/ write_notify(t)
    \/ (exit_time(t) \/ exit_update(t)) /\ UNCHANGED chanVars

Syscall(t) ==
    \/ read_call(t) \/ write_call(t)
    \/ (sys_thread_create(t) \/ thread_exit(t)) /\ UNCHANGED chanVars

(* The scheduler, with interrupts off, and the timer. *)
Update ==
    \/ (scheduler_start \/ SweepKeep \/ SweepBlocked \/ scheduler_elect)
       /\ UNCHANGED <<waitVars, chanVars>>
    \/ \E t \in Thread : thread_destroy(t) /\ UNCHANGED chanVars

Timer == Tick /\ UNCHANGED <<waitVars, chanVars>>

Next ==
    \/ Update
    \/ Timer
    \/ \E t \in Thread : InKernel(t) \/ Syscall(t)

Spec == Init /\ [][Next]_vars

(* A thread whose time slice comes again and again gets through the kernel *)
(* (SCHEDULER_TIME ticks are 10 ms, a system call is microseconds): strong *)
(* fairness.  The timer goes on ticking and the scheduler runs to its end: *)
(* weak fairness.  User code need not call the kernel: no fairness.        *)
FairSpec ==
    /\ Spec
    /\ WF_vars(Update)
    /\ WF_vars(Timer)
    /\ \A t \in Thread : SF_vars(InKernel(t))

-----------------------------------------------------------------------------
OnList(t) == t \in Range(threads)

Waits(t, q) == t \in Range(wq[q])

(* The run list holds no thread twice (klist_add_back of a listed node     *)
(* would cut or close the list), holds every thread that can run and every *)
(* zombie still to be destroyed, and holds a blocked thread only while     *)
(* that thread is the running one, on its way to `int $0x20'.              *)
RunListSound ==
    /\ IsInjective(threads)
    /\ \A t \in Thread :
        /\ state[t] \in {"RUNNING", "ZOMBIE"} => OnList(t)
        /\ state[t] = "FREE" => ~OnList(t)
        /\ OnList(t) /\ state[t] = "BLOCKED" => running = t

(* A thread is blocked exactly while it is on the wait queue it reads      *)
(* from, once: nobody blocked is out of reach of a notify, and nobody is   *)
(* woken twice.                                                            *)
WaitersSound ==
    /\ \A q \in Queue : IsInjective(wq[q])
    /\ \A t \in Thread, q \in Queue :
        Waits(t, q) <=> state[t] = "BLOCKED" /\ queue[t] = q

(* scheduler_remove_thread is called by the running thread on itself and   *)
(* never finds a zombie, and a thread that is on the CPU outside its own   *)
(* blocking or exit path is in state RUNNING.                              *)
RemovesItself ==
    \A t \in Thread : OnCpu(t) =>
        /\ state[t] = "BLOCKED" => pc[t] \in {"remove", "int"}
        /\ state[t] = "ZOMBIE" => pc[t] \in {"exit", "leave"}
        /\ state[t] # "FREE"

(* Whenever interrupts are on the size_t time slice is between 1 and       *)
(* SCHEDULER_TIME, so `--time' never wraps around.                         *)
TimeSlice == Interruptible => time \in 1 .. SCHEDULER_TIME

(* The facts that make the above inductive.  Where a thread is tells *)
(* its state.                                                              *)
PcSound ==
    \A t \in Thread :
        /\ state[t] = "FREE" => pc[t] = "user"
        /\ state[t] = "ZOMBIE" <=> pc[t] \in {"exit", "leave"}
        /\ state[t] = "BLOCKED" =>
            pc[t] \in {"remove", "int"} \cup (IF OnCpu(t) THEN {} ELSE {"test"})

(* The thread on the CPU is on the run list, until scheduler_update starts *)
(* to clean it.                                                            *)
RunningListed == sweep = 0 /\ running \in Thread => OnList(running)

(* What scheduler_update has passed in the list is fit to be elected. *)
SweptPrefix ==
    \A i \in DOMAIN threads : i < sweep =>
        \/ state[threads[i]] = "RUNNING"
        \/ state[threads[i]] = "ZOMBIE" /\ running = threads[i]

(* A thread about to copy or to push a message has one. *)
HoldsMessage ==
    \A t \in Thread : pc[t] \in {"copy", "push"} => msg[t] # NULL

SchedInv ==
    /\ TypeOK /\ HoldsMessage /\ RunListSound /\ WaitersSound
    /\ PcSound /\ RunningListed /\ SweptPrefix /\ TimeSlice

(* Threads that will look at the input list of q again without being told. *)
AwakeReaders(q) ==
    {t \in Thread : /\ queue[t] = q
                    /\ state[t] = "RUNNING"
                    /\ pc[t] \in {"wait", "remove", "int", "test", "take"}}

Notifiers(q) == {t \in Thread : queue[t] = q /\ pc[t] = "notify"}

(* No lost wake-up: while somebody waits on q, each message in the list is *)
(* owed to a reader that is awake or to a writer about to notify.          *)
NoLostWakeup ==
    \A q \in Queue : wq[q] # <<>> =>
        Len(input[q]) <= Cardinality(AwakeReaders(q)) + Cardinality(Notifiers(q))

(* A message on a list has bytes left to read: its off, "the offset in the *)
(* data" (include/kernel/fs/channel.h), is inside the data.                *)
OffsetInData ==
    \A q \in Queue : \A i \in DOMAIN input[q] : input[q][i].off < input[q][i].size

(* Every message kmalloc handed out is on a list or held by one thread:    *)
(* none is leaked, none is freed twice.                                    *)
HeapAccounted ==
    heap + SumFunction([q \in Queue |-> Len(input[q])])
         + Cardinality({t \in Thread : msg[t] # NULL}) = HEAP

(* The kernel's queues implement the mailbox, its progress included: a     *)
(* reader wants a message from the call of channel_read_message to the     *)
(* step that takes one off the list.                                       *)
Mail == INSTANCE Mailbox WITH
    Client <- Thread, Box <- Queue, Letter <- Message, None <- NULL,
    box <- input, letter <- msg,
    waiting <- [q \in Queue |->
        {t \in Thread : /\ queue[t] = q
                        /\ state[t] # "FREE"
                        /\ pc[t] \in {"wait", "remove", "int", "test", "take"}}]

MailboxSpec == Mail!MailSpec
=============================================================================
