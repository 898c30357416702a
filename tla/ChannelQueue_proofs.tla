------------------------ MODULE ChannelQueue_proofs ------------------------
(***************************************************************************)
(* Proofs about ChannelQueue, for any number of threads and queues, any    *)
(* message and buffer sizes, any time slice.                               *)
(***************************************************************************)
EXTENDS ChannelQueue, SeqLemmas

TypeInv == TypeOK /\ HoldsMessage

(* Every variable keeps its type, and a thread has a message in hand where *)
(* the code uses one: channel_read_message after klist_del,                *)
(* channel_write_message after kmalloc.                                    *)
LEMMA TypeInit == Init => TypeInv
<1> SUFFICES ASSUME Init PROVE TypeInv
    OBVIOUS
<1> USE SchedulerAssumption, QueueAssumption, ChannelAssumption
<1>1. SchedulerTypeOK
  <2>1. state \in [Thread -> ThreadState]
      BY DEF Init, scheduler_initialize, ThreadState
  <2>2. threads \in Seq(Thread)
      BY DEF Init, scheduler_initialize
  <2>3. running = NULL /\ time = 0 /\ sweep = 0 /\ force = 0
      BY DEF Init, scheduler_initialize
  <2> QED BY <2>1, <2>2, <2>3 DEF SchedulerTypeOK
<1>2. TypeOK
    BY <1>1 DEF Init, TypeOK, wait_queue_init, ChannelPc, WaitPc
<1>3. HoldsMessage
    BY DEF Init, wait_queue_init, HoldsMessage
<1> QED BY <1>2, <1>3 DEF TypeInv

LEMMA TypeStep == TypeInv /\ [Next]_vars => TypeInv'
<1> SUFFICES ASSUME TypeInv, [Next]_vars PROVE TypeInv'
    OBVIOUS
<1> USE SchedulerAssumption, QueueAssumption, ChannelAssumption DEF TypeInv
<1>u. ASSUME NEW now \in 0 .. SIZE_MAX, NEW r \in BOOLEAN, NEW f \in {0, 1},
             scheduler_update(now, r, f)
      PROVE  time' \in 0 .. SIZE_MAX /\ sweep' \in Nat /\ force' \in {0, 1}
  <2>1. CASE now = 0
      BY <1>u, <2>1 DEF scheduler_update, TypeOK, SchedulerTypeOK
  <2>2. CASE now # 0
    <3>1. now - 1 \in 0 .. SIZE_MAX
        BY <2>2
    <3> QED BY <1>u, <2>2, <3>1 DEF scheduler_update, TypeOK, SchedulerTypeOK
  <2> QED BY <2>1, <2>2
<1>a. ASSUME NEW t \in Thread, scheduler_add_thread(t)
      PROVE  threads' \in Seq(Thread) /\ time' \in 0 .. SIZE_MAX
    BY <1>a DEF scheduler_add_thread, TypeOK, SchedulerTypeOK
<1>1. CASE UNCHANGED vars
    BY <1>1 DEF vars, schedVars, waitVars, chanVars, TypeOK, SchedulerTypeOK,
                HoldsMessage
<1>2. CASE Update
  <2> SUFFICES SchedulerTypeOK' /\ pc' \in [Thread -> ChannelPc]
               /\ UNCHANGED <<wq, chanVars>> /\ HoldsMessage'
      BY DEF TypeOK, chanVars
  <2>1. CASE scheduler_start /\ UNCHANGED <<waitVars, chanVars>>
      BY <2>1 DEF scheduler_start, waitVars, chanVars, TypeOK, SchedulerTypeOK,
                  HoldsMessage
  <2>2. CASE SweepKeep /\ UNCHANGED <<waitVars, chanVars>>
      BY <2>2 DEF SweepKeep, waitVars, chanVars, TypeOK, SchedulerTypeOK,
                  HoldsMessage
  <2>3. CASE SweepBlocked /\ UNCHANGED <<waitVars, chanVars>>
    <3>1. RemoveAt(threads, sweep) \in Seq(Thread)
        BY <2>3, RemoveAtFacts DEF SweepBlocked, SweepAt, TypeOK, SchedulerTypeOK
    <3> QED BY <2>3, <3>1 DEF SweepBlocked, waitVars, chanVars, TypeOK,
                              SchedulerTypeOK, HoldsMessage
  <2>4. CASE scheduler_elect /\ UNCHANGED <<waitVars, chanVars>>
    <3>0. threads \in Seq(Thread)
        BY DEF TypeOK, SchedulerTypeOK
    <3>h. threads # <<>> => Head(threads) \in Thread /\ Tail(threads) \in Seq(Thread)
        BY <3>0, TailFacts
    <3>1. threads' \in Seq(Thread)
      <4>1. CASE threads = <<>> BY <2>4, <3>0, <4>1 DEF scheduler_elect
      <4>2. CASE threads # <<>>
        <5>1. Append(Tail(threads), Head(threads)) \in Seq(Thread)
            BY <3>h, <4>2
        <5> QED BY <2>4, <4>2, <5>1 DEF scheduler_elect
      <4> QED BY <4>1, <4>2
    <3>2. running' \in Thread \cup {idle, NULL} /\ time' \in 0 .. SIZE_MAX
          /\ sweep' \in Nat /\ force' \in {0, 1}
      <4>1. \/ scheduler_switch(idle)
            \/ threads # <<>> /\ scheduler_switch(Head(threads))
            \/ UNCHANGED <<running, time, sweep, force>>
          BY <2>4 DEF scheduler_elect
      <4>2. ASSUME NEW u \in Thread \cup {idle}, scheduler_switch(u)
            PROVE  running' \in Thread \cup {idle, NULL} /\ time' \in 0 .. SIZE_MAX
                   /\ sweep' \in Nat /\ force' \in {0, 1}
          BY <4>2 DEF scheduler_switch
      <4>3. CASE UNCHANGED <<running, time, sweep, force>>
          BY <4>3 DEF TypeOK, SchedulerTypeOK
      <4> QED BY <3>h, <4>1, <4>2, <4>3
    <3> QED BY <2>4, <3>1, <3>2 DEF scheduler_elect, waitVars, chanVars, TypeOK,
                                    SchedulerTypeOK, HoldsMessage
  <2>5. ASSUME NEW t \in Thread, thread_destroy(t), UNCHANGED chanVars
        PROVE  SchedulerTypeOK' /\ pc' \in [Thread -> ChannelPc]
               /\ UNCHANGED <<wq, chanVars>> /\ HoldsMessage'
    <3>1. RemoveAt(threads, sweep) \in Seq(Thread)
        BY <2>5, RemoveAtFacts
        DEF thread_destroy, SweepZombie, SweepAt, TypeOK, SchedulerTypeOK
    <3> QED BY <2>5, <3>1 DEF thread_destroy, SweepZombie, Goto, chanVars, TypeOK,
            SchedulerTypeOK, ThreadState, HoldsMessage, ChannelPc, WaitPc
  <2> QED BY <1>2, <2>1, <2>2, <2>3, <2>4, <2>5 DEF Update
<1>3. CASE Timer
    BY <1>3, <1>u DEF Timer, Tick, waitVars, chanVars, TypeOK, SchedulerTypeOK,
                      HoldsMessage
<1>4. ASSUME NEW t \in Thread, InKernel(t) \/ Syscall(t) PROVE TypeInv'
  <2> USE DEF At, Goto, TypeOK, SchedulerTypeOK, HoldsMessage, ThreadState,
              ChannelPc, WaitPc, schedVars, chanVars
  <2>1. CASE read_call(t)
      BY <2>1, SMTT(30) DEF read_call
  <2>2. CASE read_wait(t)
    <3>1. CASE HasInput(t)
        BY <2>2, <3>1 DEF read_wait, wait_queue_wait
    <3>2. CASE ~HasInput(t)
      <4>1. queue[t] \in Queue /\ Append(wq[queue[t]], t) \in Seq(Thread)
          OBVIOUS
      <4>2. /\ state' = [state EXCEPT ![t] = "BLOCKED"]
            /\ wq' = [wq EXCEPT ![queue[t]] = Append(wq[queue[t]], t)]
            /\ pc' = [pc EXCEPT ![t] = "remove"]
            /\ UNCHANGED <<threads, running, time, sweep, force, chanVars>>
          BY <2>2, <3>2 DEF read_wait, wait_queue_wait
      <4> QED BY <4>1, <4>2
    <3> QED BY <3>1, <3>2
  <2>3. CASE read_remove(t)
      BY <2>3 DEF read_remove, wait_remove, scheduler_remove_thread
  <2>4. CASE read_int(t)
      BY <2>4, <1>u DEF read_int, wait_int
  <2>5. CASE read_test(t)
      BY <2>5 DEF read_test, wait_test
  <2>6. CASE read_take(t)
    <3>1. CASE HasInput(t)
      <4> DEFINE q == queue[t]
      <4>1. q \in Queue /\ input[q] \in Seq(Message) /\ input[q] # <<>>
          BY <3>1 DEF HasInput
      <4>2. Head(input[q]) \in Message /\ Tail(input[q]) \in Seq(Message)
          BY <4>1
      <4>3. input' \in [Queue -> Seq(Message)]
            /\ msg' \in [Thread -> Message \cup {NULL}] /\ msg'[t] # NULL
        <5>1. /\ msg' = [msg EXCEPT ![t] = Head(input[q])]
              /\ input' = [input EXCEPT ![q] = Tail(input[q])]
            BY <2>6, <3>1 DEF read_take
        <5> QED BY <4>1, <4>2, <5>1
      <4> QED BY <2>6, <3>1, <4>3 DEF read_take
    <3>2. CASE ~HasInput(t)
        BY <2>6, <3>2 DEF read_take
    <3> QED BY <3>1, <3>2
  <2>7. CASE read_copy(t)
    <3> DEFINE m == msg[t]
               n == [m EXCEPT !.off = m.size]
    <3>1. m \in Message
        BY <2>7 DEF read_copy
    <3>2. n \in Message
        BY <3>1 DEF Message
    <3>3. \A q \in Queue : <<n>> \o input[q] \in Seq(Message)
        BY <3>2
    <3> HIDE DEF n
    <3>4. input' \in [Queue -> Seq(Message)] /\ heap' \in Nat
      <4>1. \/ /\ input' = [input EXCEPT ![queue[t]] = <<n>> \o input[queue[t]]]
               /\ heap' = heap
            \/ input' = input /\ heap' = heap + 1
          BY <2>7 DEF read_copy, n
      <4>2. queue[t] \in Queue /\ <<n>> \o input[queue[t]] \in Seq(Message)
          BY <3>3
      <4> HIDE DEF m
      <4>3. CASE input' = input /\ heap' = heap + 1
          BY <4>3
      <4>4. CASE /\ input' = [input EXCEPT ![queue[t]] = <<n>> \o input[queue[t]]]
                 /\ heap' = heap
          BY <4>2, <4>4
      <4> QED BY <4>1, <4>3, <4>4
    <3> QED BY <2>7, <3>4 DEF read_copy
  <2>8. CASE write_call(t)
    <3>1. PICK q \in Queue, v \in Value, n \in MsgSize :
            /\ queue' = [queue EXCEPT ![t] = q]
            /\ msg' = [msg EXCEPT ![t] = [val |-> v, size |-> n, off |-> 0]]
        BY <2>8 DEF write_call
    <3>2. [val |-> v, size |-> n, off |-> 0] \in Message
        BY DEF Message
    <3>3. heap' \in Nat
        BY <2>8 DEF write_call
    <3> QED BY <2>8, <3>1, <3>2, <3>3 DEF write_call
  <2>9. CASE write_push(t)
    <3>1. msg[t] \in Message
        BY <2>9 DEF write_push
    <3>2. Append(input[queue[t]], msg[t]) \in Seq(Message)
        BY <3>1
    <3> QED BY <2>9, <3>2 DEF write_push
  <2>10. CASE write_notify(t)
    <3>1. CASE wq[queue[t]] = <<>>
        BY <2>10, <3>1 DEF write_notify, wait_queue_notify
    <3>2. CASE wq[queue[t]] # <<>>
      <4>1. Head(wq[queue[t]]) \in Thread /\ Tail(wq[queue[t]]) \in Seq(Thread)
          BY <3>2
      <4>2. threads' \in Seq(Thread) /\ time' \in 0 .. SIZE_MAX
          BY <2>10, <3>2, <4>1, <1>a DEF write_notify, wait_queue_notify
      <4>3. /\ state' = [state EXCEPT ![Head(wq[queue[t]])] = "RUNNING"]
            /\ wq' = [wq EXCEPT ![queue[t]] = Tail(wq[queue[t]])]
            /\ pc' = [pc EXCEPT ![t] = "user"]
            /\ UNCHANGED <<running, sweep, force, chanVars>>
          BY <2>10, <3>2 DEF write_notify, wait_queue_notify
      <4> QED BY <4>1, <4>2, <4>3
    <3> QED BY <3>1, <3>2
  <2>11. CASE sys_thread_create(t) /\ UNCHANGED chanVars
    <3>1. PICK u \in Thread :
            /\ state[u] = "FREE" /\ state' = [state EXCEPT ![u] = "RUNNING"]
            /\ scheduler_add_thread(u) /\ Goto(u, "user")
        BY <2>11 DEF sys_thread_create
    <3>2. threads' \in Seq(Thread) /\ time' \in 0 .. SIZE_MAX
        BY <3>1, <1>a
    <3> QED BY <2>11, <3>1, <3>2 DEF sys_thread_create
  <2>12. CASE thread_exit(t) /\ UNCHANGED chanVars
      BY <2>12 DEF thread_exit
  <2>13. CASE exit_time(t) /\ UNCHANGED chanVars
      BY <2>13 DEF exit_time
  <2>14. CASE exit_update(t) /\ UNCHANGED chanVars
      BY <2>14, <1>u DEF exit_update
  <2> QED BY <1>4, <2>1, <2>2, <2>3, <2>4, <2>5, <2>6, <2>7, <2>8, <2>9, <2>10,
             <2>11, <2>12, <2>13, <2>14 DEF InKernel, Syscall
<1> QED BY <1>1, <1>2, <1>3, <1>4 DEF Next

-----------------------------------------------------------------------------
Sound ==
    /\ RunListSound /\ WaitersSound
    /\ PcSound /\ RunningListed /\ SweptPrefix /\ TimeSlice

LEMMA SoundInit == Init => Sound
<1> SUFFICES ASSUME Init PROVE Sound
    OBVIOUS
<1>1. /\ state = [t \in Thread |-> IF t \in Range(boot) THEN "RUNNING" ELSE "FREE"]
      /\ threads = boot /\ running = NULL /\ sweep = 0
      /\ pc = [t \in Thread |-> "user"] /\ wq = [q \in Queue |-> <<>>]
    BY DEF Init, scheduler_initialize, wait_queue_init
<1>2. RunListSound
    BY <1>1, SchedulerAssumption DEF RunListSound, OnList
<1>3. WaitersSound
  <2>1. \A q \in Queue : Range(wq[q]) = {} /\ IsInjective(wq[q])
      BY <1>1 DEF Range, IsInjective
  <2> QED BY <1>1, <2>1 DEF WaitersSound, Waits
<1>4. PcSound
    BY <1>1 DEF PcSound
<1>5. RunningListed /\ TimeSlice
    BY <1>1, SchedulerAssumption DEF RunningListed, TimeSlice, Interruptible
<1>6. SweptPrefix
  <2>1. DOMAIN threads \subseteq Nat
      BY <1>1, SchedulerAssumption
  <2> QED BY <1>1, <2>1 DEF SweptPrefix
<1> QED BY <1>2, <1>3, <1>4, <1>5, <1>6 DEF Sound

(* The positions of the run list are positive numbers. *)
LEMMA PositionsAreNat == TypeInv => DOMAIN threads \subseteq Nat \ {0}
<1>1. TypeInv => threads \in Seq(Thread)
    BY DEF TypeInv, TypeOK, SchedulerTypeOK
<1> QED BY <1>1

(* The thread on the CPU is alive; outside the blocking and exit paths it  *)
(* is in state RUNNING.                                                    *)
LEMMA CpuState ==
    ASSUME TypeInv, Sound, NEW t \in Thread, OnCpu(t)
    PROVE  /\ OnList(t)
           /\ state[t] \in {"RUNNING", "BLOCKED", "ZOMBIE"}
           /\ pc[t] \notin {"remove", "int", "exit", "leave"} => state[t] = "RUNNING"
           /\ pc[t] \in {"remove", "int"} => state[t] \in {"RUNNING", "BLOCKED"}
           /\ pc[t] \in {"exit", "leave"} => state[t] = "ZOMBIE"
<1>1. sweep = 0 /\ running = t
    BY DEF OnCpu, Interruptible
<1>2. OnList(t)
    BY <1>1 DEF Sound, RunningListed
<1>3. state[t] \in ThreadState
    BY DEF TypeInv, TypeOK, SchedulerTypeOK
<1>4. state[t] # "FREE"
    BY <1>2 DEF Sound, RunListSound
<1>5. /\ state[t] = "ZOMBIE" <=> pc[t] \in {"exit", "leave"}
      /\ state[t] = "BLOCKED" => pc[t] \in {"remove", "int"}
    BY DEF Sound, PcSound
<1> QED BY <1>2, <1>3, <1>4, <1>5 DEF ThreadState

(* A step of a RUNNING thread that moves its program counter and its own   *)
(* locals, and touches neither the scheduler nor the wait queues.          *)
LEMMA QuietStep ==
    ASSUME TypeInv, Sound, NEW t \in Thread, OnCpu(t), state[t] = "RUNNING",
           NEW l \in ChannelPc \ {"exit", "leave"},
           UNCHANGED <<state, threads, running, time, sweep, wq>>,
           pc' = [pc EXCEPT ![t] = l],
           \A u \in Thread \ {t} : queue'[u] = queue[u]
    PROVE  Sound'
<1>1. RunListSound'
    BY DEF Sound, RunListSound, OnList
<1>2. WaitersSound'
    BY DEF Sound, WaitersSound, Waits
<1>3. PcSound'
    BY DEF Sound, PcSound, TypeInv, TypeOK, OnCpu, Interruptible
<1>4. RunningListed' /\ SweptPrefix' /\ TimeSlice'
    BY DEF Sound, RunningListed, SweptPrefix, TimeSlice, OnList, Interruptible
<1> QED BY <1>1, <1>2, <1>3, <1>4 DEF Sound

(* Entering scheduler_update: nothing but time, sweep and force changes,   *)
(* and interrupts stay on only if the running thread may go on.            *)
LEMMA EnterUpdate ==
    ASSUME TypeInv, Sound, NEW r \in BOOLEAN, NEW f \in {0, 1}, Interruptible,
           scheduler_update(time, r, f)
    PROVE  \/ sweep' = 1
           \/ /\ sweep' = 0 /\ time' \in 1 .. SCHEDULER_TIME
              /\ running = idle \/ state[running] = "RUNNING"
<1>1. time \in 1 .. SCHEDULER_TIME /\ sweep = 0
    BY DEF Sound, TimeSlice, Interruptible
<1>2. SCHEDULER_TIME \in Nat
    BY SchedulerAssumption
<1>3. time' = time - 1
    BY <1>1, <1>2 DEF scheduler_update
<1>4. CASE MustElect(time - 1, r, f)
    BY <1>1, <1>2, <1>3, <1>4 DEF scheduler_update
<1>5. CASE ~MustElect(time - 1, r, f)
  <2>1. sweep' = sweep
      BY <1>1, <1>2, <1>5 DEF scheduler_update
  <2>2. time - 1 # 0 /\ (running = idle \/ state[running] = "RUNNING")
      BY <1>5 DEF MustElect
  <2> QED BY <1>1, <1>2, <1>3, <2>1, <2>2
<1> QED BY <1>4, <1>5

(* The step into scheduler_update, from the timer, `int $0x20' or exit. *)
LEMMA UpdateStep ==
    ASSUME TypeInv, Sound, NEW r \in BOOLEAN, NEW f \in {0, 1}, Interruptible,
           scheduler_update(time, r, f),
           UNCHANGED <<state, threads, running, wq, queue>>,
           \/ pc' = pc
           \/ \E t \in Thread : /\ running = t /\ pc[t] = "int"
                                /\ pc' = [pc EXCEPT ![t] = "test"]
    PROVE  Sound'
<1>0. DOMAIN threads \subseteq Nat \ {0} /\ pc \in [Thread -> ChannelPc]
      /\ idle \notin Thread /\ sweep = 0
    BY PositionsAreNat, SchedulerAssumption
    DEF TypeInv, TypeOK, SchedulerTypeOK, Interruptible
<1>1. \/ sweep' = 1
      \/ /\ sweep' = 0 /\ time' \in 1 .. SCHEDULER_TIME
         /\ running = idle \/ state[running] = "RUNNING"
    BY EnterUpdate
<1>2. RunListSound'
    BY DEF Sound, RunListSound, OnList
<1>3. WaitersSound'
    BY DEF Sound, WaitersSound, Waits
<1>4. PcSound'
  <2> SUFFICES ASSUME NEW u \in Thread
               PROVE  /\ state[u] = "FREE" => pc'[u] = "user"
                      /\ state[u] = "ZOMBIE" <=> pc'[u] \in {"exit", "leave"}
                      /\ state[u] = "BLOCKED" =>
                          /\ pc'[u] \in {"remove", "int", "test"}
                          /\ sweep' = 0 /\ running = u => pc'[u] \in {"remove", "int"}
      BY DEF PcSound, OnCpu, Interruptible
  <2>1. /\ state[u] = "FREE" => pc[u] = "user"
        /\ state[u] = "ZOMBIE" <=> pc[u] \in {"exit", "leave"}
        /\ state[u] = "BLOCKED" =>
            /\ pc[u] \in {"remove", "int", "test"}
            /\ running = u => pc[u] \in {"remove", "int"}
      BY <1>0 DEF Sound, PcSound, OnCpu, Interruptible
  <2>2. pc'[u] = pc[u] \/ (pc[u] = "int" /\ pc'[u] = "test" /\ running = u)
      BY <1>0
  <2>3. sweep' = 0 /\ running = u => state[u] = "RUNNING"
      BY <1>0, <1>1
  <2> QED BY <2>1, <2>2, <2>3
<1>5. RunningListed'
    BY <1>0, <1>1 DEF Sound, RunningListed, OnList
<1>6. SweptPrefix'
    BY <1>0, <1>1 DEF SweptPrefix
<1>7. TimeSlice'
    BY <1>1 DEF TimeSlice, Interruptible
<1> QED BY <1>2, <1>3, <1>4, <1>5, <1>6, <1>7 DEF Sound

(* Waking u, which is blocked or has just been created, puts on the list a *)
(* thread that was not there.  This is where the single CPU matters: the   *)
(* thread that wakes u is the running one, so u is not, and only the       *)
(* running thread can be blocked and still on the list.                    *)
LEMMA WakeStep ==
    ASSUME TypeInv, Sound, NEW t \in Thread, NEW u \in Thread,
           OnCpu(t), state[t] = "RUNNING", pc[t] \notin {"exit", "leave"},
           state[u] \in {"BLOCKED", "FREE"},
           state' = [state EXCEPT ![u] = "RUNNING"],
           scheduler_add_thread(u),
           UNCHANGED <<running, sweep, queue>>,
           \E v \in {t, u} : pc' = [pc EXCEPT ![v] = "user"],
           WaitersSound'
    PROVE  Sound'
<1>0. /\ threads \in Seq(Thread) /\ DOMAIN threads' \subseteq Nat /\ sweep = 0
      /\ running = t /\ t # u /\ state \in [Thread -> ThreadState]
      /\ pc \in [Thread -> ChannelPc] /\ idle \notin Thread
    BY SchedulerAssumption
    DEF TypeInv, TypeOK, SchedulerTypeOK, OnCpu, Interruptible, scheduler_add_thread
<1>1. ~OnList(u) /\ OnList(t) /\ IsInjective(threads)
    BY <1>0, CpuState DEF Sound, RunListSound
<1>2. Range(threads') = Range(threads) \cup {u} /\ IsInjective(threads')
    BY <1>0, <1>1, AppendFacts DEF scheduler_add_thread, OnList
<1>3. RunListSound'
    BY <1>0, <1>2 DEF Sound, RunListSound, OnList
<1>4. PcSound'
    BY <1>0 DEF Sound, PcSound, OnCpu, Interruptible
<1>5. RunningListed'
    BY <1>0, <1>1, <1>2 DEF RunningListed, OnList
<1>6. SweptPrefix'
    BY <1>0 DEF SweptPrefix
<1>7. TimeSlice'
  <2>1. time' = time
      BY <1>0 DEF scheduler_add_thread
  <2> QED BY <2>1 DEF Sound, TimeSlice, Interruptible
<1> QED BY <1>3, <1>4, <1>5, <1>6, <1>7 DEF Sound

LEMMA SoundThread ==
    ASSUME TypeInv, Sound, NEW t \in Thread, InKernel(t) \/ Syscall(t)
    PROVE  Sound'
<1>0. /\ OnCpu(t) /\ Interruptible
      /\ sweep = 0 /\ running = t /\ t # idle
      /\ pc \in [Thread -> ChannelPc] /\ state \in [Thread -> ThreadState]
      /\ queue \in [Thread -> Queue] /\ wq \in [Queue -> Seq(Thread)]
  <2>1. OnCpu(t)
      BY DEF InKernel, Syscall, At, read_call, read_wait, wait_queue_wait,
             read_remove, wait_remove, read_int, wait_int, read_test, wait_test,
             read_take, read_copy, write_call, write_push, write_notify,
             sys_thread_create, thread_exit, exit_time, exit_update
  <2> QED BY <2>1, SchedulerAssumption
          DEF OnCpu, Interruptible, TypeInv, TypeOK, SchedulerTypeOK
<1>1. /\ OnList(t)
      /\ pc[t] \notin {"remove", "int", "exit", "leave"} => state[t] = "RUNNING"
      /\ pc[t] \in {"remove", "int"} => state[t] \in {"RUNNING", "BLOCKED"}
      /\ pc[t] \in {"exit", "leave"} => state[t] = "ZOMBIE"
    BY <1>0, CpuState
<1>2. CASE read_call(t)
  <2>1. /\ UNCHANGED schedVars /\ UNCHANGED wq /\ pc[t] = "user"
        /\ pc' = [pc EXCEPT ![t] = "wait"]
        /\ \A u \in Thread \ {t} : queue'[u] = queue[u]
      BY <1>0, <1>2 DEF read_call, At, Goto
  <2> QED BY <1>0, <1>1, <2>1, QuietStep DEF schedVars, ChannelPc, WaitPc
<1>3. CASE read_wait(t)
  <2>0. pc[t] = "wait" /\ state[t] = "RUNNING" /\ UNCHANGED chanVars
        /\ UNCHANGED <<threads, running, time, sweep>>
      BY <1>1, <1>3 DEF read_wait, wait_queue_wait, At
  <2>1. CASE HasInput(t)
    <3>1. UNCHANGED <<state, wq>> /\ pc' = [pc EXCEPT ![t] = "take"]
        BY <1>3, <2>1 DEF read_wait, wait_queue_wait, Goto
    <3> QED BY <1>0, <2>0, <3>1, QuietStep DEF chanVars, ChannelPc
  <2>2. CASE ~HasInput(t)
    <3> DEFINE q == queue[t]
    <3>1. /\ state' = [state EXCEPT ![t] = "BLOCKED"]
          /\ wq' = [wq EXCEPT ![q] = Append(wq[q], t)]
          /\ pc' = [pc EXCEPT ![t] = "remove"]
        BY <1>3, <2>2 DEF read_wait, wait_queue_wait, Goto
    <3>2. q \in Queue /\ wq[q] \in Seq(Thread) /\ queue' = queue
        BY <1>0, <2>0 DEF chanVars
    <3>3. \A p \in Queue : t \notin Range(wq[p]) /\ IsInjective(wq[p])
        BY <2>0 DEF Sound, WaitersSound, Waits
    <3>4. Range(Append(wq[q], t)) = Range(wq[q]) \cup {t}
          /\ IsInjective(Append(wq[q], t))
        BY <3>2, <3>3, AppendFacts
    <3>5. WaitersSound'
      <4>1. \A p \in Queue : wq'[p] = IF p = q THEN Append(wq[q], t) ELSE wq[p]
          BY <1>0, <3>1, <3>2
      <4>2. \A p \in Queue : IsInjective(wq'[p])
          BY <3>3, <3>4, <4>1
      <4>3. ASSUME NEW u \in Thread, NEW p \in Queue
            PROVE  u \in Range(wq'[p]) <=> state'[u] = "BLOCKED" /\ queue[u] = p
        <5>1. u \in Range(wq[p]) <=> state[u] = "BLOCKED" /\ queue[u] = p
            BY DEF Sound, WaitersSound, Waits
        <5> QED BY <1>0, <2>0, <3>1, <3>4, <4>1, <5>1
      <4> QED BY <3>2, <4>2, <4>3 DEF WaitersSound, Waits
    <3>6. RunListSound'
        BY <1>0, <1>1, <2>0, <3>1 DEF Sound, RunListSound, OnList
    <3>7. PcSound'
        BY <1>0, <2>0, <3>1 DEF Sound, PcSound, OnCpu, Interruptible
    <3>8. RunningListed' /\ TimeSlice'
        BY <2>0 DEF Sound, RunningListed, TimeSlice, OnList, Interruptible
    <3>9. SweptPrefix'
      <4>1. DOMAIN threads \subseteq Nat
          BY PositionsAreNat
      <4> QED BY <1>0, <2>0, <4>1, SMTT(30) DEF SweptPrefix
    <3> QED BY <3>5, <3>6, <3>7, <3>8, <3>9 DEF Sound
  <2> QED BY <2>1, <2>2
<1>4. CASE read_remove(t)
  <2>1. /\ UNCHANGED <<schedVars, wq, chanVars>> /\ pc[t] = "remove"
        /\ pc' = [pc EXCEPT ![t] = IF state[t] = "RUNNING" THEN "test" ELSE "int"]
      BY <1>4 DEF read_remove, wait_remove, At, Goto, scheduler_remove_thread
  <2>2. CASE state[t] = "RUNNING"
      BY <1>0, <2>1, <2>2, QuietStep DEF schedVars, chanVars, ChannelPc, WaitPc
  <2>3. CASE state[t] # "RUNNING"
    <3>1. state[t] = "BLOCKED" /\ pc' = [pc EXCEPT ![t] = "int"]
        BY <1>1, <2>1, <2>3
    <3>2. RunListSound' /\ RunningListed' /\ TimeSlice' /\ SweptPrefix'
        BY <2>1 DEF Sound, schedVars, RunListSound, RunningListed, TimeSlice,
                    SweptPrefix, OnList, Interruptible
    <3>3. WaitersSound'
        BY <2>1 DEF Sound, schedVars, chanVars, WaitersSound, Waits
    <3>4. PcSound'
        BY <1>0, <2>1, <3>1 DEF Sound, PcSound, schedVars, OnCpu, Interruptible
    <3> QED BY <3>2, <3>3, <3>4 DEF Sound
  <2> QED BY <2>2, <2>3
<1>5. CASE read_int(t)
    BY <1>0, <1>5, UpdateStep DEF read_int, wait_int, At, Goto, chanVars
<1>6. CASE read_test(t)
    BY <1>0, <1>1, <1>6, QuietStep
    DEF read_test, wait_test, At, Goto, schedVars, chanVars, ChannelPc, WaitPc
<1>7. CASE read_take(t)
  <2>1. \E l \in {"copy", "wait"} : pc' = [pc EXCEPT ![t] = l]
      BY <1>7 DEF read_take, Goto
  <2> QED BY <1>0, <1>1, <1>7, <2>1, QuietStep
          DEF read_take, At, schedVars, ChannelPc, WaitPc
<1>8. CASE read_copy(t)
    BY <1>0, <1>1, <1>8, QuietStep
    DEF read_copy, At, Goto, schedVars, ChannelPc, WaitPc
<1>9. CASE write_call(t)
  <2>1. \A u \in Thread \ {t} : queue'[u] = queue[u]
      BY <1>0, <1>9 DEF write_call
  <2> QED BY <1>0, <1>1, <1>9, <2>1, QuietStep
          DEF write_call, At, Goto, schedVars, ChannelPc
<1>10. CASE write_push(t)
    BY <1>0, <1>1, <1>10, QuietStep
    DEF write_push, At, Goto, schedVars, ChannelPc
<1>11. CASE write_notify(t)
  <2>0. /\ UNCHANGED <<running, sweep, force, chanVars>> /\ pc[t] = "notify"
        /\ pc' = [pc EXCEPT ![t] = "user"] /\ state[t] = "RUNNING"
      BY <1>1, <1>11 DEF write_notify, At, Goto
  <2> DEFINE q == queue[t]
             u == Head(wq[q])
  <2>1. CASE wq[q] = <<>>
    <3>1. UNCHANGED <<state, threads, time, wq>>
        BY <1>11, <2>1 DEF write_notify, wait_queue_notify
    <3> QED BY <1>0, <2>0, <3>1, QuietStep DEF chanVars, ChannelPc, WaitPc
  <2>2. CASE wq[q] # <<>>
    <3>1. /\ state' = [state EXCEPT ![u] = "RUNNING"]
          /\ scheduler_add_thread(u)
          /\ wq' = [wq EXCEPT ![q] = Tail(wq[q])]
        BY <1>11, <2>2 DEF write_notify, wait_queue_notify
    <3>2. q \in Queue /\ wq[q] \in Seq(Thread) /\ queue' = queue
        BY <1>0, <2>0 DEF chanVars
    <3>3. \A p \in Queue : IsInjective(wq[p])
        BY DEF Sound, WaitersSound
    <3>4. u \in Thread /\ u \in Range(wq[q]) /\ IsInjective(Tail(wq[q]))
          /\ Range(Tail(wq[q])) = Range(wq[q]) \ {u}
        BY <2>2, <3>2, <3>3, TailFacts
    <3>5. state[u] = "BLOCKED" /\ queue[u] = q
        BY <3>2, <3>4 DEF Sound, WaitersSound, Waits
    <3> HIDE DEF u
    <3>6. WaitersSound'
      <4>1. \A p \in Queue : wq'[p] = IF p = q THEN Tail(wq[q]) ELSE wq[p]
          BY <1>0, <3>1, <3>2
      <4>2. \A p \in Queue : IsInjective(wq'[p])
          BY <3>3, <3>4, <4>1
      <4>3. ASSUME NEW v \in Thread, NEW p \in Queue
            PROVE  v \in Range(wq'[p]) <=> state'[v] = "BLOCKED" /\ queue[v] = p
        <5>1. v \in Range(wq[p]) <=> state[v] = "BLOCKED" /\ queue[v] = p
            BY DEF Sound, WaitersSound, Waits
        <5> QED BY <1>0, <3>1, <3>4, <3>5, <4>1, <5>1
      <4> QED BY <3>2, <4>2, <4>3 DEF WaitersSound, Waits
    <3> QED BY <1>0, <2>0, <3>1, <3>2, <3>4, <3>5, <3>6, WakeStep DEF chanVars
  <2> QED BY <2>1, <2>2
<1>12. CASE sys_thread_create(t) /\ UNCHANGED chanVars
  <2>1. PICK u \in Thread :
          /\ state[u] = "FREE" /\ state' = [state EXCEPT ![u] = "RUNNING"]
          /\ scheduler_add_thread(u) /\ Goto(u, "user")
      BY <1>12 DEF sys_thread_create
  <2>2. /\ UNCHANGED <<running, sweep, queue, wq>> /\ pc[t] = "user"
        /\ state[t] = "RUNNING"
      BY <1>1, <1>12 DEF sys_thread_create, At, chanVars
  <2>3. WaitersSound'
      BY <1>0, <2>1, <2>2 DEF Sound, WaitersSound, Waits
  <2> QED BY <1>0, <2>1, <2>2, <2>3, WakeStep DEF Goto
<1>13. CASE thread_exit(t) /\ UNCHANGED chanVars
  <2>1. /\ state' = [state EXCEPT ![t] = "ZOMBIE"] /\ state[t] = "RUNNING"
        /\ pc' = [pc EXCEPT ![t] = "exit"] /\ pc[t] = "user"
        /\ UNCHANGED <<threads, running, time, sweep, wq, queue>>
      BY <1>1, <1>13 DEF thread_exit, At, Goto, chanVars
  <2>2. RunListSound'
      BY <1>0, <1>1, <2>1 DEF Sound, RunListSound, OnList
  <2>3. WaitersSound'
      BY <1>0, <2>1 DEF Sound, WaitersSound, Waits
  <2>4. PcSound'
      BY <1>0, <2>1 DEF Sound, PcSound, OnCpu, Interruptible
  <2>5. RunningListed' /\ TimeSlice'
      BY <2>1 DEF Sound, RunningListed, TimeSlice, OnList, Interruptible
  <2>6. SweptPrefix'
    <3>1. DOMAIN threads \subseteq Nat
        BY PositionsAreNat
    <3> QED BY <1>0, <2>1, <3>1 DEF SweptPrefix
  <2> QED BY <2>2, <2>3, <2>4, <2>5, <2>6 DEF Sound
<1>14. CASE exit_time(t) /\ UNCHANGED chanVars
  <2>1. /\ time' = 1 /\ pc' = [pc EXCEPT ![t] = "leave"] /\ pc[t] = "exit"
        /\ UNCHANGED <<state, threads, running, sweep, wq, queue>>
      BY <1>14 DEF exit_time, At, Goto, chanVars
  <2>2. RunListSound' /\ WaitersSound' /\ RunningListed' /\ SweptPrefix'
      BY <2>1 DEF Sound, RunListSound, WaitersSound, RunningListed, SweptPrefix,
                  OnList, Waits
  <2>3. PcSound'
      BY <1>0, <2>1 DEF Sound, PcSound, OnCpu, Interruptible
  <2>4. TimeSlice'
      BY <2>1, SchedulerAssumption DEF TimeSlice
  <2> QED BY <2>2, <2>3, <2>4 DEF Sound
<1>15. CASE exit_update(t) /\ UNCHANGED chanVars
    BY <1>0, <1>15, UpdateStep DEF exit_update, chanVars
<1> QED BY <1>2, <1>3, <1>4, <1>5, <1>6, <1>7, <1>8, <1>9, <1>10, <1>11, <1>12,
           <1>13, <1>14, <1>15 DEF InKernel, Syscall

LEMMA SoundUpdate ==
    ASSUME TypeInv, Sound, Update
    PROVE  Sound'
<1>0. /\ threads \in Seq(Thread) /\ Len(threads) \in Nat
      /\ DOMAIN threads = 1 .. Len(threads) /\ sweep \in Nat
      /\ pc \in [Thread -> ChannelPc] /\ state \in [Thread -> ThreadState]
      /\ IsInjective(threads) /\ idle \notin Thread /\ NULL \notin Thread
      /\ SCHEDULER_TIME \in Nat /\ SCHEDULER_TIME >= 1
    BY SchedulerAssumption DEF TypeInv, TypeOK, SchedulerTypeOK, Sound, RunListSound
<1>1. CASE scheduler_start /\ UNCHANGED <<waitVars, chanVars>>
  <2>1. /\ sweep' = 1 /\ running = NULL
        /\ UNCHANGED <<state, threads, running, pc, wq, queue>>
      BY <1>1 DEF scheduler_start, waitVars, chanVars
  <2>2. RunListSound' /\ WaitersSound'
      BY <2>1 DEF Sound, RunListSound, WaitersSound, OnList, Waits
  <2>3. PcSound' /\ RunningListed' /\ TimeSlice'
      BY <2>1, SMTT(30) DEF Sound, PcSound, RunningListed, TimeSlice, OnCpu, Interruptible
  <2>4. SweptPrefix'
      BY <1>0, <2>1 DEF SweptPrefix
  <2> QED BY <2>2, <2>3, <2>4 DEF Sound
<1>2. CASE SweepKeep /\ UNCHANGED <<waitVars, chanVars>>
  <2>1. /\ sweep \in DOMAIN threads /\ sweep' = sweep + 1
        /\ \/ state[threads[sweep]] = "RUNNING"
           \/ state[threads[sweep]] = "ZOMBIE" /\ running = threads[sweep]
        /\ UNCHANGED <<state, threads, running, pc, wq, queue>>
    <3>1. PICK t \in Thread :
            /\ SweepAt(t) /\ sweep' = sweep + 1
            /\ state[t] = "RUNNING" \/ (state[t] = "ZOMBIE" /\ running = t)
            /\ UNCHANGED <<state, threads, running, time, force>>
        BY <1>2 DEF SweepKeep
    <3>2. sweep \in DOMAIN threads /\ threads[sweep] = t
        BY <3>1 DEF SweepAt
    <3>3. UNCHANGED <<pc, wq, queue>>
        BY <1>2 DEF waitVars, chanVars
    <3>4. \/ state[threads[sweep]] = "RUNNING"
          \/ state[threads[sweep]] = "ZOMBIE" /\ running = threads[sweep]
        BY <3>1, <3>2, Zenon
    <3> QED BY <3>1, <3>2, <3>3, <3>4
  <2>2. RunListSound' /\ WaitersSound'
      BY <2>1 DEF Sound, RunListSound, WaitersSound, OnList, Waits
  <2>3. PcSound' /\ RunningListed' /\ TimeSlice'
      BY <1>0, <2>1, SMTT(30) DEF Sound, PcSound, RunningListed, TimeSlice, OnCpu, Interruptible
  <2>4. SweptPrefix'
    <3>1. ASSUME NEW i \in 1 .. Len(threads), i < sweep + 1
          PROVE  i < sweep \/ i = sweep
        BY <1>0, <3>1
    <3> QED BY <1>0, <2>1, <3>1 DEF Sound, SweptPrefix
  <2> QED BY <2>2, <2>3, <2>4 DEF Sound
<1>3. ASSUME NEW t \in Thread, SweepAt(t), threads' = RemoveAt(threads, sweep),
             UNCHANGED <<running, sweep, wq, queue>>,
             \/ state[t] = "BLOCKED" /\ UNCHANGED <<state, pc>>
             \/ /\ state[t] = "ZOMBIE" /\ running # t
                /\ state' = [state EXCEPT ![t] = "FREE"]
                /\ pc' = [pc EXCEPT ![t] = "user"]
      PROVE  Sound'
  <2>1. sweep \in DOMAIN threads /\ threads[sweep] = t /\ sweep \in 1 .. Len(threads)
      BY <1>0, <1>3 DEF SweepAt
  <2>2. /\ threads' \in Seq(Thread) /\ IsInjective(threads')
        /\ Range(threads') = Range(threads) \ {t}
        /\ DOMAIN threads' = 1 .. Len(threads) - 1
        /\ \A j \in 1 .. Len(threads) - 1 :
              threads'[j] = IF j < sweep THEN threads[j] ELSE threads[j + 1]
    <3>1. /\ RemoveAt(threads, sweep) \in Seq(Thread)
          /\ Len(RemoveAt(threads, sweep)) = Len(threads) - 1
          /\ \A j \in 1 .. Len(threads) - 1 : RemoveAt(threads, sweep)[j]
                = IF j < sweep THEN threads[j] ELSE threads[j + 1]
          /\ IsInjective(RemoveAt(threads, sweep))
          /\ Range(RemoveAt(threads, sweep)) = Range(threads) \ {threads[sweep]}
      <4> DEFINE s == threads
                 i == sweep
      <4>1. s \in Seq(Thread) /\ i \in DOMAIN s /\ IsInjective(s)
          BY <1>0, <2>1
      <4> HIDE DEF s, i
      <4>2. /\ RemoveAt(s, i) \in Seq(Thread) /\ Len(RemoveAt(s, i)) = Len(s) - 1
            /\ \A j \in 1 .. Len(s) - 1 :
                 RemoveAt(s, i)[j] = IF j < i THEN s[j] ELSE s[j + 1]
            /\ IsInjective(RemoveAt(s, i))
            /\ Range(RemoveAt(s, i)) = Range(s) \ {s[i]}
          BY <4>1, RemoveAtFacts
      <4> QED BY <4>2 DEF s, i
    <3> QED BY <1>0, <1>3, <2>1, <3>1
  <2>3. RunListSound'
      BY <1>0, <1>3, <2>2 DEF Sound, RunListSound, OnList
  <2>4. WaitersSound'
      BY <1>0, <1>3, SMTT(30) DEF Sound, WaitersSound, Waits
  <2>5. PcSound'
      BY <1>0, <1>3, <2>1 DEF Sound, PcSound, OnCpu, Interruptible
  <2>6. RunningListed' /\ TimeSlice'
      BY <1>0, <1>3, <2>1 DEF RunningListed, TimeSlice, Interruptible
  <2>7. SweptPrefix'
    <3> SUFFICES ASSUME NEW i \in 1 .. Len(threads) - 1, i < sweep
                 PROVE  \/ state'[threads[i]] = "RUNNING"
                        \/ state'[threads[i]] = "ZOMBIE" /\ running = threads[i]
        BY <1>3, <2>2 DEF SweptPrefix
    <3>1. i \in DOMAIN threads /\ i # sweep /\ threads[i] \in Thread
        BY <1>0, <2>1
    <3>2. threads[i] # t
        BY <1>0, <2>1, <3>1 DEF IsInjective
    <3>3. \/ state[threads[i]] = "RUNNING"
          \/ state[threads[i]] = "ZOMBIE" /\ running = threads[i]
        BY <3>1 DEF Sound, SweptPrefix
    <3> QED BY <1>0, <1>3, <3>1, <3>2, <3>3
  <2> QED BY <2>3, <2>4, <2>5, <2>6, <2>7 DEF Sound
<1>4. CASE SweepBlocked /\ UNCHANGED <<waitVars, chanVars>>
    BY <1>3, <1>4 DEF SweepBlocked, waitVars, chanVars
<1>5. ASSUME NEW t \in Thread, thread_destroy(t), UNCHANGED chanVars PROVE Sound'
    BY <1>3, <1>5 DEF thread_destroy, SweepZombie, Goto, chanVars
<1>6. CASE scheduler_elect /\ UNCHANGED <<waitVars, chanVars>>
  <2>1. sweep > Len(threads) /\ UNCHANGED <<state, pc, wq, queue>>
      BY <1>6 DEF scheduler_elect, waitVars, chanVars
  <2>2. ASSUME NEW t \in Range(threads)
        PROVE  /\ t \in Thread
               /\ state[t] = "RUNNING" \/ (state[t] = "ZOMBIE" /\ running = t)
    <3>1. PICK i \in DOMAIN threads : t = threads[i]
        BY DEF Range
    <3> QED BY <1>0, <2>1, <3>1 DEF Sound, SweptPrefix
  <2>3. /\ threads' \in Seq(Thread) /\ IsInjective(threads')
        /\ Range(threads') = Range(threads) /\ Len(threads') = Len(threads)
        /\ DOMAIN threads' \subseteq Nat \ {0}
    <3>1. CASE threads = <<>>
        BY <1>0, <1>6, <3>1 DEF scheduler_elect
    <3>2. CASE threads # <<>>
      <4>1. threads' = Append(Tail(threads), Head(threads))
          BY <1>6, <3>2 DEF scheduler_elect
      <4>2. /\ Append(Tail(threads), Head(threads)) \in Seq(Thread)
            /\ Len(Append(Tail(threads), Head(threads))) = Len(threads)
            /\ Range(Append(Tail(threads), Head(threads))) = Range(threads)
            /\ IsInjective(Append(Tail(threads), Head(threads)))
          BY <1>0, <3>2, RotateFacts
      <4>3. threads' \in Seq(Thread) => DOMAIN threads' \subseteq Nat \ {0}
          OBVIOUS
      <4> QED BY <4>1, <4>2, <4>3
    <3> QED BY <3>1, <3>2
  <2>4. \/ UNCHANGED <<running, time, sweep>>
        \/ /\ running' \in Range(threads) \cup {idle}
           /\ time' = SCHEDULER_TIME /\ sweep' = 0
    <3>1. threads # <<>> => Head(threads) \in Range(threads)
        BY <1>0, TailFacts
    <3> QED BY <1>6, <3>1 DEF scheduler_elect, scheduler_switch
  <2>5. RunListSound'
      BY <2>1, <2>2, <2>3 DEF Sound, RunListSound, OnList
  <2>6. WaitersSound'
      BY <2>1 DEF Sound, WaitersSound, Waits
  <2>7. PcSound'
    <3> SUFFICES ASSUME NEW t \in Thread
                 PROVE  OnCpu(t)' => state[t] # "BLOCKED"
        BY <1>0, <2>1 DEF Sound, PcSound, OnCpu, Interruptible
    <3> QED BY <1>0, <2>1, <2>2, <2>4 DEF OnCpu, Interruptible
  <2>8. RunningListed'
      BY <1>0, <2>1, <2>3, <2>4 DEF RunningListed, OnList
  <2>9. SweptPrefix'
    <3>1. CASE sweep' = 0
        BY <2>3, <3>1 DEF SweptPrefix
    <3>2. CASE sweep' # 0
      <4>1. running' = running
          BY <2>4, <3>2
      <4>2. \A i \in DOMAIN threads' : threads'[i] \in Range(threads)
          BY <2>3 DEF Range
      <4> QED BY <2>1, <2>2, <4>1, <4>2 DEF SweptPrefix
    <3> QED BY <3>1, <3>2
  <2>10. TimeSlice'
      BY <1>0, <2>1, <2>4 DEF TimeSlice, Interruptible
  <2> QED BY <2>5, <2>6, <2>7, <2>8, <2>9, <2>10 DEF Sound
<1> QED BY <1>1, <1>2, <1>4, <1>5, <1>6 DEF Update

LEMMA SoundStep == TypeInv /\ Sound /\ [Next]_vars => Sound'
<1> SUFFICES ASSUME TypeInv, Sound, [Next]_vars PROVE Sound'
    OBVIOUS
<1>1. CASE UNCHANGED vars
    BY <1>1 DEF vars, schedVars, waitVars, chanVars, Sound, RunListSound,
                WaitersSound, PcSound, RunningListed, SweptPrefix, TimeSlice,
                OnList, Waits, OnCpu, Interruptible
<1>2. CASE Update
    BY <1>2, SoundUpdate
<1>3. CASE Timer
    BY <1>3, UpdateStep DEF Timer, Tick, waitVars, chanVars
<1>4. ASSUME NEW t \in Thread, InKernel(t) \/ Syscall(t) PROVE Sound'
    BY <1>4, SoundThread
<1> QED BY <1>1, <1>2, <1>3, <1>4 DEF Next

-----------------------------------------------------------------------------
(* The inductive invariant holds: types, run list, wait queues, time slice *)
(* (scheduler.c, wait_queue.h, channel.c), whatever the interleaving.      *)
THEOREM SchedulerSound == Spec => []SchedInv
<1>1. Init => TypeInv /\ Sound
    BY TypeInit, SoundInit
<1>2. TypeInv /\ Sound /\ [Next]_vars => TypeInv' /\ Sound'
    BY TypeStep, SoundStep
<1>3. TypeInv /\ Sound => SchedInv
    BY DEF TypeInv, Sound, SchedInv
<1> QED BY <1>1, <1>2, <1>3, PTL DEF Spec

(* No thread is ever twice on the run list, none that can run is missing,  *)
(* and a blocked thread is on it only while it is running.                 *)
THEOREM RunListAlwaysSound == Spec => []RunListSound
<1>1. SchedInv => RunListSound
    BY DEF SchedInv
<1> QED BY <1>1, SchedulerSound, PTL

(* Blocked threads and wait queues always agree: a wait_queue_notify can   *)
(* reach every blocked thread and wakes none twice.                        *)
THEOREM WaitersAlwaysSound == Spec => []WaitersSound
<1>1. SchedInv => WaitersSound
    BY DEF SchedInv
<1> QED BY <1>1, SchedulerSound, PTL

(* The branches of scheduler_remove_thread for zombies and for threads     *)
(* that are not running are dead code for the callers modelled here.       *)
THEOREM RemovesItselfAlways == Spec => []RemovesItself
<1>1. ASSUME SchedInv PROVE RemovesItself
  <2>1. TypeInv /\ Sound
      BY <1>1 DEF SchedInv, TypeInv, Sound
  <2> SUFFICES ASSUME NEW t \in Thread, OnCpu(t)
               PROVE  /\ state[t] = "BLOCKED" => pc[t] \in {"remove", "int"}
                      /\ state[t] = "ZOMBIE" => pc[t] \in {"exit", "leave"}
                      /\ state[t] # "FREE"
      BY DEF RemovesItself
  <2> QED BY <2>1, CpuState
<1> QED BY <1>1, SchedulerSound, PTL
=============================================================================
