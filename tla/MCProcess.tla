------------------------------ MODULE MCProcess ------------------------------
(***************************************************************************)
(* Small instances of Process for TLC.                                     *)
(***************************************************************************)
EXTENDS Process

CONSTANTS t1, t2, t3, t4, p1, p2, p3, p4

Boot2 == <<t1, t2>>
BootProc2 == <<p1, p2>>

(* init forks and waits, its children exit. *)
InitWaits == [p \in Proc |-> IF p = p1 THEN {"fork", "waitpid"} ELSE {"exit"}]

(* Processes with several threads. *)
Threaded == [p \in Proc |->
    IF p = p1 THEN {} ELSE {"thread_create", "thread_exit", "exit", "execv"}]

Both == {InitWaits, Threaded}

(* Two processes fork. *)
AllFork == {[p \in Proc |-> {"fork"}]}

(* The children leave through sys_thread_exit. *)
ThreadExits == {[p \in Proc |->
    IF p = p1 THEN {"fork", "waitpid"} ELSE {"thread_exit"}]}

(* A second process creates a thread and exits, or calls execv. *)
TwoThreads == {[p \in Proc |-> IF p = p1 THEN {} ELSE {"thread_create", "exit"}]}
TwoThreadsExec == {[p \in Proc |-> IF p = p1 THEN {} ELSE {"thread_create", "execv"}]}
=============================================================================
