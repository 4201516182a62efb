----------------------------- MODULE ProcTable -----------------------------
(***************************************************************************)
(* Processes from creation to collection: the pid table and proc_wait of   *)
(* kern/proc/proc.c, fork, _exit and waitpid of kern/syscall, and the menu *)
(* thread that runs programs (kern/main/menu.c).                           *)
(*                                                                         *)
(* A user process has one thread.  A step is what a thread does between    *)
(* two places where another thread can see the difference: table updates   *)
(* under processTable.lk, P and V under the lock of the semaphore, and     *)
(* each access to a proc structure that others may free.                   *)
(***************************************************************************)
EXTENDS Wchan, FiniteSets

CONSTANTS
    MAX_PROC,
    Procs,      \* the proc structures there is memory for
    kproc,      \* the one of the kernel
    Threads,    \* the thread structures
    Menu,       \* the thread of the kernel that runs the menu
    NULL,
    ExitCodes,  \* what programs pass to _exit
    WaitPids(_),  \* the pids a program with these children passes to waitpid
    LoadFails,  \* a program given to the menu may fail to load
    SemFails    \* sem_create may run out of memory

VARIABLES
    table,   \* pid -> proc
    last_i,  \* the pid given out last
    proc,    \* proc -> its structure, or NULL when it is not allocated
    thr,     \* thread -> where it is and what it holds
    panic    \* "no", or why the kernel has stopped

vars == <<table, last_i, proc, thr, panic>>

Pids == 1..MAX_PROC

Semaphores == [count : Nat, wchan : Seq(Threads)]

Structures == [pid : Pids, status : Nat, numthreads : Nat, sem : Semaphores \cup {NULL},
               arg : Nat]

ASSUME ProcTableAssumption ==
    /\ MAX_PROC \in Nat \ {0, 1}
    /\ kproc \in Procs /\ Menu \in Threads
    /\ NULL \notin Procs \cup Threads \cup Semaphores \cup Structures
    /\ ExitCodes \subseteq Nat
    /\ LoadFails \in BOOLEAN /\ SemFails \in BOOLEAN

(* A thread: t_proc, the process it works on, the pids fork has returned   *)
(* to its program and the last status proc_wait has returned.              *)
NoThread == [pc |-> "none", proc |-> NULL, newp |-> NULL, kids |-> {}, got |-> 0]

Home(t) == IF t = Menu THEN "menu" ELSE "user"

At(t, places) == panic = "no" /\ thr[t].pc \in places

Goto(t, pc) == thr' = [thr EXCEPT ![t].pc = pc]

Panic(why) == panic' = why /\ UNCHANGED <<table, last_i, proc, thr>>

-----------------------------------------------------------------------------
(* proc_create *)

IsFree(i) == table[i] = NULL

\* The index n places after last_i, around the end of the table.
CircularIndex(n) == 1 + ((last_i + n - 1) % MAX_PROC)

\* (bug: a slot is taken whether it is free or not)
FreeIndices_blind == 1..(MAX_PROC - 1)

\* (bug: the search ends one slot too early)
FreeIndices_short == {n \in 1..(MAX_PROC - 2) : IsFree(CircularIndex(n))}

\* How far from last_i the free slots are; the search ends before last_i.
FreeIndices == {n \in 1..(MAX_PROC - 1) : IsFree(CircularIndex(n))}

FreeIndex == CircularIndex(CHOOSE n \in FreeIndices : \A m \in FreeIndices : n <= m)

NewProc(pid) == [pid |-> pid, status |-> 0, numthreads |-> 0, sem |-> NULL, arg |-> 0]

Init ==
    /\ table = [i \in Pids |-> IF i = 1 THEN kproc ELSE NULL]
    /\ last_i = 1
    /\ proc = [p \in Procs |-> IF p = kproc
                 THEN [NewProc(1) EXCEPT !.numthreads = 1, !.sem = sem_create(0)]
                 ELSE NULL]
    /\ thr = [t \in Threads |-> IF t = Menu
                 THEN [NoThread EXCEPT !.pc = "menu", !.proc = kproc]
                 ELSE NoThread]
    /\ panic = "no"

\* proc_create_runprogram up to the table: sys_fork and common_prog begin so.
proc_create(t) ==
    /\ At(t, {Home(t)})
    /\ \E p \in Procs :
        /\ proc[p] = NULL
        /\ IF FreeIndices = {} THEN Panic("proc table is full")
           ELSE /\ table' = [table EXCEPT ![FreeIndex] = p]
                /\ last_i' = FreeIndex
                /\ proc' = [proc EXCEPT ![p] = NewProc(FreeIndex)]
                /\ thr' = [thr EXCEPT ![t].pc = "sem_create", ![t].newp = p]
                /\ UNCHANGED panic

\* The result of sem_create is not looked at.
proc_init_waitpid(t) ==
    /\ At(t, {"sem_create"})
    /\ \E sem \in {sem_create(0)} \cup (IF SemFails THEN {NULL} ELSE {}) :
        proc' = [proc EXCEPT ![thr[t].newp].sem = sem]
    /\ Goto(t, IF t = Menu THEN "thread_fork" ELSE "as_copy")
    /\ UNCHANGED <<table, last_i, panic>>

-----------------------------------------------------------------------------
(* fork and the menu *)

\* as_copy and the copy of the trapframe; each can run out of memory.
CopyProcess(t) ==
    /\ At(t, {"as_copy"})
    /\ Goto(t, "thread_fork") \/ Goto(t, "proc_destroy")
    /\ UNCHANGED <<table, last_i, proc, panic>>

\* thread_fork: proc_addthread and the new thread, or no memory for one.
ForkThread(t) ==
    /\ At(t, {"thread_fork"})
    /\ \/ \E u \in Threads :
            /\ thr[u].pc = "none"
            /\ thr' = [thr EXCEPT ![u] = [NoThread EXCEPT
                                    !.pc = IF t = Menu THEN "runprogram" ELSE "user",
                                    !.proc = thr[t].newp],
                                  ![t].pc = IF t = Menu THEN "P" ELSE "fork_return"]
            /\ proc' = [proc EXCEPT ![thr[t].newp].numthreads = @ + 1]
       \/ Goto(t, "proc_destroy") /\ UNCHANGED proc
    /\ UNCHANGED <<table, last_i, panic>>

\* *retval = newp->p_pid, when the child may be running already.
fork_return(t) ==
    /\ At(t, {"fork_return"})
    /\ thr' = [thr EXCEPT ![t].pc = "user", ![t].newp = NULL,
                          ![t].kids = @ \cup {proc[thr[t].newp].pid}]
    /\ UNCHANGED <<table, last_i, proc, panic>>

\* cmd_progthread: runprogram enters user mode, or it fails and the thread
\* exits without a word to the menu.
cmd_progthread(u) ==
    /\ At(u, {"runprogram"})
    /\ \/ Goto(u, "user") /\ UNCHANGED proc
       \/ /\ LoadFails
          /\ proc' = [proc EXCEPT ![thr[u].proc].numthreads = @ - 1]
          /\ thr' = [thr EXCEPT ![u] = NoThread]
    /\ UNCHANGED <<table, last_i, panic>>

-----------------------------------------------------------------------------
(* _exit *)

\* (bug: the status is stored as it comes)
SetStatus_whole(p, status) == [p EXCEPT !.status = status, !.arg = status]

\* status & 0xff; arg is a history variable.
SetStatus(p, status) == [p EXCEPT !.status = status % 256, !.arg = status]

sys__exit(t) ==
    /\ t # Menu
    /\ At(t, {"user"})
    /\ \E status \in ExitCodes :
        proc' = [proc EXCEPT ![thr[t].proc] = SetStatus(@, status)]
    /\ Goto(t, "proc_remthread")
    /\ UNCHANGED <<table, last_i, panic>>

\* (bug: the waiter is woken before the thread has left the process)
proc_remthread_late(t) ==
    /\ At(t, {"proc_remthread"})
    /\ proc' = [proc EXCEPT ![thr[t].proc].sem = V(@)]
    /\ Goto(t, "thread_exit")
    /\ UNCHANGED <<table, last_i, panic>>

proc_remthread(t) ==
    /\ At(t, {"proc_remthread"})
    /\ proc' = [proc EXCEPT ![thr[t].proc].numthreads = @ - 1]
    /\ thr' = [thr EXCEPT ![t].pc = "proc_signal_end",
                          ![t].proc = NULL, ![t].newp = thr[t].proc]
    /\ UNCHANGED <<table, last_i, panic>>

\* (bug: the waiter is not woken)
proc_signal_end_silent(t) ==
    /\ At(t, {"proc_signal_end"})
    /\ thr' = [thr EXCEPT ![t] = [NoThread EXCEPT !.pc = "thread_exit"]]
    /\ UNCHANGED <<table, last_i, proc, panic>>

proc_signal_end(t) ==
    /\ At(t, {"proc_signal_end"})
    /\ IF proc[thr[t].newp].sem = NULL THEN Panic("sem != NULL")
       ELSE /\ proc' = [proc EXCEPT ![thr[t].newp].sem = V(@)]
            /\ thr' = [thr EXCEPT ![t] = [NoThread EXCEPT !.pc = "thread_exit"]]
            /\ UNCHANGED <<table, last_i, panic>>

thread_exit(t) ==
    /\ At(t, {"thread_exit"})
    /\ thr' = [thr EXCEPT ![t] = NoThread]
    /\ UNCHANGED <<table, last_i, proc, panic>>

-----------------------------------------------------------------------------
(* waitpid *)

\* proc_search_pid, without the lock of the table, and with an assertion that
\* follows the pointer before the caller can test it.
sys_waitpid(t) ==
    /\ t # Menu
    /\ At(t, {"user"})
    /\ \E pid \in WaitPids(thr[t].kids) :
        IF pid >= MAX_PROC THEN Panic("pid<MAX_PROC")
        ELSE IF table[pid] = NULL THEN Panic("p->p_pid==pid")
        ELSE IF table[pid] = kproc THEN Panic("proc != kproc")
        ELSE /\ thr' = [thr EXCEPT ![t].pc = "P", ![t].newp = table[pid],
                                   ![t].kids = @ \ {pid}]
             /\ UNCHANGED <<table, last_i, proc, panic>>

\* One pass of the loop of P(proc->p_sem).
WaitP(t) ==
    /\ At(t, {"P"})
    /\ LET p == thr[t].newp IN
        IF proc[p].sem = NULL THEN Panic("sem != NULL")
        ELSE /\ t \notin Sleepers(proc[p].sem.wchan)
             /\ proc' = [proc EXCEPT ![p].sem = P(@, t)]
             /\ Goto(t, IF P_sleeps(proc[p].sem) THEN "P" ELSE "p_status")
             /\ UNCHANGED <<table, last_i, panic>>

proc_wait_status(t) ==
    /\ At(t, {"p_status"})
    /\ thr' = [thr EXCEPT ![t].got = proc[thr[t].newp].status, ![t].pc = "proc_destroy"]
    /\ UNCHANGED <<table, last_i, proc, panic>>

\* proc_destroy up to proc_end_waitpid.
proc_destroy(t) ==
    /\ At(t, {"proc_destroy"})
    /\ IF proc[thr[t].newp].numthreads # 0 THEN Panic("proc->p_numthreads == 0")
       ELSE /\ table' = [table EXCEPT ![proc[thr[t].newp].pid] = NULL]
            /\ Goto(t, "sem_destroy")
            /\ UNCHANGED <<last_i, proc, panic>>

\* The rest of it: sem_destroy asserts that nobody sleeps, then kfree.
proc_free(t) ==
    /\ At(t, {"sem_destroy"})
    /\ LET p == thr[t].newp IN
        IF proc[p].sem = NULL THEN Panic("sem != NULL")
        ELSE IF ~wchan_isempty(proc[p].sem.wchan) THEN Panic("wchan_isempty")
        ELSE /\ proc' = [proc EXCEPT ![p] = NULL]
             /\ thr' = [thr EXCEPT ![t].pc = Home(t), ![t].newp = NULL, ![t].got = 0]
             /\ UNCHANGED <<table, last_i, panic>>

-----------------------------------------------------------------------------
\* The steps of the kernel, which end by themselves ...
KernelStep(t) ==
    \/ proc_init_waitpid(t) \/ CopyProcess(t) \/ ForkThread(t) \/ fork_return(t)
    \/ cmd_progthread(t)
    \/ proc_remthread(t) \/ proc_signal_end(t) \/ thread_exit(t)
    \/ WaitP(t) \/ proc_wait_status(t) \/ proc_destroy(t) \/ proc_free(t)

\* ... and what programs and the user at the menu decide to do.
Call(t) == proc_create(t) \/ sys__exit(t) \/ sys_waitpid(t)

Next == \E t \in Threads : KernelStep(t) \/ Call(t)

Spec == Init /\ [][Next]_vars

\* Every thread inside the kernel is scheduled again and again.
FairSpec == Spec /\ \A t \in Threads : WF_vars(KernelStep(t))

-----------------------------------------------------------------------------
(* Properties *)

Live == {p \in Procs : proc[p] # NULL}

\* The processes whose slot proc_end_waitpid has given back already.
Leaving == {thr[t].newp : t \in {u \in Threads : thr[u].pc = "sem_destroy"}}

\* A pid names one process, from its creation until it has been collected: it
\* is not given out again before, however often the table has been around.
PidNamesProcess ==
    \A p \in Live \ Leaving, i \in Pids : table[i] = p <=> proc[p].pid = i

\* proc_destroy "must have the only reference to this structure".
OnlyReference ==
    \A t, u \in Threads :
        thr[t].pc \in {"proc_destroy", "sem_destroy"} /\ u # t
            => thr[t].newp \notin {thr[u].proc, thr[u].newp}

\* proc_wait returns the low eight bits of what the process passed to _exit.
StatusDelivered ==
    \A t \in Threads :
        thr[t].pc \in {"proc_destroy", "sem_destroy"} /\ thr[t].got # 0
            => thr[t].got = proc[thr[t].newp].arg % 256

\* No assertion on the way fails and the table is never found full, as long as
\* there are fewer processes than slots.
NoPanic == panic = "no"

\* proc.h: proc_wait waits "for process termination, and return exit status".
\* Whoever waits for a process that has no thread left gets its answer.
WaitReturns ==
    \A t \in Threads :
        (thr[t].pc = "P" /\ proc[thr[t].newp].numthreads = 0) ~> (thr[t].pc # "P")

=============================================================================
