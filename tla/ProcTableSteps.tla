-------------------------- MODULE ProcTableSteps ---------------------------
(***************************************************************************)
(* The steps of ProcTable that end a process and collect it preserve the   *)
(* invariant of ProcTableInv.                                              *)
(***************************************************************************)
EXTENDS ProcTableInv

USE DEF Pids

\* cmd_progthread enters user mode, or leaves its process without a signal.
LEMMA CmdProgthreadStep ==
    ASSUME IInv, NEW t \in Threads, cmd_progthread(t)
    PROVE  IInv'
<1>1. thr[t].pc = "runprogram" /\ table' = table /\ last_i' = last_i
  BY DEF cmd_progthread, At
<1>2. thr[t].proc \in Procs /\ thr[t].got = 0 /\ Runs(t) = thr[t].proc
  BY <1>1, Records, NothingGot DEF IInv, Outside, Runs
<1>3. CASE Goto(t, "user") /\ UNCHANGED proc
  <2>1. /\ thr' \in [Threads -> ThreadRecords]
        /\ \A u \in Threads \ {t} : thr'[u] = thr[u]
        /\ thr'[t].pc = "user" /\ thr'[t].proc = thr[t].proc /\ thr'[t].newp = thr[t].newp
        /\ thr'[t].kids = thr[t].kids /\ thr'[t].got = thr[t].got
    BY <1>3, Moved DEF IInv, Places
  <2>2. \A u \in Threads : Runs(u)' = Runs(u) /\ (Holds(u)' <=> Holds(u))
    BY <1>1, <2>1 DEF Runs, Holds, Holding
  <2>a. TypeOK'
    BY <1>1, <1>3, <2>1 DEF IInv, TypeOK, Holds, Holding, Outside
  <2>b. /\ SlotsFilled' /\ Named' /\ Withdrawn' /\ KernelStays'
        /\ RunsInLive' /\ OneRunner'
        /\ HeldLive' /\ OneHolder' /\ KidsLive' /\ OneParent' /\ KidsUnheld' /\ NobodyRuns'
    <3>1. thr'[t].pc \notin Alone
      BY <2>1 DEF Alone, Holding
    <3>k. OwnersKept
      BY <1>1, <1>3, <2>1, <2>2, <3>1 DEF OwnersKept
    <3> QED
      BY <2>a, <3>k, NoNewOwners
  <2>c. ThreadCounted'
    BY <1>3, <2>1 DEF IInv, ThreadCounted
  <2>d. UnitAtEnd' /\ SleepersWait' /\ NoUnitYet' /\ SemThere'
    <3>k. SemsKept(t)
      BY <1>1, <1>3, <2>1, <2>2 DEF SemsKept
    <3> QED
      BY <2>a, <2>b, <3>k, SameSems
  <2>e. StatusKept' /\ GotStatus'
    <3>k. StatusesKept(t)
      BY <1>2, <1>3, <2>1 DEF StatusesKept
    <3> QED
      BY <2>b, <3>k, SameStatuses
  <2> QED
    BY <2>a, <2>b, <2>c, <2>d, <2>e DEF IInv
<1>4. CASE /\ proc' = [proc EXCEPT ![thr[t].proc].numthreads = @ - 1]
           /\ thr' = [thr EXCEPT ![t] = NoThread]
  <2> DEFINE p == thr[t].proc
  <2>1. proc[p] # NULL /\ proc[p].numthreads = 1
    BY <1>2, ProcTableAssumption DEF IInv, RunsInLive, ThreadCounted
  <2>2. /\ proc' \in [Procs -> Structures \cup {NULL}]
        /\ \A r \in Procs \ {p} : proc'[r] = proc[r]
        /\ proc'[p] # NULL
        /\ proc'[p].pid = proc[p].pid /\ proc'[p].status = proc[p].status
        /\ proc'[p].numthreads = 0 /\ proc'[p].arg = proc[p].arg
        /\ proc'[p].sem = proc[p].sem
    <3>1. StoresCount(p, 0)
      BY <1>2, <1>4, <2>1 DEF StoresCount, IInv, TypeOK
    <3> QED
      BY <1>2, <2>1, <3>1, CountStored DEF IInv
  <2>3. /\ thr' \in [Threads -> ThreadRecords]
        /\ \A u \in Threads \ {t} : thr'[u] = thr[u]
        /\ thr'[t].pc = "none" /\ thr'[t].proc = NULL /\ thr'[t].newp = NULL
        /\ thr'[t].kids = {} /\ thr'[t].got = 0
    BY <1>4 DEF IInv, TypeOK, ThreadRecords, NoThread, Places, Outside
  <2>4. /\ \A u \in Threads \ {t} : Runs(u)' = Runs(u) /\ (Holds(u)' <=> Holds(u))
        /\ Runs(t)' = NULL /\ ~Holds(t)'
    BY <2>3 DEF Runs, Holds, Holding
  <2>a. TypeOK'
    BY <1>1, <2>2, <2>3 DEF IInv, TypeOK, Holds, Holding, Outside
  <2>b. /\ SlotsFilled' /\ Named' /\ Withdrawn' /\ KernelStays'
        /\ RunsInLive' /\ OneRunner'
        /\ HeldLive' /\ OneHolder' /\ KidsLive' /\ OneParent' /\ KidsUnheld' /\ NobodyRuns'
    <3>1. thr'[t].pc \notin Alone
      BY <2>3 DEF Alone, Holding
    <3>k. OwnersKept
      BY <1>1, <2>1, <2>2, <2>3, <2>4, <3>1 DEF OwnersKept
    <3> QED
      BY <2>a, <3>k, NoNewOwners
  <2>c. ThreadCounted'
    <3>1. \A u \in Threads \ {t} : thr[u].proc # p
      BY <1>2, RunsInProc, ProcTableAssumption DEF IInv, OneRunner
    <3> QED
      BY <2>2, <2>3, <3>1, ProcTableAssumption DEF IInv, ThreadCounted
  <2>d. UnitAtEnd' /\ SleepersWait' /\ NoUnitYet' /\ SemThere'
    <3>k. SemsKept(t)
      BY <1>1, <2>1, <2>2, <2>3, <2>4 DEF SemsKept
    <3> QED
      BY <2>a, <2>b, <3>k, SameSems
  <2>e. StatusKept' /\ GotStatus'
    <3>k. StatusesKept(t)
      BY <2>1, <2>2, <2>3 DEF StatusesKept
    <3> QED
      BY <2>b, <3>k, SameStatuses
  <2> QED
    BY <2>a, <2>b, <2>c, <2>d, <2>e DEF IInv
<1> QED
  BY <1>3, <1>4 DEF cmd_progthread

\* _exit stores the status in the process of the caller.
LEMMA ExitStep ==
    ASSUME IInv, NEW t \in Threads, sys__exit(t)
    PROVE  IInv'
<1> DEFINE p == thr[t].proc
<1>1. thr[t].pc = "user" /\ table' = table /\ last_i' = last_i /\ Goto(t, "proc_remthread")
  BY DEF sys__exit, At
<1>2. p \in Procs /\ thr[t].got = 0 /\ Runs(t) = p /\ proc[p] # NULL
  BY <1>1, Records, NothingGot, ProcTableAssumption DEF IInv, Outside, Runs, RunsInLive
<1>3. PICK status \in ExitCodes : proc' = [proc EXCEPT ![p] = SetStatus(@, status)]
  BY DEF sys__exit
<1>4. /\ proc' \in [Procs -> Structures \cup {NULL}]
      /\ \A r \in Procs \ {p} : proc'[r] = proc[r]
      /\ proc'[p] # NULL
      /\ proc'[p].pid = proc[p].pid /\ proc'[p].numthreads = proc[p].numthreads
      /\ proc'[p].sem = proc[p].sem
      /\ proc'[p].status = proc'[p].arg % 256
  <2>1. proc[p] \in Structures /\ status \in Nat /\ status % 256 \in Nat
    BY <1>2, Records, ProcTableAssumption DEF IInv
  <2>2. /\ SetStatus(proc[p], status) \in Structures
        /\ SetStatus(proc[p], status).pid = proc[p].pid
        /\ SetStatus(proc[p], status).numthreads = proc[p].numthreads
        /\ SetStatus(proc[p], status).sem = proc[p].sem
        /\ SetStatus(proc[p], status).status = status % 256
        /\ SetStatus(proc[p], status).arg = status
    <3> DEFINE c == status % 256
               x == [proc[p] EXCEPT !.status = c, !.arg = status]
    <3>1. SetStatus(proc[p], status) = x
      BY DEF SetStatus
    <3>2. c \in Nat
      BY <2>1
    <3> HIDE DEF c
    <3>3. x \in Structures
      BY <2>1, <3>2 DEF Structures
    <3>4. /\ x.pid = proc[p].pid /\ x.numthreads = proc[p].numthreads /\ x.sem = proc[p].sem
          /\ x.status = c /\ x.arg = status
      BY <2>1, <3>2 DEF Structures
    <3> QED
      BY <3>1, <3>3, <3>4 DEF c
  <2>3. /\ proc' \in [Procs -> Structures \cup {NULL}]
        /\ \A r \in Procs \ {p} : proc'[r] = proc[r]
        /\ proc'[p] = SetStatus(proc[p], status)
    BY <1>2, <1>3, <2>2 DEF IInv, TypeOK
  <2> QED
    BY <2>2, <2>3, ProcTableAssumption
<1>5. /\ thr' \in [Threads -> ThreadRecords]
      /\ \A u \in Threads \ {t} : thr'[u] = thr[u]
      /\ thr'[t].pc = "proc_remthread" /\ thr'[t].proc = p /\ thr'[t].newp = thr[t].newp
      /\ thr'[t].kids = thr[t].kids /\ thr'[t].got = 0
  BY <1>1, <1>2, Moved DEF IInv, Places
<1>6. \A u \in Threads : Runs(u)' = Runs(u) /\ (Holds(u)' <=> Holds(u))
  BY <1>1, <1>5 DEF Runs, Holds, Holding
<1>a. TypeOK'
  BY <1>1, <1>4, <1>5 DEF IInv, TypeOK, Holds, Holding, Outside
<1>b. /\ SlotsFilled' /\ Named' /\ Withdrawn' /\ KernelStays'
      /\ RunsInLive' /\ OneRunner'
      /\ HeldLive' /\ OneHolder' /\ KidsLive' /\ OneParent' /\ KidsUnheld' /\ NobodyRuns'
  <2>1. thr'[t].pc \notin Alone
    BY <1>5 DEF Alone, Holding
  <2>k. OwnersKept
    BY <1>1, <1>2, <1>4, <1>5, <1>6, <2>1 DEF OwnersKept
  <2> QED
    BY <1>a, <2>k, NoNewOwners
<1>c. ThreadCounted'
  BY <1>2, <1>4, <1>5 DEF IInv, ThreadCounted
<1>d. UnitAtEnd' /\ SleepersWait' /\ NoUnitYet' /\ SemThere'
  <2>k. SemsKept(t)
    BY <1>1, <1>2, <1>4, <1>5, <1>6 DEF SemsKept
  <2> QED
    BY <1>a, <1>b, <2>k, SameSems
<1>e. StatusKept'
  BY <1>4 DEF IInv, StatusKept
<1>f. GotStatus'
  <2> SUFFICES ASSUME NEW u \in Threads, thr'[u].got # 0
               PROVE  /\ thr'[u].pc \in {"proc_destroy", "sem_destroy"}
                      /\ thr'[u].got = proc'[thr'[u].newp].status
    BY DEF GotStatus
  <2>1. thr'[u] = thr[u]
    BY <1>5
  <2>2. thr[u].pc \in {"proc_destroy", "sem_destroy"} /\ thr[u].got = proc[thr[u].newp].status
    BY <2>1 DEF IInv, GotStatus
  <2>3. thr[u].newp \in Procs /\ thr[u].newp # p
    BY <1>2, <2>2, Records DEF IInv, NobodyRuns, Holds, Holding, Alone
  <2> QED
    BY <1>4, <2>1, <2>2, <2>3
<1> QED
  BY <1>a, <1>b, <1>c, <1>d, <1>e, <1>f DEF IInv

\* proc_remthread: the thread still has to signal the end of its process.
LEMMA RemthreadStep ==
    ASSUME IInv, NEW t \in Threads, proc_remthread(t)
    PROVE  IInv'
<1> DEFINE p == thr[t].proc
<1>1. thr[t].pc = "proc_remthread" /\ table' = table /\ last_i' = last_i
  BY DEF proc_remthread, At
<1>2. p \in Procs /\ thr[t].got = 0 /\ Runs(t) = p
  BY <1>1, Records, NothingGot DEF IInv, Outside, Runs
<1>3. proc[p] # NULL /\ proc[p].numthreads = 1
  BY <1>2, ProcTableAssumption DEF IInv, RunsInLive, ThreadCounted
<1>4. /\ proc' \in [Procs -> Structures \cup {NULL}]
      /\ \A r \in Procs \ {p} : proc'[r] = proc[r]
      /\ proc'[p] # NULL
      /\ proc'[p].pid = proc[p].pid /\ proc'[p].status = proc[p].status
      /\ proc'[p].numthreads = 0 /\ proc'[p].arg = proc[p].arg
      /\ proc'[p].sem = proc[p].sem
  <2>1. StoresCount(p, 0)
    BY <1>2, <1>3 DEF StoresCount, proc_remthread, IInv, TypeOK
  <2> QED
    BY <1>2, <1>3, <2>1, CountStored DEF IInv
<1>5. /\ thr' \in [Threads -> ThreadRecords]
      /\ \A u \in Threads \ {t} : thr'[u] = thr[u]
      /\ thr'[t].pc = "proc_signal_end" /\ thr'[t].proc = NULL /\ thr'[t].newp = p
      /\ thr'[t].kids = thr[t].kids /\ thr'[t].got = 0
  <2>1. thr' = [thr EXCEPT ![t].pc = "proc_signal_end", ![t].proc = NULL, ![t].newp = p]
    BY DEF proc_remthread
  <2>2. thr \in [Threads -> ThreadRecords] /\ "proc_signal_end" \in Places
    BY DEF IInv, TypeOK, Places, Outside
  <2> HIDE DEF p
  <2> QED
    BY <1>2, <2>1, <2>2 DEF ThreadRecords
<1>6. \A u \in Threads : Runs(u)' = Runs(u) /\ (Holds(u)' <=> Holds(u))
  BY <1>1, <1>5 DEF Runs, Holds, Holding
<1>a. TypeOK'
  BY <1>1, <1>2, <1>4, <1>5, ProcTableAssumption DEF IInv, TypeOK, Holds, Holding, Outside
<1>b. /\ SlotsFilled' /\ Named' /\ Withdrawn' /\ KernelStays'
      /\ RunsInLive' /\ OneRunner'
      /\ HeldLive' /\ OneHolder' /\ KidsLive' /\ OneParent' /\ KidsUnheld' /\ NobodyRuns'
  <2>1. thr'[t].pc \notin Alone /\ ~Holds(t)
    BY <1>1, <1>5 DEF Alone, Holding, Holds
  <2>k. OwnersKept
    BY <1>1, <1>3, <1>4, <1>5, <1>6, <2>1 DEF OwnersKept
  <2> QED
    BY <1>a, <2>k, NoNewOwners
<1>c. ThreadCounted'
  <2>1. \A u \in Threads \ {t} : thr[u].proc # p
    BY <1>2, RunsInProc, ProcTableAssumption DEF IInv, OneRunner
  <2> QED
    BY <1>4, <1>5, <2>1, ProcTableAssumption DEF IInv, ThreadCounted
<1>d. UnitAtEnd' /\ SleepersWait' /\ NoUnitYet' /\ SemThere'
  <2>k. SemsKept(t)
    BY <1>1, <1>3, <1>4, <1>5, <1>6 DEF SemsKept
  <2> QED
    BY <1>a, <1>b, <2>k, SameSems
<1>e. StatusKept' /\ GotStatus'
  <2>k. StatusesKept(t)
    BY <1>3, <1>4, <1>5 DEF StatusesKept
  <2> QED
    BY <1>b, <2>k, SameStatuses
<1> QED
  BY <1>a, <1>b, <1>c, <1>d, <1>e DEF IInv

\* proc_signal_end puts the unit on the semaphore as the last thing that is
\* done for the process.
LEMMA SignalEndStep ==
    ASSUME IInv, NEW t \in Threads, proc_signal_end(t)
    PROVE  IInv'
<1> DEFINE p == thr[t].newp
<1>1. CASE proc[p].sem = NULL
  BY <1>1, PanicStep DEF proc_signal_end, Panic
<1>2. CASE proc[p].sem # NULL
  <2> DEFINE s == V(proc[p].sem)
  <2>1. thr[t].pc = "proc_signal_end" /\ table' = table /\ last_i' = last_i
    BY <1>2 DEF proc_signal_end, At
  <2>2. p \in Procs /\ Runs(t) = p /\ proc[p] # NULL
    BY <2>1, ProcTableAssumption DEF IInv, TypeOK, ThreadRecords, Runs, RunsInLive
  <2>3. /\ s \in Semaphores /\ Sleepers(s.wchan) \subseteq Sleepers(proc[p].sem.wchan)
        /\ Sleepers(proc[p].sem.wchan) \subseteq Threads
    <3>1. proc[p].sem \in Semaphores
      BY <1>2, <2>2, Records DEF IInv, Structures
    <3>2. proc[p].sem.count \in Nat /\ proc[p].sem.wchan \in Seq(Threads)
      BY <3>1 DEF Semaphores
    <3>3. s.wchan = wchan_wakeone(proc[p].sem.wchan)
      BY DEF V
    <3>4. /\ wchan_wakeone(proc[p].sem.wchan) \in Seq(Threads)
          /\ Sleepers(wchan_wakeone(proc[p].sem.wchan)) \subseteq Sleepers(proc[p].sem.wchan)
          /\ Sleepers(proc[p].sem.wchan) \subseteq Threads
      BY <3>2, SleepersAfter
    <3>5. s \in Semaphores
      BY <3>2, <3>4 DEF V, Semaphores
    <3> QED
      BY <3>2, <3>3, <3>4, <3>5
  <2>4. /\ proc' \in [Procs -> Structures \cup {NULL}]
        /\ \A r \in Procs \ {p} : proc'[r] = proc[r]
        /\ proc'[p] # NULL
        /\ proc'[p].pid = proc[p].pid /\ proc'[p].status = proc[p].status
        /\ proc'[p].numthreads = proc[p].numthreads /\ proc'[p].arg = proc[p].arg
        /\ proc'[p].sem = s
    <3>1. StoresSem(p, s)
      BY <1>2, <2>2 DEF StoresSem, proc_signal_end, IInv, TypeOK
    <3> HIDE DEF s
    <3> QED
      BY <2>2, <2>3, <3>1, SemStored DEF IInv
  <2> HIDE DEF s
  <2>5. /\ thr' \in [Threads -> ThreadRecords]
        /\ \A u \in Threads \ {t} : thr'[u] = thr[u]
        /\ thr'[t].pc = "thread_exit" /\ thr'[t].proc = NULL /\ thr'[t].newp = NULL
        /\ thr'[t].kids = {} /\ thr'[t].got = 0
    <3> DEFINE x == [NoThread EXCEPT !.pc = "thread_exit"]
    <3>1. thr' = [thr EXCEPT ![t] = x]
      BY <1>2 DEF proc_signal_end
    <3>2. /\ x \in ThreadRecords /\ x.pc = "thread_exit" /\ x.proc = NULL /\ x.newp = NULL
          /\ x.kids = {} /\ x.got = 0
      BY DEF NoThread, ThreadRecords, Places, Outside
    <3>3. thr \in [Threads -> ThreadRecords]
      BY DEF IInv, TypeOK
    <3> HIDE DEF x
    <3> QED
      BY <3>1, <3>2, <3>3
  <2>6. /\ \A u \in Threads \ {t} : Runs(u)' = Runs(u) /\ (Holds(u)' <=> Holds(u))
        /\ Runs(t)' = NULL /\ ~Holds(t)' /\ ~Holds(t)
    BY <2>1, <2>5 DEF Runs, Holds, Holding
  <2>7. \A u \in Threads : Runs(u)' # p
    BY <2>2, <2>6, ProcTableAssumption DEF IInv, OneRunner
  <2>a. TypeOK'
    BY <2>1, <2>4, <2>5 DEF IInv, TypeOK, Holds, Holding, Outside
  <2>b. /\ SlotsFilled' /\ Named' /\ Withdrawn' /\ KernelStays'
        /\ RunsInLive' /\ OneRunner'
        /\ HeldLive' /\ OneHolder' /\ KidsLive' /\ OneParent' /\ KidsUnheld' /\ NobodyRuns'
    <3>1. thr'[t].pc \notin Alone
      BY <2>5 DEF Alone, Holding
    <3>k. OwnersKept
      BY <2>1, <2>2, <2>4, <2>5, <2>6, <3>1 DEF OwnersKept
    <3> QED
      BY <2>a, <3>k, NoNewOwners
  <2>c. ThreadCounted'
    <3>1. \A u \in Threads : thr'[u].proc = thr[u].proc
      BY <2>1, <2>5 DEF IInv, TypeOK, Outside
    <3> QED
      BY <2>2, <2>4, <3>1 DEF IInv, ThreadCounted
  <2>d. UnitAtEnd' /\ SleepersWait' /\ NoUnitYet' /\ SemThere'
    <3>1. \A u \in Sleepers(s.wchan) : thr'[u].pc = "P" /\ thr'[u].newp = p
      <4>1. \A u \in Sleepers(s.wchan) : u \in Threads
        BY <2>3
      <4>2. \A u \in Sleepers(s.wchan) : thr[u].pc = "P" /\ thr[u].newp = p
        BY <1>2, <2>2, <2>3 DEF IInv, SleepersWait
      <4> QED
        BY <2>1, <2>5, <4>1, <4>2
    <3>2. \A u \in Threads : thr'[u].pc \in {"as_copy", "thread_fork"} => thr'[u].newp # p
      BY <2>1, <2>2, <2>5 DEF IInv, NobodyRuns, Alone, Holding
    <3>3. s # NULL
      BY <2>3, ProcTableAssumption
    <3>k. SemStep(t, p)
      BY <2>2, <2>4, <2>5, <2>6, <2>7, <3>1, <3>2, <3>3 DEF SemStep
    <3> QED
      BY <2>2, <2>a, <2>b, <3>k, OneSem
  <2>e. StatusKept' /\ GotStatus'
    <3>k. StatusesKept(t)
      BY <2>2, <2>4, <2>5 DEF StatusesKept
    <3> QED
      BY <2>b, <3>k, SameStatuses
  <2> QED
    BY <2>a, <2>b, <2>c, <2>d, <2>e DEF IInv
<1> QED
  BY <1>1, <1>2

\* thread_exit gives the thread back.
LEMMA ThreadExitStep ==
    ASSUME IInv, NEW t \in Threads, thread_exit(t)
    PROVE  IInv'
<1>1. thr[t].pc = "thread_exit" /\ table' = table /\ last_i' = last_i /\ proc' = proc
  BY DEF thread_exit, At
<1>2. /\ thr' \in [Threads -> ThreadRecords]
      /\ \A u \in Threads \ {t} : thr'[u] = thr[u]
      /\ thr'[t].pc = "none" /\ thr'[t].proc = NULL /\ thr'[t].newp = NULL
      /\ thr'[t].kids = {} /\ thr'[t].got = 0
  BY DEF thread_exit, IInv, TypeOK, ThreadRecords, NoThread, Places, Outside
<1>3. /\ \A u \in Threads \ {t} : Runs(u)' = Runs(u) /\ (Holds(u)' <=> Holds(u))
      /\ Runs(t)' = NULL /\ ~Holds(t)'
  BY <1>2 DEF Runs, Holds, Holding
<1>a. TypeOK'
  BY <1>1, <1>2 DEF IInv, TypeOK, Holds, Holding, Outside
<1>b. /\ SlotsFilled' /\ Named' /\ Withdrawn' /\ KernelStays'
      /\ RunsInLive' /\ OneRunner'
      /\ HeldLive' /\ OneHolder' /\ KidsLive' /\ OneParent' /\ KidsUnheld' /\ NobodyRuns'
  <2>1. thr'[t].pc \notin Alone
    BY <1>2 DEF Alone, Holding
  <2>k. OwnersKept
    BY <1>1, <1>2, <1>3, <2>1 DEF OwnersKept
  <2> QED
    BY <1>a, <2>k, NoNewOwners
<1>c. ThreadCounted'
  <2>1. \A u \in Threads : thr'[u].proc = thr[u].proc
    BY <1>1, <1>2 DEF IInv, TypeOK, Outside
  <2> QED
    BY <1>1, <2>1 DEF IInv, ThreadCounted
<1>d. UnitAtEnd' /\ SleepersWait' /\ NoUnitYet' /\ SemThere'
  <2>k. SemsKept(t)
    BY <1>1, <1>2, <1>3 DEF SemsKept
  <2> QED
    BY <1>a, <1>b, <2>k, SameSems
<1>e. StatusKept' /\ GotStatus'
  <2>k. StatusesKept(t)
    BY <1>1, <1>2 DEF StatusesKept
  <2> QED
    BY <1>b, <2>k, SameStatuses
<1> QED
  BY <1>a, <1>b, <1>c, <1>d, <1>e DEF IInv

\* sys_waitpid takes the pid away from the program and holds the child.
LEMMA WaitpidStep ==
    ASSUME IInv, OwnChildren, NEW t \in Threads, sys_waitpid(t)
    PROVE  IInv'
<1>1. thr[t].pc = "user"
  BY DEF sys_waitpid, At
<1>2. PICK i \in WaitPids(thr[t].kids) :
        IF i >= MAX_PROC THEN Panic("pid<MAX_PROC")
        ELSE IF table[i] = NULL THEN Panic("p->p_pid==pid")
        ELSE IF table[i] = kproc THEN Panic("proc != kproc")
        ELSE /\ thr' = [thr EXCEPT ![t].pc = "P", ![t].newp = table[i], ![t].kids = @ \ {i}]
             /\ UNCHANGED <<table, last_i, proc, panic>>
  BY DEF sys_waitpid
<1>3. i \in thr[t].kids /\ i \in Pids
  <2>1. thr[t].kids \in SUBSET Pids
    BY Records DEF IInv, ThreadRecords
  <2> QED
    BY <2>1 DEF OwnChildren
<1>4. CASE i >= MAX_PROC \/ table[i] \in {NULL, kproc}
  BY <1>2, <1>4, PanicStep DEF Panic
<1>5. CASE i < MAX_PROC /\ table[i] \notin {NULL, kproc}
  <2> DEFINE p == table[i]
  <2>0. ~(i >= MAX_PROC)
    BY <1>3, <1>5, ProcTableAssumption
  <2>1. /\ thr' = [thr EXCEPT ![t].pc = "P", ![t].newp = p, ![t].kids = @ \ {i}]
        /\ table' = table /\ last_i' = last_i /\ proc' = proc
    BY <1>2, <1>5, <2>0
  <2>2. p \in Procs /\ proc[p] # NULL /\ p # kproc /\ thr[t].got = 0
    BY <1>1, <1>3, <1>5, NothingGot DEF IInv, TypeOK, SlotsFilled
  <2>3. /\ thr' \in [Threads -> ThreadRecords]
        /\ \A u \in Threads \ {t} : thr'[u] = thr[u]
        /\ thr'[t].pc = "P" /\ thr'[t].proc = thr[t].proc /\ thr'[t].newp = p
        /\ thr'[t].kids = thr[t].kids \ {i} /\ thr'[t].got = 0
    <3>1. thr \in [Threads -> ThreadRecords] /\ "P" \in Places
      BY DEF IInv, TypeOK, Places, Holding
    <3> HIDE DEF p
    <3> QED
      BY <2>1, <2>2, <3>1 DEF ThreadRecords
  <2>4. /\ \A u \in Threads : Runs(u)' = Runs(u)
        /\ \A u \in Threads \ {t} : Holds(u)' <=> Holds(u)
        /\ Holds(t)' /\ ~Holds(t)
    BY <1>1, <2>3 DEF Runs, Holds, Holding
  <2>5. \A u \in Threads : Holds(u) => thr[u].newp # p
    BY <1>3 DEF IInv, KidsUnheld
  <2>a. TypeOK'
    BY <1>1, <2>1, <2>2, <2>3, ProcTableAssumption DEF IInv, TypeOK, Holds, Holding, Outside
  <2>b. SlotsFilled' /\ Named' /\ Withdrawn' /\ KernelStays'
    <3>1. \A u \in Threads : thr'[u].pc = "sem_destroy" => thr'[u] = thr[u]
      BY <2>3
    <3>2. \A u \in Threads : thr[u].pc = "sem_destroy" => thr'[u] = thr[u]
      BY <1>1, <2>3
    <3>3. SlotsFilled' /\ KernelStays'
      BY <2>1 DEF IInv, SlotsFilled, KernelStays
    <3>u. table' = table /\ proc' = proc
      BY <2>1
    <3>4. Named' /\ Withdrawn'
      BY <3>u, <3>1, <3>2 DEF IInv, Named, Withdrawn
    <3> QED
      BY <3>3, <3>4
  <2>c. RunsInLive' /\ OneRunner'
    BY <2>1, <2>4 DEF IInv, RunsInLive, OneRunner
  <2>d. ThreadCounted'
    BY <2>1, <2>3 DEF IInv, ThreadCounted
  <2>e. HeldLive' /\ OneHolder'
    BY <2>1, <2>2, <2>3, <2>4, <2>5 DEF IInv, HeldLive, OneHolder
  <2>f. KidsLive' /\ OneParent'
    BY <2>1, <2>3 DEF IInv, KidsLive, OneParent
  <2>h. KidsUnheld'
    <3>1. \A u \in Threads : \A j \in thr'[u].kids : j \in Pids /\ j # i /\ j \in thr[u].kids
      <4>1. \A u \in Threads : thr[u].kids \subseteq Pids
        BY Records DEF IInv, ThreadRecords
      <4> QED
        BY <1>3, <2>3, <4>1 DEF IInv, OneParent
    <3>2. \A u \in Threads : \A j \in thr'[u].kids : table[j] # p
      BY <1>3, <2>2, <3>1, ProcTableAssumption DEF IInv, SlotsFilled
    <3> QED
      BY <2>1, <2>3, <2>4, <3>1, <3>2 DEF IInv, KidsUnheld
  <2>i. NobodyRuns'
    BY <2>3, <2>4 DEF IInv, NobodyRuns, Alone, Holding
  <2>j. UnitAtEnd' /\ SleepersWait' /\ NoUnitYet' /\ SemThere'
    <3>k. SemsKept(t)
      BY <1>1, <2>1, <2>3, <2>4 DEF SemsKept
    <3> QED
      BY <2>a, <2>e, <3>k, SameSems
  <2>k. StatusKept' /\ GotStatus'
    <3>k. StatusesKept(t)
      BY <2>1, <2>3 DEF StatusesKept
    <3> QED
      BY <2>e, <3>k, SameStatuses
  <2> QED
    BY <2>a, <2>b, <2>c, <2>d, <2>e, <2>f, <2>h, <2>i, <2>j, <2>k DEF IInv
<1>6. i \in Nat /\ MAX_PROC \in Nat
  BY <1>3, ProcTableAssumption
<1> QED
  BY <1>4, <1>5, <1>6

\* P: whoever gets the unit knows that nobody runs in the process any more.
LEMMA WaitPStep ==
    ASSUME IInv, NEW t \in Threads, WaitP(t)
    PROVE  IInv'
<1> DEFINE p == thr[t].newp
<1>0. thr[t].pc = "P"
  BY DEF WaitP, At
<1>1. CASE proc[p].sem = NULL
  BY <1>1, PanicStep DEF WaitP, Panic
<1>2. CASE proc[p].sem # NULL
  <2> DEFINE s == P(proc[p].sem, t)
             q == IF P_sleeps(proc[p].sem) THEN "P" ELSE "p_status"
  <2>0. table' = table /\ last_i' = last_i
    BY <1>2 DEF WaitP
  <2>1. /\ t \notin Sleepers(proc[p].sem.wchan)
        /\ proc' = [proc EXCEPT ![p].sem = P(@, t)]
        /\ Goto(t, q)
    BY <1>2 DEF WaitP
  <2>2. p \in Procs /\ proc[p] # NULL /\ thr[t].got = 0
    BY <1>0, Records, NothingGot DEF IInv, Holds, Holding, HeldLive
  <2>3. proc[p].sem.count \in Nat /\ proc[p].sem.wchan \in Seq(Threads)
        /\ proc[p].sem \in Semaphores
    <3>1. proc[p].sem \in Semaphores
      BY <1>2, <2>2, Records DEF IInv, Structures
    <3> QED
      BY <3>1 DEF Semaphores
  <2>4. \/ /\ proc[p].sem.count = 0 /\ q = "P" /\ s \in Semaphores
           /\ s.count = 0 /\ Sleepers(s.wchan) = Sleepers(proc[p].sem.wchan) \cup {t}
        \/ /\ proc[p].sem.count > 0 /\ q = "p_status" /\ s \in Semaphores
           /\ s.count = proc[p].sem.count - 1 /\ s.wchan = proc[p].sem.wchan
    <3>1. CASE proc[p].sem.count = 0
      <4>1. s = [proc[p].sem EXCEPT !.wchan = wchan_sleep(@, t)] /\ q = "P"
        BY <3>1 DEF P, P_sleeps
      <4>2. /\ wchan_sleep(proc[p].sem.wchan, t) \in Seq(Threads)
            /\ Sleepers(wchan_sleep(proc[p].sem.wchan, t)) =
                 Sleepers(proc[p].sem.wchan) \cup {t}
        <5> DEFINE w == proc[p].sem.wchan
        <5>1. w \in Seq(Threads)
          BY <2>3
        <5> HIDE DEF w
        <5>2. /\ wchan_sleep(w, t) \in Seq(Threads)
              /\ Sleepers(wchan_sleep(w, t)) = Sleepers(w) \cup {t}
          BY <5>1, SleepersAfter
        <5> QED
          BY <5>2 DEF w
      <4>3. s.wchan = wchan_sleep(proc[p].sem.wchan, t) /\ s.count = 0 /\ s \in Semaphores
        BY <2>3, <3>1, <4>1, <4>2 DEF Semaphores
      <4> QED
        BY <3>1, <4>1, <4>2, <4>3
    <3>2. CASE proc[p].sem.count # 0
      <4>1. s = [proc[p].sem EXCEPT !.count = @ - 1] /\ q = "p_status"
        BY <3>2 DEF P, P_sleeps
      <4>2. proc[p].sem.count > 0 /\ proc[p].sem.count - 1 \in Nat
        BY <2>3, <3>2
      <4>3. /\ s.wchan = proc[p].sem.wchan /\ s.count = proc[p].sem.count - 1
            /\ s \in Semaphores
        BY <2>3, <4>1, <4>2 DEF Semaphores
      <4> QED
        BY <4>1, <4>2, <4>3
    <3> QED
      BY <3>1, <3>2
  <2>5. /\ proc' \in [Procs -> Structures \cup {NULL}]
        /\ \A r \in Procs \ {p} : proc'[r] = proc[r]
        /\ proc'[p] # NULL
        /\ proc'[p].pid = proc[p].pid /\ proc'[p].status = proc[p].status
        /\ proc'[p].numthreads = proc[p].numthreads /\ proc'[p].arg = proc[p].arg
        /\ proc'[p].sem = s
    <3>1. StoresSem(p, s)
      BY <2>1, <2>2 DEF StoresSem, IInv, TypeOK
    <3> HIDE DEF s
    <3> QED
      BY <2>2, <2>4, <3>1, SemStored DEF IInv
  <2>6. /\ thr' \in [Threads -> ThreadRecords]
        /\ \A u \in Threads \ {t} : thr'[u] = thr[u]
        /\ thr'[t].pc = q /\ thr'[t].proc = thr[t].proc /\ thr'[t].newp = p
        /\ thr'[t].kids = thr[t].kids /\ thr'[t].got = 0
    <3>1. q \in Places
      BY DEF Places, Holding
    <3> QED
      BY <2>1, <2>2, <3>1, Moved DEF IInv
  <2> HIDE DEF s, q
  <2>7. \A u \in Threads : Runs(u)' = Runs(u) /\ (Holds(u)' <=> Holds(u))
    BY <1>0, <2>4, <2>6 DEF Runs, Holds, Holding
  <2>8. q = "p_status" => \A u \in Threads : Runs(u) # p
    BY <1>2, <2>2, <2>4 DEF IInv, UnitAtEnd
  <2>a. TypeOK'
    <3>1. thr[t].newp # NULL /\ thr[t].proc # NULL
      BY <1>0 DEF IInv, TypeOK, Holds, Holding, Outside
    <3>2. q \notin Outside /\ q \in Holding
      BY <2>4 DEF Outside, Holding
    <3>3. Placed(t)'
      BY <2>6, <3>1, <3>2 DEF Placed, Holds
    <3> QED
      BY <1>0, <2>0, <2>5, <2>6, <3>3, StillTyped DEF IInv
  <2>b. /\ SlotsFilled' /\ Named' /\ Withdrawn' /\ KernelStays'
        /\ RunsInLive' /\ OneRunner'
        /\ HeldLive' /\ OneHolder' /\ KidsLive' /\ OneParent' /\ KidsUnheld' /\ NobodyRuns'
    <3>1. q = "P" => q \notin Alone
      BY DEF Alone, Holding
    <3>k. OwnersKept
      BY <1>0, <2>0, <2>2, <2>4, <2>5, <2>6, <2>7, <2>8, <3>1 DEF OwnersKept
    <3> QED
      BY <2>a, <3>k, NoNewOwners
  <2>c. ThreadCounted'
    <3>k. CountsKept
      BY <2>2, <2>5, <2>6 DEF CountsKept
    <3> QED
      BY <3>k, SameCounts DEF IInv
  <2>d. UnitAtEnd' /\ SleepersWait' /\ NoUnitYet' /\ SemThere'
    <3>1. \A u \in Sleepers(s.wchan) : thr'[u].pc = "P" /\ thr'[u].newp = p
      <4>1. \A u \in Sleepers(proc[p].sem.wchan) :
                u \in Threads \ {t} /\ thr[u].pc = "P" /\ thr[u].newp = p
        BY <1>2, <2>1, <2>2, <2>3, SleepersAfter DEF IInv, SleepersWait
      <4>a. \A u \in Sleepers(s.wchan) \ {t} : u \in Sleepers(proc[p].sem.wchan)
        BY <2>4
      <4>2. \A u \in Sleepers(s.wchan) \ {t} : thr'[u].pc = "P" /\ thr'[u].newp = p
        BY <2>6, <4>1, <4>a
      <4>3. t \in Sleepers(s.wchan) => thr'[t].pc = "P" /\ thr'[t].newp = p
        BY <2>4, <2>6, <4>1
      <4> QED
        BY <4>2, <4>3
    <3>2. \A u \in Threads : thr'[u].pc \in {"as_copy", "thread_fork"} => thr'[u].newp # p
      <4>1. thr'[t].pc \notin {"as_copy", "thread_fork"}
        BY <2>4, <2>6
      <4>2. \A u \in Threads \ {t} : Holds(u) => thr[u].newp # p
        BY <1>0 DEF IInv, OneHolder, Holds, Holding
      <4> QED
        BY <2>6, <4>1, <4>2 DEF Holds, Holding
    <3>3. s # NULL
      BY <2>4, ProcTableAssumption
    <3>4. s.count > 0 => \A u \in Threads : Runs(u) # p
      BY <1>2, <2>2, <2>3, <2>4 DEF IInv, UnitAtEnd
    <3>k. SemStep(t, p)
      BY <2>2, <2>5, <2>6, <2>7, <3>1, <3>2, <3>3, <3>4 DEF SemStep
    <3> QED
      BY <2>2, <2>a, <2>b, <3>k, OneSem
  <2>e. StatusKept' /\ GotStatus'
    <3>k. StatusesKept(t)
      BY <2>2, <2>5, <2>6 DEF StatusesKept
    <3> QED
      BY <2>b, <3>k, SameStatuses
  <2> QED
    BY <2>a, <2>b, <2>c, <2>d, <2>e DEF IInv
<1> QED
  BY <1>1, <1>2

\* proc_wait reads the status of a process that it holds.
LEMMA WaitStatusStep ==
    ASSUME IInv, NEW t \in Threads, proc_wait_status(t)
    PROVE  IInv'
<1>1. thr[t].pc = "p_status" /\ table' = table /\ last_i' = last_i /\ proc' = proc
  BY DEF proc_wait_status, At
<1>2. thr[t].newp \in Procs /\ proc[thr[t].newp] # NULL /\ proc[thr[t].newp].status \in Nat
  BY <1>1, Records DEF IInv, HeldLive, Holds, Holding, Structures
<1>3. /\ thr' \in [Threads -> ThreadRecords]
      /\ \A u \in Threads \ {t} : thr'[u] = thr[u]
      /\ thr'[t].pc = "proc_destroy" /\ thr'[t].proc = thr[t].proc
      /\ thr'[t].newp = thr[t].newp /\ thr'[t].kids = thr[t].kids
      /\ thr'[t].got = proc[thr[t].newp].status
  BY <1>2 DEF IInv, TypeOK, ThreadRecords, proc_wait_status, Places, Holding
<1>5. \A u \in Threads : Runs(u)' = Runs(u) /\ (Holds(u)' <=> Holds(u))
  BY <1>1, <1>3 DEF Runs, Holds, Holding
<1>a. TypeOK'
  BY <1>1, <1>3 DEF IInv, TypeOK, Holds, Holding, Outside
<1>b. /\ SlotsFilled' /\ Named' /\ Withdrawn' /\ KernelStays'
      /\ RunsInLive' /\ OneRunner'
      /\ HeldLive' /\ OneHolder' /\ KidsLive' /\ OneParent' /\ KidsUnheld' /\ NobodyRuns'
  <2>1. thr[t].pc \in Alone
    BY <1>1 DEF Alone, Holding
  <2>k. OwnersKept
    BY <1>1, <1>3, <1>5, <2>1 DEF OwnersKept
  <2> QED
    BY <1>a, <2>k, NoNewOwners
<1>c. ThreadCounted'
  BY <1>1, <1>3 DEF IInv, ThreadCounted
<1>d. UnitAtEnd' /\ SleepersWait' /\ NoUnitYet' /\ SemThere'
  <2>k. SemsKept(t)
    BY <1>1, <1>3, <1>5 DEF SemsKept
  <2> QED
    BY <1>a, <1>b, <2>k, SameSems
<1>e. StatusKept' /\ GotStatus'
  <2>k. StatusesKept(t)
    BY <1>1, <1>3 DEF StatusesKept
  <2> QED
    BY <1>b, <2>k, SameStatuses
<1> QED
  BY <1>a, <1>b, <1>c, <1>d, <1>e DEF IInv

\* proc_destroy gives back the slot of the process it holds, and no other.
LEMMA DestroyStep ==
    ASSUME IInv, NEW t \in Threads, proc_destroy(t)
    PROVE  IInv'
<1> DEFINE p == thr[t].newp
           i == proc[p].pid
<1>1. CASE proc[p].numthreads # 0
  BY <1>1, PanicStep DEF proc_destroy, Panic
<1>2. CASE proc[p].numthreads = 0
  <2>1. /\ thr[t].pc = "proc_destroy" /\ last_i' = last_i /\ proc' = proc
        /\ table' = [table EXCEPT ![i] = NULL] /\ Goto(t, "sem_destroy")
    BY <1>2 DEF proc_destroy, At
  <2>2. /\ p \in Procs /\ proc[p] # NULL /\ Holds(t)
        /\ i \in Pids /\ table[i] = p
    BY <2>1, Records, HeldNamed DEF IInv, Holds, Holding, HeldLive
  <2>3. /\ thr' \in [Threads -> ThreadRecords]
        /\ \A u \in Threads \ {t} : thr'[u] = thr[u]
        /\ thr'[t].pc = "sem_destroy" /\ thr'[t].proc = thr[t].proc /\ thr'[t].newp = p
        /\ thr'[t].kids = thr[t].kids /\ thr'[t].got = thr[t].got
    BY <2>1, Moved DEF IInv, Places, Holding
  <2>t. /\ table' \in [Pids -> Procs \cup {NULL}]
        /\ \A j \in Pids \ {i} : table'[j] = table[j]
        /\ table'[i] = NULL
    BY <2>1, <2>2 DEF IInv, TypeOK
  <2> HIDE DEF i
  <2>4. \A u \in Threads : Runs(u)' = Runs(u) /\ (Holds(u)' <=> Holds(u))
    BY <2>1, <2>3 DEF Runs, Holds, Holding
  <2>5. /\ \A u \in Threads \ {t} : Holds(u) => thr[u].newp # p
        /\ \A u \in Threads : i \notin thr[u].kids
    BY <2>2 DEF IInv, OneHolder, KidsUnheld
  <2>6. /\ \A r \in Procs : proc[r] # NULL => proc[r].pid \in Pids
        /\ \A u \in Threads : thr[u].kids \subseteq Pids
        /\ \A u \in Threads : Holds(u) => thr[u].newp \in Procs /\ thr[u].newp # NULL
    BY Records, ProcTableAssumption DEF IInv, Structures, ThreadRecords
  <2>a. TypeOK'
    BY <2>1, <2>t, <2>3 DEF IInv, TypeOK, Holds, Holding, Outside
  <2>b. SlotsFilled' /\ KernelStays'
    BY <2>1, <2>t DEF IInv, SlotsFilled, KernelStays
  <2>c. Named'
    <3> SUFFICES ASSUME NEW r \in Procs, proc[r] # NULL, table'[proc[r].pid] # r
                 PROVE  \E u \in Threads : thr'[u].pc = "sem_destroy" /\ thr'[u].newp = r
      BY <2>1 DEF Named
    <3>1. CASE r = p
      BY <2>3, <3>1
    <3>2. CASE r # p
      <4>1. table[proc[r].pid] # r
        BY <2>2, <2>6, <2>t, <3>2
      <4>2. PICK u \in Threads : thr[u].pc = "sem_destroy" /\ thr[u].newp = r
        BY <4>1 DEF IInv, Named
      <4> QED
        BY <2>1, <2>3, <4>2
    <3> QED
      BY <3>1, <3>2
  <2>d. Withdrawn'
    <3> SUFFICES ASSUME NEW u \in Threads, thr'[u].pc = "sem_destroy"
                 PROVE  table'[proc[thr'[u].newp].pid] # thr'[u].newp
      BY <2>1 DEF Withdrawn
    <3>1. CASE u = t
      BY <2>2, <2>3, <2>t, <3>1, ProcTableAssumption DEF i
    <3>2. CASE u # t
      <4>1. thr'[u] = thr[u] /\ thr[u].pc = "sem_destroy" /\ Holds(u)
        BY <2>3, <3>2 DEF Holds, Holding
      <4>2. proc[thr[u].newp] # NULL /\ thr[u].newp \in Procs /\ thr[u].newp # NULL
        BY <2>6, <4>1 DEF IInv, HeldLive
      <4>3. table[proc[thr[u].newp].pid] # thr[u].newp /\ proc[thr[u].newp].pid \in Pids
        BY <2>6, <4>1, <4>2 DEF IInv, Withdrawn
      <4> QED
        BY <2>t, <4>1, <4>2, <4>3
    <3> QED
      BY <3>1, <3>2
  <2>e. RunsInLive' /\ OneRunner'
    BY <2>1, <2>4 DEF IInv, RunsInLive, OneRunner
  <2>f. ThreadCounted'
    BY <2>1, <2>3 DEF IInv, ThreadCounted
  <2>g. HeldLive' /\ OneHolder'
    <3>1. \A u \in Threads : thr'[u].newp = thr[u].newp
      BY <2>3
    <3> QED
      BY <2>1, <2>4, <3>1 DEF IInv, HeldLive, OneHolder
  <2>h. KidsLive' /\ OneParent' /\ KidsUnheld'
    <3>1. \A u \in Threads : thr'[u].kids = thr[u].kids /\ thr'[u].newp = thr[u].newp
      BY <2>3
    <3>2. \A u \in Threads : \A j \in thr[u].kids : table'[j] = table[j]
      BY <2>5, <2>6, <2>t
    <3>3. KidsLive' /\ OneParent'
      BY <3>1, <3>2 DEF IInv, KidsLive, OneParent
    <3>4. KidsUnheld'
      BY <2>4, <3>1, <3>2 DEF IInv, KidsUnheld
    <3> QED
      BY <3>3, <3>4
  <2>i. NobodyRuns'
    <3>1. \A u \in Threads : thr'[u].pc \in Alone => thr[u].pc \in Alone
      BY <2>1, <2>3 DEF Alone, Holding
    <3> QED
      BY <2>3, <2>4, <3>1 DEF IInv, NobodyRuns
  <2>j. UnitAtEnd' /\ SleepersWait' /\ NoUnitYet' /\ SemThere'
    <3>1. proc' = proc /\ thr[t].pc = "proc_destroy"
      BY <2>1
    <3>k. SemsKept(t)
      BY <2>3, <2>4, <3>1 DEF SemsKept
    <3> QED
      BY <2>a, <2>g, <3>k, SameSems
  <2>k. StatusKept' /\ GotStatus'
    <3>1. proc' = proc /\ thr[t].pc = "proc_destroy"
      BY <2>1
    <3>2. thr[t].got # 0 => thr[t].got = proc[p].status
      BY DEF IInv, GotStatus
    <3>k. StatusesKept(t)
      BY <2>3, <3>1, <3>2 DEF StatusesKept
    <3> QED
      BY <2>g, <3>k, SameStatuses
  <2> QED
    BY <2>a, <2>b, <2>c, <2>d, <2>e, <2>f, <2>g, <2>h, <2>i, <2>j, <2>k DEF IInv
<1> QED
  BY <1>1, <1>2

\* proc_destroy frees a structure that nobody else refers to.
LEMMA FreeStep ==
    ASSUME IInv, NEW t \in Threads, proc_free(t)
    PROVE  IInv'
<1> DEFINE p == thr[t].newp
<1>1. CASE proc[p].sem = NULL \/ ~wchan_isempty(proc[p].sem.wchan)
  BY <1>1, PanicStep DEF proc_free, Panic
<1>2. CASE proc[p].sem # NULL /\ wchan_isempty(proc[p].sem.wchan)
  <2>1. /\ proc' = [proc EXCEPT ![p] = NULL]
        /\ thr' = [thr EXCEPT ![t].pc = Home(t), ![t].newp = NULL, ![t].got = 0]
    BY <1>2 DEF proc_free
  <2>2. thr[t].pc = "sem_destroy" /\ table' = table /\ last_i' = last_i
    BY <1>2 DEF proc_free, At
  <2>3. /\ p \in Procs /\ proc[p] # NULL /\ p # kproc /\ Holds(t)
        /\ table[proc[p].pid] # p
    BY <2>2, Records DEF IInv, Holds, Holding, HeldLive, Withdrawn
  <2>4. /\ proc' \in [Procs -> Structures \cup {NULL}]
        /\ \A r \in Procs \ {p} : proc'[r] = proc[r]
        /\ proc'[p] = NULL
    BY <2>1, <2>3 DEF IInv, TypeOK
  <2>5. /\ thr' \in [Threads -> ThreadRecords]
        /\ \A u \in Threads \ {t} : thr'[u] = thr[u]
        /\ thr'[t].pc \in {"menu", "user"} /\ thr'[t].proc = thr[t].proc
        /\ thr'[t].newp = NULL /\ thr'[t].kids = thr[t].kids /\ thr'[t].got = 0
    <3>1. thr \in [Threads -> ThreadRecords] /\ Home(t) \in {"menu", "user"}
          /\ Home(t) \in Places
      BY DEF IInv, TypeOK, Places, Home
    <3> QED
      BY <2>1, <3>1 DEF ThreadRecords
  <2>6. /\ \A u \in Threads : Runs(u)' = Runs(u)
        /\ \A u \in Threads \ {t} : Holds(u)' <=> Holds(u)
        /\ ~Holds(t)'
    BY <2>2, <2>5 DEF Runs, Holds, Holding
  <2>7. /\ \A u \in Threads \ {t} : Holds(u) => thr[u].newp # p
        /\ \A u \in Threads : Runs(u) # p
    BY <2>2, <2>3 DEF IInv, OneHolder, NobodyRuns, Alone, Holding
  <2>8. /\ \A u \in Threads : Runs(u) \in Procs \cup {NULL}
        /\ \A u \in Threads : Holds(u) => thr[u].newp \in Procs
        /\ \A i \in Pids : table[i] \in Procs \cup {NULL}
    BY RunsInProc, Records DEF IInv, TypeOK
  <2>a. TypeOK'
    BY <2>2, <2>4, <2>5 DEF IInv, TypeOK, Holds, Holding, Outside
  <2>b. SlotsFilled' /\ KernelStays'
    <3>1. \A i \in Pids : table[i] # p
      <4>1. p # NULL /\ table[proc[p].pid] # p
        BY <2>3, ProcTableAssumption
      <4>2. SlotsFilled
        BY DEF IInv
      <4> HIDE DEF p
      <4> QED
        BY <4>1, <4>2 DEF SlotsFilled
    <3>2. SlotsFilled'
      BY <2>2, <2>4, <2>8, <3>1 DEF IInv, SlotsFilled
    <3>3. KernelStays'
      BY <2>3, <2>4, ProcTableAssumption DEF IInv, KernelStays
    <3> QED
      BY <3>2, <3>3
  <2>c. Named'
    <3> SUFFICES ASSUME NEW r \in Procs, proc'[r] # NULL, table[proc'[r].pid] # r
                 PROVE  \E u \in Threads : thr'[u].pc = "sem_destroy" /\ thr'[u].newp = r
      BY <2>2 DEF Named
    <3>1. r # p /\ proc'[r] = proc[r]
      BY <2>4
    <3>2. PICK u \in Threads : thr[u].pc = "sem_destroy" /\ thr[u].newp = r
      BY <3>1 DEF IInv, Named
    <3> QED
      BY <2>5, <3>1, <3>2
  <2>d. Withdrawn'
    <3> SUFFICES ASSUME NEW u \in Threads, thr'[u].pc = "sem_destroy"
                 PROVE  table[proc'[thr'[u].newp].pid] # thr'[u].newp
      BY <2>2 DEF Withdrawn
    <3>1. u # t /\ thr'[u] = thr[u] /\ Holds(u)
      BY <2>5 DEF Holds, Holding
    <3>2. thr[u].newp \in Procs \ {p}
      BY <2>7, <2>8, <3>1
    <3> QED
      BY <2>4, <3>1, <3>2 DEF IInv, Withdrawn
  <2>e. RunsInLive' /\ OneRunner'
    <3>1. \A u \in Threads : Runs(u) # NULL => proc'[Runs(u)] = proc[Runs(u)]
      BY <2>4, <2>7, <2>8
    <3> QED
      BY <2>6, <3>1 DEF IInv, RunsInLive, OneRunner
  <2>f. ThreadCounted'
    BY <2>4, <2>5 DEF IInv, ThreadCounted
  <2>g. HeldLive' /\ OneHolder'
    <3>1. \A u \in Threads : Holds(u)' => u # t /\ Holds(u) /\ thr'[u].newp = thr[u].newp
      BY <2>5, <2>6
    <3>2. \A u \in Threads : Holds(u)' => proc'[thr[u].newp] = proc[thr[u].newp]
      BY <2>4, <2>7, <2>8, <3>1
    <3> QED
      BY <3>1, <3>2 DEF IInv, HeldLive, OneHolder
  <2>h. KidsLive' /\ OneParent' /\ KidsUnheld'
    <3>1. \A u \in Threads : thr'[u].kids = thr[u].kids
      BY <2>5
    <3>2. \A u \in Threads : Holds(u)' => Holds(u) /\ thr'[u].newp = thr[u].newp
      BY <2>5, <2>6
    <3>3. KidsLive' /\ OneParent'
      BY <2>2, <3>1 DEF IInv, KidsLive, OneParent
    <3>4. KidsUnheld'
      BY <2>2, <3>1, <3>2 DEF IInv, KidsUnheld
    <3> QED
      BY <3>3, <3>4
  <2>i. NobodyRuns'
    BY <2>5, <2>6 DEF IInv, NobodyRuns, Alone, Holding
  <2>j. UnitAtEnd' /\ SleepersWait' /\ NoUnitYet' /\ SemThere'
    <3>k. SemsKept(t)
      BY <2>2, <2>4, <2>5, <2>6 DEF SemsKept
    <3> QED
      BY <2>a, <2>g, <3>k, SameSems
  <2>k. StatusKept' /\ GotStatus'
    <3>k. StatusesKept(t)
      BY <2>4, <2>5 DEF StatusesKept
    <3> QED
      BY <2>g, <3>k, SameStatuses
  <2> QED
    BY <2>a, <2>b, <2>c, <2>d, <2>e, <2>f, <2>g, <2>h, <2>i, <2>j, <2>k DEF IInv
<1> QED
  BY <1>1, <1>2

=============================================================================
