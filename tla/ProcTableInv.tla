--------------------------- MODULE ProcTableInv ----------------------------
(***************************************************************************)
(* Proofs about ProcTable, for any number of processes, threads and pids.  *)
(*                                                                         *)
(* The argument is one of ownership.  A process has at most one thread     *)
(* that runs in it, and at most one thread that may collect it: the one    *)
(* that created it and has not returned yet, the one that waits for it, or *)
(* the one to whose program fork returned its pid.  The unit on the        *)
(* semaphore of a process is there only when nobody runs in it any more.   *)
(***************************************************************************)
EXTENDS ProcTable

\* A program waits for its own children.
OwnChildren == \A kids \in SUBSET Pids : WaitPids(kids) \subseteq kids

-----------------------------------------------------------------------------
(* The inductive invariant *)

\* Where a thread holds the process newp, as its creator or as its collector.
Holding == {"sem_create", "as_copy", "thread_fork", "fork_return",
            "P", "p_status", "proc_destroy", "sem_destroy"}

\* Where nobody runs in newp: not yet, or not any more.
Alone == Holding \ {"fork_return", "P"}

Outside == {"none", "thread_exit", "proc_signal_end"}

Places == Holding \cup Outside \cup {"menu", "user", "runprogram", "proc_remthread"}

ThreadRecords == [pc : Places, proc : Procs \cup {NULL}, newp : Procs \cup {NULL},
                  kids : SUBSET Pids, got : Nat]

Holds(t) == thr[t].pc \in Holding

\* The process t runs in, up to the moment it has signalled its end.
Runs(t) == IF thr[t].pc = "proc_signal_end" THEN thr[t].newp ELSE thr[t].proc

TypeOK ==
    /\ table \in [Pids -> Procs \cup {NULL}]
    /\ last_i \in Pids
    /\ proc \in [Procs -> Structures \cup {NULL}]
    /\ thr \in [Threads -> ThreadRecords]
    /\ \A t \in Threads :
        /\ thr[t].newp # NULL <=> Holds(t) \/ thr[t].pc = "proc_signal_end"
        /\ thr[t].proc # NULL <=> thr[t].pc \notin Outside

(* The table and the structures. *)

SlotsFilled ==
    \A i \in Pids : table[i] # NULL => proc[table[i]] # NULL /\ proc[table[i]].pid = i

Named ==
    \A p \in Procs : proc[p] # NULL =>
        \/ table[proc[p].pid] = p
        \/ \E t \in Threads : thr[t].pc = "sem_destroy" /\ thr[t].newp = p

Withdrawn ==
    \A t \in Threads :
        thr[t].pc = "sem_destroy" => table[proc[thr[t].newp].pid] # thr[t].newp

KernelStays == proc[kproc] # NULL

(* Every process has at most one thread, which its structure counts. *)

RunsInLive == \A t \in Threads : Runs(t) # NULL => proc[Runs(t)] # NULL

OneRunner == \A t, u \in Threads : Runs(t) # NULL /\ Runs(t) = Runs(u) => t = u

ThreadCounted ==
    \A p \in Procs : proc[p] # NULL =>
        proc[p].numthreads = IF \E t \in Threads : thr[t].proc = p THEN 1 ELSE 0

(* Every process has at most one thread that may collect it. *)

HeldLive == \A t \in Threads : Holds(t) => proc[thr[t].newp] # NULL /\ thr[t].newp # kproc

OneHolder == \A t, u \in Threads : Holds(t) /\ Holds(u) /\ thr[t].newp = thr[u].newp => t = u

KidsLive == \A t \in Threads : \A i \in thr[t].kids : table[i] # NULL /\ table[i] # kproc

OneParent == \A t, u \in Threads : \A i \in thr[t].kids : i \in thr[u].kids => t = u

KidsUnheld == \A t, u \in Threads : \A i \in thr[t].kids : Holds(u) => thr[u].newp # table[i]

NobodyRuns == \A t, u \in Threads : thr[t].pc \in Alone => thr[t].newp # Runs(u)

(* The semaphores: who sleeps, and when there is a unit. *)

UnitAtEnd ==
    \A p \in Procs : proc[p] # NULL /\ proc[p].sem # NULL /\ proc[p].sem.count > 0 =>
        \A t \in Threads : Runs(t) # p

SleepersWait ==
    \A p \in Procs : proc[p] # NULL /\ proc[p].sem # NULL =>
        \A t \in Sleepers(proc[p].sem.wchan) : thr[t].pc = "P" /\ thr[t].newp = p

NoUnitYet ==
    \A t \in Threads :
        thr[t].pc \in {"as_copy", "thread_fork"} /\ proc[thr[t].newp].sem # NULL =>
            proc[thr[t].newp].sem.count = 0

SemThere ==
    ~SemFails => \A p \in Procs : proc[p] # NULL =>
        \/ proc[p].sem # NULL
        \/ \E t \in Threads : thr[t].pc = "sem_create" /\ thr[t].newp = p

(* The statuses. *)

StatusKept == \A p \in Procs : proc[p] # NULL => proc[p].status = proc[p].arg % 256

GotStatus ==
    \A t \in Threads : thr[t].got # 0 =>
        /\ thr[t].pc \in {"proc_destroy", "sem_destroy"}
        /\ thr[t].got = proc[thr[t].newp].status

IInv ==
    /\ TypeOK
    /\ SlotsFilled /\ Named /\ Withdrawn /\ KernelStays
    /\ RunsInLive /\ OneRunner /\ ThreadCounted
    /\ HeldLive /\ OneHolder /\ KidsLive /\ OneParent /\ KidsUnheld /\ NobodyRuns
    /\ UnitAtEnd /\ SleepersWait /\ NoUnitYet /\ SemThere
    /\ StatusKept /\ GotStatus

USE DEF Pids

-----------------------------------------------------------------------------
(* What the steps do, thread by thread *)

\* A step that only moves t.
LEMMA Moved ==
    ASSUME TypeOK, NEW t \in Threads, NEW q \in Places, Goto(t, q)
    PROVE  /\ thr' \in [Threads -> ThreadRecords]
           /\ \A u \in Threads \ {t} : thr'[u] = thr[u]
           /\ thr'[t].pc = q /\ thr'[t].proc = thr[t].proc /\ thr'[t].newp = thr[t].newp
           /\ thr'[t].kids = thr[t].kids /\ thr'[t].got = thr[t].got
BY DEF TypeOK, Goto, ThreadRecords

\* The records of what exists.
LEMMA Records ==
    ASSUME TypeOK
    PROVE  /\ \A p \in Procs : proc[p] # NULL => proc[p] \in Structures
           /\ \A t \in Threads : thr[t] \in ThreadRecords
           /\ \A t \in Threads : Holds(t) => thr[t].newp \in Procs
           /\ \A t \in Threads : thr[t].pc \notin Outside => thr[t].proc \in Procs
BY DEF TypeOK, ThreadRecords

StoresSem(p, s) == proc' = [proc EXCEPT ![p].sem = s]

StoresCount(p, n) == proc' = [proc EXCEPT ![p].numthreads = n]

\* A step that stores s as the semaphore of p.
LEMMA SemStored ==
    ASSUME TypeOK, NEW p \in Procs, proc[p] # NULL, NEW s \in Semaphores \cup {NULL},
           StoresSem(p, s)
    PROVE  /\ proc' \in [Procs -> Structures \cup {NULL}]
           /\ \A r \in Procs \ {p} : proc'[r] = proc[r]
           /\ proc'[p] # NULL
           /\ proc'[p].pid = proc[p].pid /\ proc'[p].status = proc[p].status
           /\ proc'[p].numthreads = proc[p].numthreads /\ proc'[p].arg = proc[p].arg
           /\ proc'[p].sem = s
<1>1. proc[p] \in Structures
  BY Records
<1>2. [proc[p] EXCEPT !.sem = s] \in Structures
  BY <1>1 DEF Structures
<1>3. /\ proc'[p] = [proc[p] EXCEPT !.sem = s]
      /\ \A r \in Procs \ {p} : proc'[r] = proc[r]
      /\ proc' \in [Procs -> Structures \cup {NULL}]
  BY <1>2 DEF TypeOK, StoresSem
<1> QED
  BY <1>1, <1>2, <1>3, ProcTableAssumption DEF Structures

\* A step that stores n as the number of threads of p.
LEMMA CountStored ==
    ASSUME TypeOK, NEW p \in Procs, proc[p] # NULL, NEW n \in Nat,
           StoresCount(p, n)
    PROVE  /\ proc' \in [Procs -> Structures \cup {NULL}]
           /\ \A r \in Procs \ {p} : proc'[r] = proc[r]
           /\ proc'[p] # NULL
           /\ proc'[p].pid = proc[p].pid /\ proc'[p].status = proc[p].status
           /\ proc'[p].numthreads = n /\ proc'[p].arg = proc[p].arg
           /\ proc'[p].sem = proc[p].sem
<1>1. proc[p] \in Structures
  BY Records
<1>2. [proc[p] EXCEPT !.numthreads = n] \in Structures
  BY <1>1 DEF Structures
<1>3. /\ proc'[p] = [proc[p] EXCEPT !.numthreads = n]
      /\ \A r \in Procs \ {p} : proc'[r] = proc[r]
      /\ proc' \in [Procs -> Structures \cup {NULL}]
  BY <1>2 DEF TypeOK, StoresCount
<1> QED
  BY <1>1, <1>2, <1>3, ProcTableAssumption DEF Structures

\* Types after a step of t.
Placed(t) ==
    /\ thr[t].newp # NULL <=> Holds(t) \/ thr[t].pc = "proc_signal_end"
    /\ thr[t].proc # NULL <=> thr[t].pc \notin Outside

\* The types hold after a step of t that leaves the other threads alone.
LEMMA StillTyped ==
    ASSUME TypeOK, NEW t \in Threads, table' = table, last_i' = last_i,
           proc' \in [Procs -> Structures \cup {NULL}],
           thr' \in [Threads -> ThreadRecords],
           \A u \in Threads \ {t} : thr'[u] = thr[u],
           Placed(t)'
    PROVE  TypeOK'
BY DEF TypeOK, Placed, Holds

\* The step changes no number of threads.
CountsKept ==
    /\ \A u \in Threads : thr'[u].proc = thr[u].proc
    /\ \A r \in Procs : proc'[r] # NULL <=> proc[r] # NULL
    /\ \A r \in Procs : proc[r] # NULL => proc'[r].numthreads = proc[r].numthreads

\* Then the numbers of threads stay right.
LEMMA SameCounts ==
    ASSUME ThreadCounted, CountsKept
    PROVE  ThreadCounted'
BY DEF ThreadCounted, CountsKept

\* A thread that belongs to a process runs in it.
LEMMA RunsInProc ==
    ASSUME TypeOK
    PROVE  /\ \A u \in Threads : thr[u].proc # NULL => Runs(u) = thr[u].proc
           /\ \A u \in Threads : Runs(u) \in Procs \cup {NULL}
           /\ \A u \in Threads : Runs(u) # NULL <=>
                thr[u].pc = "proc_signal_end" \/ thr[u].pc \notin Outside
BY DEF TypeOK, Runs, ThreadRecords, Outside

\* After the step nobody runs where he did not, or may collect what he could not.
OwnersKept ==
    /\ table' = table
    /\ \A r \in Procs : proc'[r] # NULL <=> proc[r] # NULL
    /\ \A r \in Procs : proc[r] # NULL => proc'[r].pid = proc[r].pid
    /\ \A u \in Threads : Runs(u)' \in {Runs(u), NULL}
    /\ \A u \in Threads : Holds(u)' => Holds(u) /\ thr'[u].newp = thr[u].newp
    /\ \A u \in Threads : thr'[u].kids \subseteq thr[u].kids
    /\ \A u \in Threads : thr'[u].pc = "sem_destroy" <=> thr[u].pc = "sem_destroy"
    /\ \A u \in Threads : thr'[u].pc \in Alone =>
        thr[u].pc \in Alone \/ \A v \in Threads : Runs(v) # thr[u].newp

\* Then the table, the runners and the holders stay in order.
LEMMA NoNewOwners ==
    ASSUME IInv, TypeOK', OwnersKept
    PROVE  /\ SlotsFilled' /\ Named' /\ Withdrawn' /\ KernelStays'
           /\ RunsInLive' /\ OneRunner'
           /\ HeldLive' /\ OneHolder' /\ KidsLive' /\ OneParent' /\ KidsUnheld' /\ NobodyRuns'
<1>1. \A u \in Threads : Runs(u) \in Procs \cup {NULL}
  BY RunsInProc DEF IInv
<1>2. /\ \A u \in Threads : Holds(u) => thr[u].newp \in Procs
      /\ \A i \in Pids : table[i] \in Procs \cup {NULL}
      /\ \A r \in Procs : proc[r] # NULL => proc[r].pid \in Pids
      /\ \A u \in Threads : thr[u].kids \subseteq Pids
  BY Records DEF IInv, TypeOK, Structures, ThreadRecords
<1>3. \A u \in Threads : thr[u].pc = "sem_destroy" => Holds(u) /\ thr'[u].newp = thr[u].newp
  BY DEF OwnersKept, Holds, Holding
<1>a. SlotsFilled'
  BY <1>2 DEF OwnersKept, IInv, SlotsFilled
<1>b. Named'
  BY <1>3 DEF OwnersKept, IInv, Named
<1>c. Withdrawn'
  BY <1>2, <1>3 DEF OwnersKept, IInv, Withdrawn, HeldLive
<1>d. KernelStays'
  BY ProcTableAssumption DEF OwnersKept, IInv, KernelStays
<1>e. RunsInLive' /\ OneRunner'
  BY <1>1 DEF OwnersKept, IInv, RunsInLive, OneRunner
<1>f. HeldLive' /\ OneHolder'
  BY <1>2 DEF OwnersKept, IInv, HeldLive, OneHolder
<1>g. KidsLive' /\ OneParent' /\ KidsUnheld'
  BY DEF OwnersKept, IInv, KidsLive, OneParent, KidsUnheld
<1>h. NobodyRuns'
  <2> SUFFICES ASSUME NEW u \in Threads, NEW v \in Threads, thr'[u].pc \in Alone,
                      thr'[u].newp = Runs(v)'
               PROVE  FALSE
    BY DEF NobodyRuns
  <2>1. Holds(u) /\ thr'[u].newp = thr[u].newp
    BY DEF OwnersKept, Holds, Alone
  <2>2. thr[u].newp # NULL
    BY <2>1 DEF IInv, TypeOK
  <2>3. thr[u].newp = Runs(v)
    BY <2>1, <2>2 DEF OwnersKept
  <2> QED
    BY <2>3 DEF OwnersKept, IInv, NobodyRuns
<1> QED
  BY <1>a, <1>b, <1>c, <1>d, <1>e, <1>f, <1>g, <1>h

\* The step of t leaves the semaphores alone and lets nobody into a process.
SemsKept(t) ==
    /\ \A r \in Procs : proc'[r] # NULL => proc[r] # NULL /\ proc'[r].sem = proc[r].sem
    /\ \A u \in Threads : Runs(u)' \in {Runs(u), NULL}
    /\ \A u \in Threads \ {t} : thr'[u].pc = thr[u].pc /\ thr'[u].newp = thr[u].newp
    /\ thr[t].pc \notin {"P", "sem_create"}
    /\ thr'[t].pc \in {"as_copy", "thread_fork"} =>
        thr[t].pc \in {"as_copy", "thread_fork"} /\ thr'[t].newp = thr[t].newp

\* Then the semaphores stay in order.
LEMMA SameSems ==
    ASSUME IInv, TypeOK', HeldLive', NEW t \in Threads, SemsKept(t)
    PROVE  UnitAtEnd' /\ SleepersWait' /\ NoUnitYet' /\ SemThere'
<1> USE DEF SemsKept
<1>1. UnitAtEnd'
  BY ProcTableAssumption DEF IInv, UnitAtEnd
<1>2. SleepersWait'
  <2> SUFFICES ASSUME NEW r \in Procs, proc'[r] # NULL, proc'[r].sem # NULL,
                      NEW u \in Sleepers(proc[r].sem.wchan)
               PROVE  thr'[u].pc = "P" /\ thr'[u].newp = r
    BY DEF SleepersWait
  <2>1. u \in Threads
    <3>1. proc[r] \in Structures /\ proc[r].sem # NULL
      BY Records DEF IInv
    <3>2. proc[r].sem \in Semaphores
      BY <3>1 DEF Structures
    <3>3. proc[r].sem.wchan \in Seq(Threads)
      BY <3>2 DEF Semaphores
    <3> QED
      BY <3>3 DEF Sleepers
  <2>2. thr[u].pc = "P" /\ thr[u].newp = r
    BY DEF IInv, SleepersWait
  <2> QED
    BY <2>1, <2>2
<1>3. NoUnitYet'
  <2> SUFFICES ASSUME NEW u \in Threads, thr'[u].pc \in {"as_copy", "thread_fork"},
                      proc'[thr'[u].newp].sem # NULL
               PROVE  proc'[thr'[u].newp].sem.count = 0
    BY DEF NoUnitYet
  <2>1. thr[u].pc \in {"as_copy", "thread_fork"} /\ thr'[u].newp = thr[u].newp
    OBVIOUS
  <2>2. thr[u].newp \in Procs /\ proc'[thr[u].newp] # NULL
    BY <2>1, Records DEF IInv, HeldLive, Holds, Holding
  <2> QED
    BY <2>1, <2>2 DEF IInv, NoUnitYet
<1>4. SemThere'
  BY DEF IInv, SemThere
<1> QED
  BY <1>1, <1>2, <1>3, <1>4

\* Who sleeps after a sleep and after a wake-up.
LEMMA SleepersAfter ==
    ASSUME NEW S, NEW wc \in Seq(S), NEW t \in S
    PROVE  /\ wchan_sleep(wc, t) \in Seq(S) /\ wchan_wakeone(wc) \in Seq(S)
           /\ Sleepers(wchan_sleep(wc, t)) = Sleepers(wc) \cup {t}
           /\ Sleepers(wchan_wakeone(wc)) \subseteq Sleepers(wc)
           /\ Sleepers(wc) \subseteq S
<1>1. wchan_sleep(wc, t) \in Seq(S) /\ wchan_wakeone(wc) \in Seq(S)
  BY DEF wchan_sleep, wchan_wakeone, wchan_isempty
<1>2. Sleepers(wchan_sleep(wc, t)) = Sleepers(wc) \cup {t}
  <2>1. DOMAIN Append(wc, t) = 1 .. Len(wc) + 1 /\ DOMAIN wc = 1 .. Len(wc)
    OBVIOUS
  <2>2. /\ \A i \in 1 .. Len(wc) : Append(wc, t)[i] = wc[i]
        /\ Append(wc, t)[Len(wc) + 1] = t
    OBVIOUS
  <2> QED
    BY <2>1, <2>2 DEF Sleepers, wchan_sleep
<1>3. Sleepers(wchan_wakeone(wc)) \subseteq Sleepers(wc)
  <2>1. CASE wc = <<>>
    BY <2>1 DEF wchan_wakeone, wchan_isempty
  <2>2. CASE wc # <<>>
    BY <2>2 DEF wchan_wakeone, wchan_isempty, Sleepers
  <2> QED
    BY <2>1, <2>2
<1>4. Sleepers(wc) \subseteq S
  BY DEF Sleepers
<1> QED
  BY <1>1, <1>2, <1>3, <1>4

\* The step of t is on the semaphore of p, which is in order after it.
SemStep(t, p) ==
    /\ \A r \in Procs \ {p} : proc'[r] = proc[r]
    /\ \A u \in Threads : Runs(u)' \in {Runs(u), NULL}
    /\ \A u \in Threads \ {t} : thr'[u].pc = thr[u].pc /\ thr'[u].newp = thr[u].newp
    /\ thr[t].newp = p
    /\ Holds(t)' => thr'[t].newp = p
    /\ proc'[p].sem # NULL /\ proc'[p].sem.count > 0 => \A u \in Threads : Runs(u)' # p
    /\ proc'[p].sem # NULL => \A u \in Sleepers(proc'[p].sem.wchan) :
                                 thr'[u].pc = "P" /\ thr'[u].newp = p
    /\ proc'[p].sem # NULL => \A u \in Threads :
            thr'[u].pc \in {"as_copy", "thread_fork"} /\ thr'[u].newp = p =>
                proc'[p].sem.count = 0
    /\ ~SemFails => proc'[p].sem # NULL

\* Then all semaphores are in order.
LEMMA OneSem ==
    ASSUME IInv, TypeOK', HeldLive', NEW t \in Threads, NEW p \in Procs, SemStep(t, p)
    PROVE  UnitAtEnd' /\ SleepersWait' /\ NoUnitYet' /\ SemThere'
<1> USE DEF SemStep
<1>1. UnitAtEnd'
  BY ProcTableAssumption DEF IInv, UnitAtEnd
<1>2. SleepersWait'
  <2> SUFFICES ASSUME NEW r \in Procs \ {p}, proc[r] # NULL, proc[r].sem # NULL,
                      NEW u \in Sleepers(proc[r].sem.wchan)
               PROVE  thr'[u].pc = "P" /\ thr'[u].newp = r
    BY DEF SleepersWait
  <2>1. u \in Threads
    <3>1. proc[r] \in Structures
      BY Records DEF IInv
    <3>2. proc[r].sem \in Semaphores
      BY <3>1 DEF Structures
    <3>3. proc[r].sem.wchan \in Seq(Threads)
      BY <3>2 DEF Semaphores
    <3> QED
      BY <3>3 DEF Sleepers
  <2>2. thr[u].pc = "P" /\ thr[u].newp = r
    BY DEF IInv, SleepersWait
  <2> QED
    BY <2>1, <2>2
<1>3. NoUnitYet'
  <2> SUFFICES ASSUME NEW u \in Threads, thr'[u].pc \in {"as_copy", "thread_fork"},
                      proc'[thr'[u].newp].sem # NULL
               PROVE  proc'[thr'[u].newp].sem.count = 0
    BY DEF NoUnitYet
  <2>1. CASE thr'[u].newp = p
    BY <2>1
  <2>2. CASE thr'[u].newp # p
    <3>1. u # t
      BY <2>2 DEF Holds, Holding
    <3>2. thr[u].newp \in Procs \ {p}
      BY <2>2, <3>1, Records DEF IInv, Holds, Holding
    <3> QED
      BY <3>1, <3>2 DEF IInv, NoUnitYet
  <2> QED
    BY <2>1, <2>2
<1>4. SemThere'
  BY DEF IInv, SemThere
<1> QED
  BY <1>1, <1>2, <1>3, <1>4

\* The step of t leaves the statuses alone.
StatusesKept(t) ==
    /\ \A r \in Procs : proc'[r] # NULL =>
        /\ proc[r] # NULL
        /\ proc'[r].status = proc[r].status /\ proc'[r].arg = proc[r].arg
    /\ \A u \in Threads \ {t} : /\ thr'[u].pc = thr[u].pc /\ thr'[u].newp = thr[u].newp
                                 /\ thr'[u].got = thr[u].got
    /\ \/ thr'[t].got = 0
       \/ /\ thr'[t].pc \in {"proc_destroy", "sem_destroy"}
          /\ thr'[t].got = proc'[thr'[t].newp].status

\* Then the statuses stay right.
LEMMA SameStatuses ==
    ASSUME IInv, HeldLive', NEW t \in Threads, StatusesKept(t)
    PROVE  StatusKept' /\ GotStatus'
<1> USE DEF StatusesKept
<1>1. StatusKept'
  BY DEF IInv, StatusKept
<1>2. GotStatus'
  <2> SUFFICES ASSUME NEW u \in Threads \ {t}, thr'[u].got # 0
               PROVE  /\ thr'[u].pc \in {"proc_destroy", "sem_destroy"}
                      /\ thr'[u].got = proc'[thr'[u].newp].status
    BY DEF GotStatus
  <2>1. thr[u].pc \in {"proc_destroy", "sem_destroy"} /\ thr[u].got = proc[thr[u].newp].status
    BY DEF IInv, GotStatus
  <2>2. thr[u].newp \in Procs /\ proc'[thr[u].newp] # NULL
    BY <2>1, Records DEF IInv, HeldLive, Holds, Holding
  <2> QED
    BY <2>1, <2>2
<1> QED
  BY <1>1, <1>2

\* Only a thread that is about to destroy a process has a status.
LEMMA NothingGot ==
    ASSUME IInv, NEW t \in Threads, thr[t].pc \notin {"proc_destroy", "sem_destroy"}
    PROVE  thr[t].got = 0
BY DEF IInv, GotStatus

-----------------------------------------------------------------------------
(* The steps preserve the invariant *)

\* A failed assertion stops the kernel where it is.
LEMMA PanicStep ==
    ASSUME IInv, UNCHANGED <<table, last_i, proc, thr>>
    PROVE  IInv'
<1>1. \A u \in Threads : Runs(u)' = Runs(u) /\ (Holds(u)' <=> Holds(u))
  BY DEF Runs, Holds
<1>a. TypeOK'
  BY <1>1 DEF IInv, TypeOK
<1>b. SlotsFilled' /\ Named' /\ Withdrawn' /\ KernelStays'
  BY DEF IInv, SlotsFilled, Named, Withdrawn, KernelStays
<1>c. RunsInLive' /\ OneRunner' /\ ThreadCounted'
  BY <1>1 DEF IInv, RunsInLive, OneRunner, ThreadCounted
<1>d. HeldLive' /\ OneHolder' /\ KidsLive' /\ OneParent' /\ KidsUnheld' /\ NobodyRuns'
  BY <1>1 DEF IInv, HeldLive, OneHolder, KidsLive, OneParent, KidsUnheld, NobodyRuns
<1>e. UnitAtEnd' /\ SleepersWait' /\ NoUnitYet' /\ SemThere'
  BY <1>1 DEF IInv, UnitAtEnd, SleepersWait, NoUnitYet, SemThere
<1>f. StatusKept' /\ GotStatus'
  BY DEF IInv, StatusKept, GotStatus
<1> QED
  BY <1>a, <1>b, <1>c, <1>d, <1>e, <1>f DEF IInv

\* The kernel starts with one process and the thread of the menu.
LEMMA InitStep == Init => IInv
<1> SUFFICES ASSUME Init PROVE IInv
  OBVIOUS
<1> USE ProcTableAssumption
<1> DEFINE k == [NewProc(1) EXCEPT !.numthreads = 1, !.sem = sem_create(0)]
           m == [NoThread EXCEPT !.pc = "menu", !.proc = kproc]
<1>a. proc = [p \in Procs |-> IF p = kproc THEN k ELSE NULL]
  BY DEF Init
<1>b. thr = [t \in Threads |-> IF t = Menu THEN m ELSE NoThread]
  BY DEF Init
<1>c. sem_create(0) \in Semaphores /\ sem_create(0).count = 0 /\ sem_create(0).wchan = <<>>
  BY DEF Semaphores, sem_create, wchan_create
<1>d. /\ k \in Structures /\ k # NULL
      /\ k.pid = 1 /\ k.numthreads = 1 /\ k.status = 0 /\ k.arg = 0 /\ k.sem = sem_create(0)
  <2>1. k.pid = 1 /\ k.numthreads = 1 /\ k.status = 0 /\ k.arg = 0 /\ k.sem = sem_create(0)
    BY DEF NewProc
  <2>2. NewProc(1) \in Structures
    BY DEF NewProc, Structures
  <2>3. \A s \in Semaphores : [NewProc(1) EXCEPT !.numthreads = 1, !.sem = s] \in Structures
    BY <2>2 DEF Structures
  <2> QED
    BY <1>c, <2>1, <2>3
<1>e. /\ m \in ThreadRecords /\ m.pc = "menu" /\ m.proc = kproc /\ m.newp = NULL
      /\ m.kids = {} /\ m.got = 0
      /\ NoThread \in ThreadRecords /\ NoThread.pc = "none" /\ NoThread.proc = NULL
      /\ NoThread.newp = NULL /\ NoThread.kids = {} /\ NoThread.got = 0
  BY DEF ThreadRecords, NoThread, Places, Outside
<1> HIDE DEF k, m
<1>f. /\ table \in [Pids -> Procs \cup {NULL}] /\ last_i = 1
      /\ \A i \in Pids : table[i] = IF i = 1 THEN kproc ELSE NULL
  BY DEF Init
<1>1. TypeOK
  <2>1. thr \in [Threads -> ThreadRecords]
    BY <1>b, <1>e
  <2>2. proc \in [Procs -> Structures \cup {NULL}]
    BY <1>a, <1>d
  <2> QED
    BY <1>b, <1>e, <1>f, <2>1, <2>2 DEF TypeOK, Holds, Holding, Outside
<1>2. SlotsFilled /\ Named /\ Withdrawn /\ KernelStays
  BY <1>a, <1>b, <1>d, <1>e, <1>f DEF SlotsFilled, Named, Withdrawn, KernelStays
<1>3. RunsInLive /\ OneRunner /\ ThreadCounted
  <2>1. RunsInLive /\ OneRunner
    BY <1>a, <1>b, <1>d, <1>e DEF RunsInLive, OneRunner, Runs
  <2>2. ThreadCounted
    BY <1>a, <1>b, <1>d, <1>e DEF ThreadCounted
  <2> QED
    BY <2>1, <2>2
<1>4. HeldLive /\ OneHolder /\ KidsLive /\ OneParent /\ KidsUnheld /\ NobodyRuns
  BY <1>b, <1>e DEF HeldLive, OneHolder, KidsLive, OneParent, KidsUnheld,
                    NobodyRuns, Holds, Holding, Alone
<1>5. UnitAtEnd /\ SleepersWait /\ NoUnitYet /\ SemThere
  <2>1. \A p \in Procs : proc[p] # NULL => p = kproc /\ proc[p].sem = sem_create(0)
    BY <1>a, <1>d
  <2>2. UnitAtEnd /\ SleepersWait
    BY <2>1, <1>c DEF UnitAtEnd, SleepersWait, Sleepers
  <2>3. NoUnitYet /\ SemThere
    BY <2>1, <1>b, <1>c, <1>e DEF NoUnitYet, SemThere
  <2> QED
    BY <2>2, <2>3
<1>6. StatusKept /\ GotStatus
  BY <1>a, <1>b, <1>d, <1>e DEF StatusKept, GotStatus
<1> QED
  BY <1>1, <1>2, <1>3, <1>4, <1>5, <1>6 DEF IInv

\* The slot that the search finds is a free one.
FoundFree == FreeIndices # {} => FreeIndex \in Pids /\ table[FreeIndex] = NULL

\* proc_create takes a free slot and a structure that nobody knows.
LEMMA CreateStep ==
    ASSUME IInv, NEW t \in Threads, proc_create(t), FoundFree
    PROVE  IInv'
<1>1. thr[t].pc \in {"menu", "user"}
  BY DEF proc_create, At, Home
<1>2. PICK p \in Procs :
        /\ proc[p] = NULL
        /\ IF FreeIndices = {} THEN Panic("proc table is full")
           ELSE /\ table' = [table EXCEPT ![FreeIndex] = p]
                /\ last_i' = FreeIndex
                /\ proc' = [proc EXCEPT ![p] = NewProc(FreeIndex)]
                /\ thr' = [thr EXCEPT ![t].pc = "sem_create", ![t].newp = p]
                /\ UNCHANGED panic
  BY DEF proc_create
<1>3. CASE FreeIndices = {}
  BY <1>2, <1>3, PanicStep DEF Panic
<1>4. CASE FreeIndices # {}
  <2> DEFINE i == FreeIndex
             x == NewProc(i)
  <2>1. i \in Pids /\ table[i] = NULL
    BY <1>4 DEF FoundFree
  <2>2. /\ table' = [table EXCEPT ![i] = p] /\ last_i' = i
        /\ proc' = [proc EXCEPT ![p] = x]
        /\ thr' = [thr EXCEPT ![t].pc = "sem_create", ![t].newp = p]
    BY <1>2, <1>4
  <2> HIDE DEF i
  <2>3. /\ x \in Structures /\ x # NULL /\ x.pid = i /\ x.status = 0 /\ x.numthreads = 0
        /\ x.sem = NULL /\ x.arg = 0
    <3>1. x \in Structures
      BY <2>1 DEF NewProc, Structures
    <3>2. x.pid = i /\ x.status = 0 /\ x.numthreads = 0 /\ x.sem = NULL /\ x.arg = 0
      BY DEF NewProc
    <3> QED
      BY <3>1, <3>2, ProcTableAssumption
  <2> HIDE DEF x
  <2>p. proc[p] = NULL
    BY <1>2
  <2>4. /\ table' \in [Pids -> Procs \cup {NULL}] /\ last_i' \in Pids
        /\ \A j \in Pids \ {i} : table'[j] = table[j]
        /\ table'[i] = p
    BY <2>1, <2>2 DEF IInv, TypeOK
  <2>5. /\ proc' \in [Procs -> Structures \cup {NULL}]
        /\ \A r \in Procs \ {p} : proc'[r] = proc[r]
        /\ proc'[p] = x
    BY <2>2, <2>3 DEF IInv, TypeOK
  <2>6. /\ thr' \in [Threads -> ThreadRecords]
        /\ \A u \in Threads \ {t} : thr'[u] = thr[u]
        /\ thr'[t].pc = "sem_create" /\ thr'[t].proc = thr[t].proc /\ thr'[t].newp = p
        /\ thr'[t].kids = thr[t].kids /\ thr'[t].got = thr[t].got
    <3>1. thr \in [Threads -> ThreadRecords] /\ "sem_create" \in Places
      BY DEF IInv, TypeOK, Places, Holding
    <3> QED
      BY <2>2, <3>1 DEF ThreadRecords
  <2>7. /\ \A u \in Threads : Runs(u)' = Runs(u)
        /\ \A u \in Threads \ {t} : Holds(u)' <=> Holds(u)
        /\ Holds(t)' /\ ~Holds(t) /\ thr[t].got = 0
    BY <1>1, <2>6, NothingGot DEF Runs, Holds, Holding
  <2>8. /\ p # kproc
        /\ \A u \in Threads : Holds(u) => thr[u].newp # p
        /\ \A u \in Threads : Runs(u) # p
        /\ \A j \in Pids : table[j] # p
        /\ \A u \in Threads : \A j \in thr[u].kids : j \in Pids /\ j # i
    <3>1. \A u \in Threads : thr[u].kids \subseteq Pids
      BY Records DEF IInv, ThreadRecords
    <3>2. \A u \in Threads : i \notin thr[u].kids
      BY <2>1 DEF IInv, KidsLive
    <3>3. \A j \in Pids : table[j] # p
      BY <2>p, ProcTableAssumption DEF IInv, SlotsFilled
    <3>4. \A u \in Threads : Runs(u) # p
      BY <2>p, ProcTableAssumption DEF IInv, RunsInLive
    <3> QED
      BY <2>p, <3>1, <3>2, <3>3, <3>4 DEF IInv, KernelStays, HeldLive
  <2>9. /\ \A u \in Threads : Runs(u) \in Procs \cup {NULL}
        /\ \A u \in Threads : Holds(u) => thr[u].newp \in Procs
        /\ \A j \in Pids : table[j] \in Procs \cup {NULL}
        /\ \A r \in Procs : proc[r] # NULL => proc[r].pid \in Pids
    BY RunsInProc, Records DEF IInv, TypeOK, Structures
  <2>a. TypeOK'
    BY <1>1, <2>4, <2>5, <2>6, ProcTableAssumption DEF IInv, TypeOK, Holds, Holding, Outside
  <2>b. SlotsFilled'
    <3> SUFFICES ASSUME NEW j \in Pids, table'[j] # NULL
                 PROVE  proc'[table'[j]] # NULL /\ proc'[table'[j]].pid = j
      BY DEF SlotsFilled
    <3>1. CASE j = i
      BY <2>3, <2>4, <2>5, <3>1
    <3>2. CASE j # i
      BY <2>4, <2>5, <2>8, <2>9, <3>2 DEF IInv, SlotsFilled
    <3> QED
      BY <3>1, <3>2
  <2>c. Named'
    <3> SUFFICES ASSUME NEW r \in Procs, proc'[r] # NULL, table'[proc'[r].pid] # r
                 PROVE  \E u \in Threads : thr'[u].pc = "sem_destroy" /\ thr'[u].newp = r
      BY DEF Named
    <3>1. r # p
      BY <2>3, <2>4, <2>5
    <3>2. proc'[r] = proc[r]
      BY <2>5, <3>1
    <3>3. table[proc[r].pid] # r
      BY <2>1, <2>4, <2>9, <3>2, ProcTableAssumption
    <3>4. PICK u \in Threads : thr[u].pc = "sem_destroy" /\ thr[u].newp = r
      BY <3>2, <3>3 DEF IInv, Named
    <3> QED
      BY <1>1, <2>6, <3>4
  <2>d. Withdrawn'
    <3> SUFFICES ASSUME NEW u \in Threads, thr'[u].pc = "sem_destroy"
                 PROVE  table'[proc'[thr'[u].newp].pid] # thr'[u].newp
      BY DEF Withdrawn
    <3>1. thr'[u] = thr[u] /\ Holds(u)
      BY <2>6 DEF Holds, Holding
    <3>2. /\ thr[u].newp \in Procs \ {p} /\ proc[thr[u].newp] # NULL
          /\ proc[thr[u].newp].pid \in Pids
      BY <2>8, <2>9, <3>1 DEF IInv, HeldLive
    <3>3. table[proc[thr[u].newp].pid] # thr[u].newp
      BY <3>1 DEF IInv, Withdrawn
    <3> QED
      BY <2>4, <2>5, <3>1, <3>2, <3>3
  <2>e. KernelStays'
    BY <2>5, <2>8, ProcTableAssumption DEF IInv, KernelStays
  <2>f. RunsInLive' /\ OneRunner'
    <3>1. \A u \in Threads : Runs(u) # NULL => proc'[Runs(u)] = proc[Runs(u)]
      BY <2>5, <2>8, <2>9
    <3> QED
      BY <2>7, <3>1 DEF IInv, RunsInLive, OneRunner
  <2>g. ThreadCounted'
    <3>1. \A u \in Threads : thr'[u].proc = thr[u].proc /\ thr[u].proc # p
      BY <2>6, <2>8, RunsInProc, ProcTableAssumption DEF IInv
    <3> QED
      BY <2>3, <2>5, <3>1 DEF IInv, ThreadCounted
  <2>h. HeldLive' /\ OneHolder'
    <3>1. \A u \in Threads : thr'[u].newp = IF u = t THEN p ELSE thr[u].newp
      BY <2>6
    <3>2. \A u \in Threads : Holds(u) => proc'[thr[u].newp] = proc[thr[u].newp]
      BY <2>5, <2>8, <2>9
    <3>3. HeldLive'
      BY <2>3, <2>5, <2>7, <2>8, <3>1, <3>2 DEF IInv, HeldLive
    <3>4. OneHolder'
      BY <2>7, <2>8, <3>1 DEF IInv, OneHolder
    <3> QED
      BY <3>3, <3>4
  <2>i. KidsLive' /\ OneParent' /\ KidsUnheld'
    <3>1. \A u \in Threads : thr'[u].kids = thr[u].kids
      BY <2>6
    <3>2. \A u \in Threads : \A j \in thr[u].kids : table'[j] = table[j] /\ table[j] # p
      BY <2>4, <2>8
    <3>3. KidsLive' /\ OneParent'
      BY <3>1, <3>2 DEF IInv, KidsLive, OneParent
    <3>4. \A u \in Threads : thr'[u].newp = IF u = t THEN p ELSE thr[u].newp
      BY <2>6
    <3>5. KidsUnheld'
      BY <2>7, <3>1, <3>2, <3>4 DEF IInv, KidsUnheld
    <3> QED
      BY <3>3, <3>5
  <2>j. NobodyRuns'
    BY <2>6, <2>7, <2>8 DEF IInv, NobodyRuns
  <2>k. UnitAtEnd' /\ SleepersWait' /\ NoUnitYet' /\ SemThere'
    <3>1. UnitAtEnd'
      BY <2>3, <2>5, <2>7 DEF IInv, UnitAtEnd
    <3>2. SleepersWait'
      <4> SUFFICES ASSUME NEW r \in Procs \ {p}, proc[r] # NULL, proc[r].sem # NULL,
                          NEW u \in Sleepers(proc[r].sem.wchan)
                   PROVE  thr'[u].pc = "P" /\ thr'[u].newp = r
        BY <2>3, <2>5 DEF SleepersWait
      <4>1. thr[u].pc = "P" /\ thr[u].newp = r
        BY DEF IInv, SleepersWait
      <4>2. u \in Threads
        <5>1. proc[r].sem \in Semaphores
          BY Records DEF IInv, Structures
        <5>2. proc[r].sem.wchan \in Seq(Threads)
          BY <5>1 DEF Semaphores
        <5> QED
          BY <5>2 DEF Sleepers
      <4> QED
        BY <1>1, <2>6, <4>1, <4>2
    <3>3. NoUnitYet'
      <4> SUFFICES ASSUME NEW u \in Threads, thr'[u].pc \in {"as_copy", "thread_fork"},
                          proc'[thr'[u].newp].sem # NULL
                   PROVE  proc'[thr'[u].newp].sem.count = 0
        BY DEF NoUnitYet
      <4>1. thr'[u] = thr[u] /\ Holds(u)
        BY <2>6 DEF Holds, Holding
      <4>2. thr[u].newp \in Procs \ {p}
        BY <2>8, <2>9, <4>1
      <4> QED
        BY <2>5, <4>1, <4>2 DEF IInv, NoUnitYet
    <3>4. SemThere'
      BY <1>1, <2>5, <2>6 DEF IInv, SemThere
    <3> QED
      BY <3>1, <3>2, <3>3, <3>4
  <2>l. StatusKept'
    BY <2>3, <2>5 DEF IInv, StatusKept
  <2>m. GotStatus'
    <3> SUFFICES ASSUME NEW u \in Threads, thr'[u].got # 0
                 PROVE  /\ thr'[u].pc \in {"proc_destroy", "sem_destroy"}
                        /\ thr'[u].got = proc'[thr'[u].newp].status
      BY DEF GotStatus
    <3>1. thr'[u] = thr[u]
      BY <2>6, <2>7
    <3>2. /\ thr[u].pc \in {"proc_destroy", "sem_destroy"}
          /\ thr[u].got = proc[thr[u].newp].status
      BY <3>1 DEF IInv, GotStatus
    <3>3. thr[u].newp \in Procs \ {p}
      BY <2>8, <2>9, <3>2 DEF Holds, Holding
    <3> QED
      BY <2>5, <3>1, <3>2, <3>3
  <2> QED
    BY <2>a, <2>b, <2>c, <2>d, <2>e, <2>f, <2>g, <2>h, <2>i, <2>j, <2>k, <2>l, <2>m DEF IInv
<1> QED
  BY <1>3, <1>4

\* proc_init_waitpid gives the new process its semaphore, or fails to.
LEMMA InitWaitpidStep ==
    ASSUME IInv, NEW t \in Threads, proc_init_waitpid(t)
    PROVE  IInv'
<1> DEFINE p == thr[t].newp
           q == IF t = Menu THEN "thread_fork" ELSE "as_copy"
<1>1. thr[t].pc = "sem_create" /\ table' = table /\ last_i' = last_i /\ Goto(t, q)
  BY DEF proc_init_waitpid, At
<1>2. p \in Procs /\ thr[t].got = 0 /\ proc[p] # NULL
  BY <1>1, Records, NothingGot DEF IInv, Holds, Holding, HeldLive
<1>3. PICK s \in Semaphores \cup {NULL} :
        /\ s # NULL => s.count = 0 /\ s.wchan = <<>>
        /\ ~SemFails => s # NULL
        /\ StoresSem(p, s)
  <2>1. sem_create(0) \in Semaphores /\ sem_create(0).count = 0 /\ sem_create(0).wchan = <<>>
    BY DEF Semaphores, sem_create, wchan_create
  <2> QED
    BY <2>1, ProcTableAssumption DEF proc_init_waitpid, StoresSem
<1>4. /\ proc' \in [Procs -> Structures \cup {NULL}]
      /\ \A r \in Procs \ {p} : proc'[r] = proc[r]
      /\ proc'[p] # NULL
      /\ proc'[p].pid = proc[p].pid /\ proc'[p].status = proc[p].status
      /\ proc'[p].numthreads = proc[p].numthreads /\ proc'[p].arg = proc[p].arg
      /\ proc'[p].sem = s
  BY <1>2, <1>3, SemStored DEF IInv
<1>5. q \in {"thread_fork", "as_copy"} /\ q \in Places /\ q \in Holding
  BY DEF Places, Holding
<1>6. /\ thr' \in [Threads -> ThreadRecords]
      /\ \A u \in Threads \ {t} : thr'[u] = thr[u]
      /\ thr'[t].pc = q /\ thr'[t].proc = thr[t].proc /\ thr'[t].newp = p
      /\ thr'[t].kids = thr[t].kids /\ thr'[t].got = 0
  BY <1>1, <1>2, <1>5, Moved DEF IInv
<1> HIDE DEF q
<1>7. \A u \in Threads : Runs(u)' = Runs(u) /\ (Holds(u)' <=> Holds(u))
  BY <1>1, <1>5, <1>6 DEF Runs, Holds, Holding
<1>a. TypeOK'
  <2>1. (thr[t].newp # NULL) /\ (thr[t].proc # NULL <=> thr[t].pc \notin Outside)
    BY <1>1 DEF IInv, TypeOK, Holds, Holding
  <2>2. q \notin Outside /\ thr[t].pc \notin Outside
    BY <1>1, <1>5 DEF Outside
  <2>3. Placed(t)'
    BY <1>5, <1>6, <2>1, <2>2 DEF Placed, Holds
  <2> QED
    BY <1>1, <1>4, <1>6, <2>3, StillTyped DEF IInv
<1>b. /\ SlotsFilled' /\ Named' /\ Withdrawn' /\ KernelStays'
      /\ RunsInLive' /\ OneRunner'
      /\ HeldLive' /\ OneHolder' /\ KidsLive' /\ OneParent' /\ KidsUnheld' /\ NobodyRuns'
  <2>1. thr[t].pc \in Alone
    BY <1>1 DEF Alone, Holding
  <2>k. OwnersKept
    BY <1>1, <1>2, <1>4, <1>5, <1>6, <1>7, <2>1 DEF OwnersKept
  <2> QED
    BY <1>a, <2>k, NoNewOwners
<1>c. ThreadCounted'
  <2>k. CountsKept
    BY <1>2, <1>4, <1>6 DEF CountsKept
  <2> QED
    BY <2>k, SameCounts DEF IInv
<1>d. UnitAtEnd' /\ SleepersWait' /\ NoUnitYet' /\ SemThere'
  <2>1. s # NULL => s.count = 0 /\ Sleepers(s.wchan) = {}
    BY <1>3 DEF Sleepers
  <2>2. /\ proc'[p].sem # NULL => proc'[p].sem.count = 0 /\ Sleepers(proc'[p].sem.wchan) = {}
        /\ ~SemFails => proc'[p].sem # NULL
    BY <1>3, <1>4, <2>1
  <2>3. /\ \A r \in Procs \ {p} : proc'[r] = proc[r]
        /\ \A u \in Threads : Runs(u)' \in {Runs(u), NULL}
        /\ \A u \in Threads \ {t} : thr'[u].pc = thr[u].pc /\ thr'[u].newp = thr[u].newp
        /\ thr[t].newp = p /\ thr'[t].newp = p
    BY <1>4, <1>6, <1>7
  <2> HIDE DEF p
  <2>k. SemStep(t, p)
    BY <2>2, <2>3 DEF SemStep
  <2> QED
    BY <1>2, <1>a, <1>b, <2>k, OneSem
<1>e. StatusKept' /\ GotStatus'
  <2>k. StatusesKept(t)
    BY <1>2, <1>4, <1>6 DEF StatusesKept
  <2> QED
    BY <1>b, <2>k, SameStatuses
<1> QED
  BY <1>a, <1>b, <1>c, <1>d, <1>e DEF IInv

\* as_copy changes nothing but where the thread goes on.
LEMMA CopyProcessStep ==
    ASSUME IInv, NEW t \in Threads, CopyProcess(t)
    PROVE  IInv'
<1>1. thr[t].pc = "as_copy" /\ table' = table /\ last_i' = last_i /\ proc' = proc
  BY DEF CopyProcess, At
<1>2. PICK q \in {"thread_fork", "proc_destroy"} : Goto(t, q)
  BY DEF CopyProcess
<1>3. q \in Places /\ q \in Holding
  BY DEF Places, Holding
<1>4. /\ thr' \in [Threads -> ThreadRecords]
      /\ \A u \in Threads \ {t} : thr'[u] = thr[u]
      /\ thr'[t].pc = q /\ thr'[t].proc = thr[t].proc /\ thr'[t].newp = thr[t].newp
      /\ thr'[t].kids = thr[t].kids /\ thr'[t].got = thr[t].got
  BY <1>2, <1>3, Moved DEF IInv
<1>5. \A u \in Threads : Runs(u)' = Runs(u) /\ (Holds(u)' <=> Holds(u))
  BY <1>1, <1>3, <1>4 DEF Runs, Holds, Holding
<1>a. TypeOK'
  BY <1>1, <1>3, <1>4 DEF IInv, TypeOK, Holds, Holding, Outside
<1>b. /\ SlotsFilled' /\ Named' /\ Withdrawn' /\ KernelStays'
      /\ RunsInLive' /\ OneRunner'
      /\ HeldLive' /\ OneHolder' /\ KidsLive' /\ OneParent' /\ KidsUnheld' /\ NobodyRuns'
  <2>1. thr[t].pc \in Alone
    BY <1>1 DEF Alone, Holding
  <2>k. OwnersKept
    BY <1>1, <1>4, <1>5, <2>1 DEF OwnersKept
  <2> QED
    BY <1>a, <2>k, NoNewOwners
<1>c. ThreadCounted'
  BY <1>1, <1>4 DEF IInv, ThreadCounted
<1>d. UnitAtEnd' /\ SleepersWait' /\ NoUnitYet' /\ SemThere'
  <2>k. SemsKept(t)
    BY <1>1, <1>4, <1>5 DEF SemsKept
  <2> QED
    BY <1>a, <1>b, <2>k, SameSems
<1>e. StatusKept' /\ GotStatus'
  <2>1. thr[t].got = 0
    BY <1>1, NothingGot
  <2>k. StatusesKept(t)
    BY <1>1, <1>4, <2>1 DEF StatusesKept
  <2> QED
    BY <1>b, <2>k, SameStatuses
<1> QED
  BY <1>a, <1>b, <1>c, <1>d, <1>e DEF IInv

\* thread_fork: the new thread is the only one that runs in the new process.
LEMMA ForkThreadStep ==
    ASSUME IInv, NEW t \in Threads, ForkThread(t)
    PROVE  IInv'
<1> DEFINE p == thr[t].newp
<1>1. thr[t].pc = "thread_fork" /\ table' = table /\ last_i' = last_i
  BY DEF ForkThread, At
<1>2. /\ p \in Procs /\ proc[p] # NULL /\ p # kproc /\ Holds(t) /\ thr[t].got = 0
      /\ \A u \in Threads : Runs(u) # p
  BY <1>1, Records, NothingGot
     DEF IInv, Holds, Holding, HeldLive, NobodyRuns, Alone
<1>3. CASE Goto(t, "proc_destroy") /\ UNCHANGED proc
  <2>1. /\ thr' \in [Threads -> ThreadRecords]
        /\ \A u \in Threads \ {t} : thr'[u] = thr[u]
        /\ thr'[t].pc = "proc_destroy" /\ thr'[t].proc = thr[t].proc /\ thr'[t].newp = p
        /\ thr'[t].kids = thr[t].kids /\ thr'[t].got = 0
    BY <1>2, <1>3, Moved DEF IInv, Places, Holding
  <2>2. \A u \in Threads : Runs(u)' = Runs(u) /\ (Holds(u)' <=> Holds(u))
    BY <1>1, <2>1 DEF Runs, Holds, Holding
  <2>3. proc' = proc
    BY <1>3
  <2>a. TypeOK'
    BY <1>1, <2>1, <2>3 DEF IInv, TypeOK, Holds, Holding, Outside
  <2>b. /\ SlotsFilled' /\ Named' /\ Withdrawn' /\ KernelStays'
        /\ RunsInLive' /\ OneRunner'
        /\ HeldLive' /\ OneHolder' /\ KidsLive' /\ OneParent' /\ KidsUnheld' /\ NobodyRuns'
    <3>1. thr[t].pc \in Alone
      BY <1>1 DEF Alone, Holding
    <3>k. OwnersKept
      BY <1>1, <2>1, <2>2, <2>3, <3>1 DEF OwnersKept
    <3> QED
      BY <2>a, <3>k, NoNewOwners
  <2>c. ThreadCounted'
    BY <2>1, <2>3 DEF IInv, ThreadCounted
  <2>d. UnitAtEnd' /\ SleepersWait' /\ NoUnitYet' /\ SemThere'
    <3>k. SemsKept(t)
      BY <1>1, <2>1, <2>2, <2>3 DEF SemsKept
    <3> QED
      BY <2>a, <2>b, <3>k, SameSems
  <2>e. StatusKept' /\ GotStatus'
    <3>k. StatusesKept(t)
      BY <2>1, <2>3 DEF StatusesKept
    <3> QED
      BY <2>b, <3>k, SameStatuses
  <2> QED
    BY <2>a, <2>b, <2>c, <2>d, <2>e DEF IInv
<1>4. ASSUME NEW v \in Threads, thr[v].pc = "none",
             thr' = [thr EXCEPT ![v] = [NoThread EXCEPT
                                    !.pc = IF t = Menu THEN "runprogram" ELSE "user",
                                    !.proc = p],
                                ![t].pc = IF t = Menu THEN "P" ELSE "fork_return"],
             proc' = [proc EXCEPT ![p].numthreads = @ + 1]
      PROVE  IInv'
  <2>1. v # t /\ proc[p].numthreads = 0
    <3>1. \A u \in Threads : thr[u].proc # p
      BY <1>2, RunsInProc, ProcTableAssumption DEF IInv
    <3> QED
      BY <1>1, <1>2, <1>4, <3>1 DEF IInv, ThreadCounted
  <2>2. /\ proc' \in [Procs -> Structures \cup {NULL}]
        /\ \A r \in Procs \ {p} : proc'[r] = proc[r]
        /\ proc'[p] # NULL
        /\ proc'[p].pid = proc[p].pid /\ proc'[p].status = proc[p].status
        /\ proc'[p].numthreads = 1 /\ proc'[p].arg = proc[p].arg
        /\ proc'[p].sem = proc[p].sem
    <3>1. StoresCount(p, 1)
      BY <1>2, <1>4, <2>1 DEF StoresCount, IInv, TypeOK
    <3> QED
      BY <1>2, <3>1, CountStored DEF IInv
  <2>3. /\ thr' \in [Threads -> ThreadRecords]
        /\ \A u \in Threads \ {t, v} : thr'[u] = thr[u]
        /\ thr'[t].pc \in {"P", "fork_return"} /\ thr'[t].proc = thr[t].proc
        /\ thr'[t].newp = p /\ thr'[t].kids = thr[t].kids /\ thr'[t].got = 0
        /\ thr'[v].pc \in {"runprogram", "user"} /\ thr'[v].proc = p
        /\ thr'[v].newp = NULL /\ thr'[v].kids = {} /\ thr'[v].got = 0
    <3> DEFINE a == IF t = Menu THEN "runprogram" ELSE "user"
               b == IF t = Menu THEN "P" ELSE "fork_return"
               x == [NoThread EXCEPT !.pc = a, !.proc = p]
    <3>1. /\ a \in {"runprogram", "user"} /\ a \in Places
          /\ b \in {"P", "fork_return"} /\ b \in Places
      BY DEF Places, Holding
    <3>2. thr' = [thr EXCEPT ![v] = x, ![t].pc = b]
      BY <1>4
    <3> HIDE DEF a, b
    <3>3. /\ x \in ThreadRecords /\ x.pc = a /\ x.proc = p /\ x.newp = NULL
          /\ x.kids = {} /\ x.got = 0
      BY <1>2, <3>1 DEF NoThread, ThreadRecords
    <3>4. thr \in [Threads -> ThreadRecords]
      BY DEF IInv, TypeOK
    <3> HIDE DEF x
    <3> QED
      BY <1>2, <2>1, <3>1, <3>2, <3>3, <3>4 DEF ThreadRecords
  <2>4. /\ \A u \in Threads \ {v} : Runs(u)' = Runs(u)
        /\ Runs(v)' = p /\ Runs(v) = NULL /\ ~Holds(v) /\ ~Holds(v)'
        /\ \A u \in Threads : Holds(u)' <=> Holds(u)
    BY <1>1, <1>4, <2>1, <2>3 DEF Runs, Holds, Holding, IInv, TypeOK, Outside
  <2>5. \A u \in Threads : Holds(u) => thr'[u].newp = thr[u].newp
    BY <2>3, <2>4
  <2>6. \A u \in Threads : thr'[u].pc = "sem_destroy" <=> thr[u].pc = "sem_destroy"
    BY <1>1, <1>4, <2>3
  <2>7. /\ \A u \in Threads : Runs(u) \in Procs \cup {NULL}
        /\ \A u \in Threads : Holds(u) => thr[u].newp \in Procs
        /\ \A i \in Pids : table[i] \in Procs \cup {NULL}
        /\ \A u \in Threads : thr'[u].kids \subseteq thr[u].kids
    BY <2>3, RunsInProc, Records DEF IInv, TypeOK
  <2>8. \A r \in Procs : /\ proc'[r] # NULL <=> proc[r] # NULL
                         /\ proc[r] # NULL => /\ proc'[r].pid = proc[r].pid
                                              /\ proc'[r].sem = proc[r].sem
    BY <1>2, <2>2
  <2>a. TypeOK'
    <3>1. thr[t].proc # NULL
      BY <1>1 DEF IInv, TypeOK, Outside
    <3>2. thr'[t].pc \notin Outside /\ thr'[v].pc \notin Outside /\ Holds(t)' /\ p # NULL
      BY <1>2, <2>3, ProcTableAssumption DEF Holds, Holding, Outside
    <3>3. /\ thr'[t].newp # NULL <=> Holds(t)' \/ thr'[t].pc = "proc_signal_end"
          /\ thr'[t].proc # NULL <=> thr'[t].pc \notin Outside
      BY <2>3, <3>1, <3>2
    <3>4. /\ thr'[v].newp # NULL <=> Holds(v)' \/ thr'[v].pc = "proc_signal_end"
          /\ thr'[v].proc # NULL <=> thr'[v].pc \notin Outside
      BY <2>3, <2>4, <3>2
    <3>5. \A u \in Threads \ {t, v} :
            /\ thr'[u].newp # NULL <=> Holds(u)' \/ thr'[u].pc = "proc_signal_end"
            /\ thr'[u].proc # NULL <=> thr'[u].pc \notin Outside
      BY <2>3, <2>4 DEF IInv, TypeOK
    <3> QED
      BY <1>1, <2>2, <2>3, <3>3, <3>4, <3>5 DEF IInv, TypeOK
  <2>b. SlotsFilled' /\ KernelStays'
    BY <1>1, <2>7, <2>8, ProcTableAssumption DEF IInv, SlotsFilled, KernelStays
  <2>c. Named' /\ Withdrawn'
    <3>1. \A u \in Threads : thr[u].pc = "sem_destroy" => Holds(u)
      BY DEF Holds, Holding
    <3>2. Named'
      BY <1>1, <2>5, <2>6, <2>8, <3>1 DEF IInv, Named
    <3>3. Withdrawn'
      BY <1>1, <2>5, <2>6, <2>7, <2>8, <3>1 DEF IInv, Withdrawn, HeldLive
    <3> QED
      BY <3>2, <3>3
  <2>e. RunsInLive'
    <3>1. \A u \in Threads \ {v} : Runs(u) # NULL => proc'[Runs(u)] # NULL
      BY <2>7, <2>8 DEF IInv, RunsInLive
    <3>2. proc'[Runs(v)'] # NULL
      BY <2>2, <2>4
    <3>3. \A u \in Threads \ {v} : Runs(u)' # NULL => proc'[Runs(u)'] # NULL
      BY <2>4, <3>1
    <3> QED
      BY <3>2, <3>3 DEF RunsInLive
  <2>f. OneRunner'
    BY <1>2, <2>4 DEF IInv, OneRunner
  <2>g. ThreadCounted'
    <3>1. \A u \in Threads \ {v} : thr'[u].proc = thr[u].proc
      BY <2>3
    <3>2. thr[v].proc = NULL
      BY <1>4 DEF IInv, TypeOK, Outside
    <3> SUFFICES ASSUME NEW r \in Procs, proc'[r] # NULL
                 PROVE  proc'[r].numthreads = IF \E u \in Threads : thr'[u].proc = r THEN 1 ELSE 0
      BY DEF ThreadCounted
    <3>3. CASE r = p
      BY <2>2, <2>3, <3>3
    <3>4. CASE r # p
      <4>1. proc'[r] = proc[r] /\ r # NULL
        BY <2>2, <3>4, ProcTableAssumption
      <4>2. (\E u \in Threads : thr'[u].proc = r) <=> (\E u \in Threads : thr[u].proc = r)
        BY <2>3, <3>1, <3>2, <3>4, <4>1
      <4> QED
        BY <4>1, <4>2 DEF IInv, ThreadCounted
    <3> QED
      BY <3>3, <3>4
  <2>h. HeldLive' /\ OneHolder'
    BY <2>4, <2>5, <2>7, <2>8 DEF IInv, HeldLive, OneHolder
  <2>i. KidsLive' /\ OneParent' /\ KidsUnheld'
    <3>1. KidsLive'
      BY <1>1, <2>7 DEF IInv, KidsLive
    <3>2. OneParent'
      BY <2>7 DEF IInv, OneParent
    <3>3. KidsUnheld'
      BY <1>1, <2>4, <2>5, <2>7 DEF IInv, KidsUnheld
    <3> QED
      BY <3>1, <3>2, <3>3
  <2>j. NobodyRuns'
    <3> SUFFICES ASSUME NEW u \in Threads, thr'[u].pc \in Alone, NEW w \in Threads
                 PROVE  thr'[u].newp # Runs(w)'
      BY DEF NobodyRuns
    <3>1. u # t /\ u # v
      BY <2>3 DEF Alone, Holding
    <3>2. thr'[u] = thr[u] /\ Holds(u)
      BY <2>3, <3>1 DEF Holds, Alone
    <3>3. thr[u].newp # p
      BY <1>2, <3>1, <3>2 DEF IInv, OneHolder
    <3> QED
      BY <2>4, <3>2, <3>3 DEF IInv, NobodyRuns
  <2>k. UnitAtEnd'
    <3>1. proc[p].sem # NULL => proc[p].sem.count = 0
      BY <1>1 DEF IInv, NoUnitYet
    <3>2. UnitAtEnd
      BY DEF IInv
    <3> SUFFICES ASSUME NEW r \in Procs, proc'[r] # NULL, proc'[r].sem # NULL,
                        proc'[r].sem.count > 0, NEW u \in Threads
                 PROVE  Runs(u)' # r
      BY DEF UnitAtEnd
    <3>3. proc[r] # NULL /\ proc[r].sem = proc'[r].sem
      BY <2>8
    <3>4. r # p
      BY <3>1, <3>3
    <3> QED
      BY <2>4, <3>2, <3>3, <3>4 DEF UnitAtEnd
  <2>l. SleepersWait'
    <3> SUFFICES ASSUME NEW r \in Procs, proc[r] # NULL, proc[r].sem # NULL,
                        NEW u \in Sleepers(proc[r].sem.wchan)
                 PROVE  thr'[u].pc = "P" /\ thr'[u].newp = r
      BY <2>8 DEF SleepersWait
    <3>1. thr[u].pc = "P" /\ thr[u].newp = r
      BY DEF IInv, SleepersWait
    <3>2. u \in Threads
      <4>1. proc[r].sem \in Semaphores
        BY Records DEF IInv, Structures
      <4>2. proc[r].sem.wchan \in Seq(Threads)
        BY <4>1 DEF Semaphores
      <4> QED
        BY <4>2 DEF Sleepers
    <3> QED
      BY <1>1, <1>4, <2>3, <3>1, <3>2
  <2>m. NoUnitYet'
    <3> SUFFICES ASSUME NEW u \in Threads, thr'[u].pc \in {"as_copy", "thread_fork"},
                        proc'[thr'[u].newp].sem # NULL
                 PROVE  proc'[thr'[u].newp].sem.count = 0
      BY DEF NoUnitYet
    <3>1. thr'[u] = thr[u] /\ Holds(u)
      BY <2>3 DEF Holds, Holding
    <3>2. thr[u].newp \in Procs /\ proc[thr[u].newp] # NULL
      BY <2>7, <3>1 DEF IInv, HeldLive
    <3> QED
      BY <2>8, <3>1, <3>2 DEF IInv, NoUnitYet
  <2>n. SemThere'
    BY <1>1, <1>4, <2>3, <2>8 DEF IInv, SemThere
  <2>o. StatusKept'
    <3>1. \A r \in Procs : proc'[r] # NULL =>
            proc[r] # NULL /\ proc'[r].status = proc[r].status /\ proc'[r].arg = proc[r].arg
      BY <1>2, <2>2
    <3> QED
      BY <3>1 DEF IInv, StatusKept
  <2>p. GotStatus'
    <3> SUFFICES ASSUME NEW u \in Threads, thr'[u].got # 0
                 PROVE  /\ thr'[u].pc \in {"proc_destroy", "sem_destroy"}
                        /\ thr'[u].got = proc'[thr'[u].newp].status
      BY DEF GotStatus
    <3>1. thr'[u] = thr[u]
      BY <2>3
    <3>2. /\ thr[u].pc \in {"proc_destroy", "sem_destroy"}
          /\ thr[u].got = proc[thr[u].newp].status
      BY <3>1 DEF IInv, GotStatus
    <3>3. thr[u].newp \in Procs
      BY <2>7, <3>2 DEF Holds, Holding
    <3> QED
      BY <2>2, <3>1, <3>2, <3>3
  <2> QED
    BY <2>a, <2>b, <2>c, <2>e, <2>f, <2>g, <2>h, <2>i, <2>j, <2>k, <2>l, <2>m, <2>n, <2>o, <2>p
       DEF IInv
<1> QED
  BY <1>3, <1>4 DEF ForkThread

\* The process that t holds is in its slot, unless t has given the slot back.
LEMMA HeldNamed ==
    ASSUME IInv, NEW t \in Threads, Holds(t), thr[t].pc # "sem_destroy"
    PROVE  /\ thr[t].newp \in Procs /\ proc[thr[t].newp].pid \in Pids
           /\ table[proc[thr[t].newp].pid] = thr[t].newp
<1>1. thr[t].newp \in Procs /\ proc[thr[t].newp] # NULL
  BY Records DEF IInv, HeldLive
<1>2. proc[thr[t].newp].pid \in Pids
  BY <1>1, Records DEF IInv, Structures
<1>3. ~ \E u \in Threads : thr[u].pc = "sem_destroy" /\ thr[u].newp = thr[t].newp
  BY DEF IInv, OneHolder, Holds, Holding
<1> QED
  BY <1>1, <1>2, <1>3 DEF IInv, Named

\* fork returns: its program, and no other, knows the pid of the child.
LEMMA ForkReturnStep ==
    ASSUME IInv, NEW t \in Threads, fork_return(t)
    PROVE  IInv'
<1> DEFINE p == thr[t].newp
           i == proc[p].pid
<1>1. thr[t].pc = "fork_return" /\ table' = table /\ last_i' = last_i /\ proc' = proc
  BY DEF fork_return, At
<1>2. /\ p \in Procs /\ proc[p] # NULL /\ p # kproc /\ thr[t].got = 0 /\ Holds(t)
      /\ i \in Pids /\ table[i] = p
  BY <1>1, Records, NothingGot, HeldNamed DEF IInv, Holds, Holding, HeldLive
<1>3. /\ thr' \in [Threads -> ThreadRecords]
      /\ \A u \in Threads \ {t} : thr'[u] = thr[u]
      /\ thr'[t].pc = "user" /\ thr'[t].proc = thr[t].proc /\ thr'[t].newp = NULL
      /\ thr'[t].kids = thr[t].kids \cup {i} /\ thr'[t].got = 0
  <2>1. thr' = [thr EXCEPT ![t].pc = "user", ![t].newp = NULL, ![t].kids = @ \cup {i}]
    BY DEF fork_return
  <2>2. thr \in [Threads -> ThreadRecords] /\ "user" \in Places
    BY DEF IInv, TypeOK, Places
  <2> DEFINE x == [thr[t] EXCEPT !.pc = "user", !.newp = NULL, !.kids = @ \cup {i}]
  <2> HIDE DEF i, p
  <2>3. /\ x \in ThreadRecords /\ x.pc = "user" /\ x.proc = thr[t].proc /\ x.newp = NULL
        /\ x.kids = thr[t].kids \cup {i} /\ x.got = thr[t].got
    <3>1. thr[t] \in ThreadRecords
      BY <2>2
    <3> QED
      BY <1>2, <2>2, <3>1 DEF ThreadRecords
  <2>4. thr' = [thr EXCEPT ![t] = x]
    BY <2>1, <2>2
  <2> HIDE DEF x
  <2> QED
    BY <1>2, <2>2, <2>3, <2>4
<1> HIDE DEF i
<1>4. /\ \A u \in Threads : Runs(u)' = Runs(u)
      /\ \A u \in Threads \ {t} : Holds(u)' <=> Holds(u)
      /\ ~Holds(t)'
  BY <1>1, <1>3 DEF Runs, Holds, Holding
<1>a. TypeOK'
  <2>1. thr[t].proc # NULL
    BY <1>1 DEF IInv, TypeOK, Outside
  <2>2. "user" \notin Outside
    BY DEF Outside
  <2>3. Placed(t)'
    BY <1>3, <1>4, <2>1, <2>2 DEF Placed
  <2>4. proc' \in [Procs -> Structures \cup {NULL}]
    BY <1>1 DEF IInv, TypeOK
  <2> QED
    BY <1>1, <1>3, <2>3, <2>4, StillTyped DEF IInv
<1>b. SlotsFilled' /\ Named' /\ Withdrawn' /\ KernelStays'
  <2>1. \A u \in Threads : thr'[u].pc = "sem_destroy" => thr'[u] = thr[u]
    BY <1>3
  <2>2. \A u \in Threads : thr[u].pc = "sem_destroy" => thr'[u] = thr[u]
    BY <1>1, <1>3
  <2>3. SlotsFilled' /\ KernelStays'
    BY <1>1 DEF IInv, SlotsFilled, KernelStays
  <2>4. Named' /\ Withdrawn'
    BY <1>1, <2>1, <2>2 DEF IInv, Named, Withdrawn
  <2> QED
    BY <2>3, <2>4
<1>c. RunsInLive' /\ OneRunner'
  BY <1>1, <1>4 DEF IInv, RunsInLive, OneRunner
<1>d. ThreadCounted'
  BY <1>1, <1>3 DEF IInv, ThreadCounted
<1>e. HeldLive' /\ OneHolder'
  BY <1>1, <1>3, <1>4 DEF IInv, HeldLive, OneHolder
<1>f. KidsLive'
  BY <1>1, <1>2, <1>3, ProcTableAssumption DEF IInv, KidsLive
<1>g. OneParent'
  <2>1. \A u \in Threads : i \notin thr[u].kids
    BY <1>2 DEF IInv, KidsUnheld
  <2> QED
    BY <1>3, <2>1 DEF IInv, OneParent
<1>h. KidsUnheld'
  <2>1. \A u \in Threads \ {t} : Holds(u) => thr[u].newp # p
    BY <1>2 DEF IInv, OneHolder
  <2>2. \A u \in Threads : Holds(u)' => u # t /\ Holds(u) /\ thr'[u].newp = thr[u].newp
    BY <1>3, <1>4
  <2>3. \A u \in Threads : thr'[u].kids \subseteq thr[u].kids \cup {i}
    BY <1>3
  <2> QED
    BY <1>1, <1>2, <2>1, <2>2, <2>3 DEF IInv, KidsUnheld
<1>i. NobodyRuns'
  BY <1>3, <1>4 DEF IInv, NobodyRuns, Alone, Holding
<1>j. UnitAtEnd' /\ SleepersWait' /\ NoUnitYet' /\ SemThere'
  <2>k. SemsKept(t)
    BY <1>1, <1>3, <1>4 DEF SemsKept
  <2> QED
    BY <1>a, <1>e, <2>k, SameSems
<1>k. StatusKept' /\ GotStatus'
  <2>k. StatusesKept(t)
    BY <1>1, <1>3 DEF StatusesKept
  <2> QED
    BY <1>e, <2>k, SameStatuses
<1> QED
  BY <1>a, <1>b, <1>c, <1>d, <1>e, <1>f, <1>g, <1>h, <1>i, <1>j, <1>k DEF IInv

=============================================================================
