-------------------------- MODULE ProcTableProofs --------------------------
(***************************************************************************)
(* The theorems about ProcTable.  ProcTableInv and ProcTableSteps show     *)
(* that every step preserves the invariant IInv.                           *)
(***************************************************************************)
EXTENDS ProcTableSteps, FiniteSetTheorems, WellFoundedInduction, TLAPS

USE DEF Pids

\* The search has a nearest free slot when it has any.
LEMMA NearestFree ==
    ASSUME FreeIndices # {}
    PROVE  \E n \in FreeIndices : \A m \in FreeIndices : n <= m
<1> DEFINE R == OpToRel(<, Nat)
<1>1. IsWellFoundedOn(R, Nat)
  BY NatLessThanWellFounded
<1>2. \A n, m \in Nat : m < n => <<m, n>> \in R
  BY DEF OpToRel
<1>3. FreeIndices \subseteq Nat
  BY DEF FreeIndices
<1> HIDE DEF R
<1>4. PICK n \in FreeIndices : \A m \in FreeIndices : ~(<<m, n>> \in R)
  BY <1>1, <1>3, WFMin
<1>5. ASSUME NEW m \in FreeIndices PROVE n <= m
  <2>1. n \in Nat /\ m \in Nat
    BY <1>3
  <2>2. ~(m < n)
    BY <2>1, <1>2, <1>4
  <2> QED
    BY <2>1, <2>2
<1> QED
  BY <1>5

\* The slot that the search finds is a free one.
LEMMA FreeIndexFree ==
    ASSUME TypeOK
    PROVE  FoundFree
<1> SUFFICES ASSUME FreeIndices # {}
             PROVE  FreeIndex \in Pids /\ table[FreeIndex] = NULL
  BY DEF FoundFree
<1>2. \E n \in FreeIndices : \A m \in FreeIndices : n <= m
  BY NearestFree
<1>3. PICK n \in FreeIndices : FreeIndex = CircularIndex(n)
  BY <1>2 DEF FreeIndex
<1>4. table[CircularIndex(n)] = NULL /\ n \in 1 .. (MAX_PROC - 1)
  BY DEF FreeIndices, IsFree
<1>5. CircularIndex(n) \in Pids
  <2>1. last_i \in Nat /\ n \in Nat /\ last_i + n - 1 \in Nat /\ MAX_PROC \in Nat /\ MAX_PROC > 0
    BY <1>4, ProcTableAssumption DEF TypeOK
  <2>2. (last_i + n - 1) % MAX_PROC \in 0 .. MAX_PROC - 1
    BY <2>1
  <2> QED
    BY <2>1, <2>2 DEF CircularIndex
<1> QED
  BY <1>3, <1>4, <1>5

-----------------------------------------------------------------------------
(* The invariant *)

\* Every step preserves the invariant.
LEMMA StepPreserves ==
    ASSUME OwnChildren, IInv, [Next]_vars
    PROVE  IInv'
<1>1. CASE UNCHANGED vars
  BY <1>1, PanicStep DEF vars
<1>2. CASE Next
  <2>1. PICK t \in Threads : KernelStep(t) \/ Call(t)
    BY <1>2 DEF Next
  <2>2. CASE Call(t)
    <3> FoundFree
      BY FreeIndexFree DEF IInv
    <3> QED
      BY <2>2, CreateStep, ExitStep, WaitpidStep DEF Call
  <2>3. CASE KernelStep(t)
    BY <2>3, InitWaitpidStep, CopyProcessStep, ForkThreadStep, ForkReturnStep,
       CmdProgthreadStep, RemthreadStep, SignalEndStep, ThreadExitStep, WaitPStep,
       WaitStatusStep, DestroyStep, FreeStep DEF KernelStep
  <2> QED
    BY <2>1, <2>2, <2>3
<1> QED
  BY <1>1, <1>2

\* The ownership invariant holds as long as programs wait for their own children.
THEOREM Ownership ==
    ASSUME OwnChildren
    PROVE  Spec => []IInv
<1>1. Init => IInv
  BY InitStep
<1>2. IInv /\ [Next]_vars => IInv'
  BY StepPreserves
<1> QED
  BY <1>1, <1>2, PTL DEF Spec

\* proc_create and proc_end_waitpid: a pid names one process from its creation
\* until proc_destroy gives its slot back.
THEOREM PidsName ==
    ASSUME OwnChildren
    PROVE  Spec => []PidNamesProcess
<1>1. IInv => PidNamesProcess
  <2> SUFFICES ASSUME IInv, NEW p \in Live \ Leaving, NEW i \in Pids
               PROVE  table[i] = p <=> proc[p].pid = i
    BY DEF PidNamesProcess
  <2>1. p \in Procs /\ proc[p] # NULL
    BY DEF Live
  <2>2. ~ \E t \in Threads : thr[t].pc = "sem_destroy" /\ thr[t].newp = p
    BY DEF Leaving
  <2>3. table[proc[p].pid] = p
    BY <2>1, <2>2 DEF IInv, Named
  <2>4. table[i] = p => proc[p].pid = i
    BY <2>1, ProcTableAssumption DEF IInv, SlotsFilled
  <2> QED
    BY <2>3, <2>4
<1> QED
  BY <1>1, Ownership, PTL

\* proc_destroy: whoever destroys a process has the only reference to it.
THEOREM DestroyAlone ==
    ASSUME OwnChildren
    PROVE  Spec => []OnlyReference
<1>1. IInv => OnlyReference
  <2> SUFFICES ASSUME IInv, NEW t \in Threads, NEW u \in Threads, u # t,
                      thr[t].pc \in {"proc_destroy", "sem_destroy"}
               PROVE  thr[t].newp # thr[u].proc /\ thr[t].newp # thr[u].newp
    BY DEF OnlyReference
  <2>1. Holds(t) /\ thr[t].pc \in Alone /\ thr[t].newp # NULL
    BY DEF Holds, Holding, Alone, IInv, TypeOK
  <2>2. thr[t].newp # Runs(u)
    BY <2>1 DEF IInv, NobodyRuns
  <2>3. thr[t].newp # thr[u].proc
    BY <2>1, <2>2, RunsInProc DEF IInv
  <2>4. CASE Holds(u)
    BY <2>1, <2>3, <2>4 DEF IInv, OneHolder
  <2>5. CASE ~Holds(u)
    <3>1. thr[u].newp # NULL => thr[u].pc = "proc_signal_end"
      BY <2>5 DEF IInv, TypeOK
    <3> QED
      BY <2>1, <2>2, <2>3, <3>1 DEF Runs
  <2> QED
    BY <2>4, <2>5
<1> QED
  BY <1>1, Ownership, PTL

\* proc_wait: what it returns is what the process passed to _exit, modulo 256.
THEOREM StatusArrives ==
    ASSUME OwnChildren
    PROVE  Spec => []StatusDelivered
<1>1. IInv => StatusDelivered
  <2> SUFFICES ASSUME IInv, NEW t \in Threads, thr[t].got # 0,
                      thr[t].pc \in {"proc_destroy", "sem_destroy"}
               PROVE  thr[t].got = proc[thr[t].newp].arg % 256
    BY DEF StatusDelivered
  <2>1. thr[t].newp \in Procs /\ proc[thr[t].newp] # NULL
    BY Records DEF IInv, HeldLive, Holds, Holding
  <2> QED
    BY <2>1 DEF IInv, GotStatus, StatusKept
<1> QED
  BY <1>1, Ownership, PTL

-----------------------------------------------------------------------------
(* No panic *)

\* What the menu and the programs have to keep to, and the memory there is.
NoSurprises ==
    /\ OwnChildren
    /\ \A kids \in SUBSET Pids : MAX_PROC \notin WaitPids(kids)
    /\ ~SemFails
    /\ IsFiniteSet(Procs) /\ Cardinality(Procs) < MAX_PROC

\* The circular search gets to every slot but the one it starts from.
LEMMA SearchReaches ==
    ASSUME TypeOK, NEW i \in Pids, i # last_i
    PROVE  \E n \in 1 .. (MAX_PROC - 1) : CircularIndex(n) = i
<1>1. /\ last_i \in Nat /\ 1 <= last_i /\ last_i <= MAX_PROC /\ i \in Nat /\ 1 <= i
      /\ i <= MAX_PROC /\ MAX_PROC \in Nat /\ MAX_PROC > 0
  BY ProcTableAssumption DEF TypeOK
<1>2. \A a \in 0 .. MAX_PROC - 1 : a % MAX_PROC = a /\ (a + MAX_PROC) % MAX_PROC = a
  BY <1>1
<1>3. CASE i > last_i
  <2>1. i - last_i \in 1 .. (MAX_PROC - 1) /\ last_i + (i - last_i) - 1 = i - 1
        /\ i - 1 \in 0 .. MAX_PROC - 1
    BY <1>1, <1>3
  <2>2. CircularIndex(i - last_i) = i
    BY <1>1, <1>2, <2>1 DEF CircularIndex
  <2> QED
    BY <2>1, <2>2
<1>4. CASE i < last_i
  <2>1. /\ i - last_i + MAX_PROC \in 1 .. (MAX_PROC - 1)
        /\ last_i + (i - last_i + MAX_PROC) - 1 = (i - 1) + MAX_PROC
        /\ i - 1 \in 0 .. MAX_PROC - 1
    BY <1>1, <1>4
  <2>2. CircularIndex(i - last_i + MAX_PROC) = i
    BY <1>1, <1>2, <2>1 DEF CircularIndex
  <2> QED
    BY <2>1, <2>2
<1> QED
  BY <1>1, <1>3, <1>4

\* While a structure is left, so is a slot.
LEMMA SlotLeft ==
    ASSUME IInv, NoSurprises, NEW p \in Procs, proc[p] = NULL
    PROVE  FreeIndices # {}
<1> DEFINE S == Pids \ {last_i}
           T == Procs \ {p}
           f == [i \in S |-> table[i]]
<1>1. SUFFICES ASSUME \A i \in S : table[i] # NULL PROVE FALSE
  <2>1. SUFFICES ASSUME NEW i \in S, table[i] = NULL PROVE FreeIndices # {}
    BY <1>1
  <2>2. PICK n \in 1 .. (MAX_PROC - 1) : CircularIndex(n) = i
    BY SearchReaches DEF IInv
  <2> QED
    BY <2>1, <2>2 DEF FreeIndices, IsFree
<1>2. IsFiniteSet(S) /\ Cardinality(S) = MAX_PROC - 1
  <2>1. IsFiniteSet(Pids) /\ Cardinality(Pids) = MAX_PROC
    BY FS_Interval, ProcTableAssumption
  <2>2. last_i \in Pids
    BY DEF IInv, TypeOK
  <2> QED
    BY <2>1, <2>2, FS_RemoveElement
<1>3. IsFiniteSet(T) /\ Cardinality(T) = Cardinality(Procs) - 1
  BY FS_RemoveElement DEF NoSurprises
<1>4. f \in [S -> T]
  <2>1. \A i \in S : table[i] \in Procs /\ table[i] # p
    BY <1>1 DEF IInv, TypeOK, SlotsFilled
  <2> QED
    BY <2>1
<1>5. Cardinality(T) < Cardinality(S)
  <2>1. Cardinality(Procs) \in Nat /\ Cardinality(Procs) < MAX_PROC /\ MAX_PROC \in Nat
    BY FS_CardinalityType, ProcTableAssumption DEF NoSurprises
  <2> QED
    BY <1>2, <1>3, <2>1
<1>6. PICK x, y \in S : x # y /\ f[x] = f[y]
  <2> HIDE DEF S, T, f
  <2> QED
    BY <1>2, <1>3, <1>4, <1>5, FS_PigeonHole
<1>7. table[x] = table[y] /\ x \in Pids /\ y \in Pids
  BY <1>6
<1> QED
  BY <1>1, <1>6, <1>7 DEF IInv, SlotsFilled

\* Every process in use has its semaphore, once its creator has made it.
LEMMA SemMade ==
    ASSUME IInv, NoSurprises, NEW p \in Procs, proc[p] # NULL, NEW t \in Threads,
           \/ Holds(t) /\ thr[t].newp = p /\ thr[t].pc # "sem_create"
           \/ Runs(t) = p
    PROVE  proc[p].sem # NULL
<1>1. SUFFICES ASSUME NEW u \in Threads, thr[u].pc = "sem_create", thr[u].newp = p PROVE FALSE
  BY DEF IInv, SemThere, NoSurprises
<1>2. Holds(u) /\ thr[u].pc \in Alone
  BY <1>1 DEF Holds, Holding, Alone
<1> QED
  BY <1>1, <1>2 DEF IInv, OneHolder, NobodyRuns

\* No step finds an assertion false or the table full.
LEMMA NoPanicStep ==
    ASSUME NoSurprises, IInv, [Next]_vars, panic = "no"
    PROVE  panic' = "no"
<1>1. CASE UNCHANGED vars
  BY <1>1 DEF vars
<1>2. CASE Next
  <2>1. PICK t \in Threads : KernelStep(t) \/ Call(t)
    BY <1>2 DEF Next
  <2> DEFINE p == thr[t].newp
  <2>2. Holds(t) => p \in Procs /\ proc[p] # NULL
    BY Records DEF IInv, HeldLive
  <2>3. CASE proc_create(t)
    BY <2>3, SlotLeft DEF proc_create
  <2>4. CASE sys_waitpid(t)
    <3>1. PICK i \in WaitPids(thr[t].kids) :
            \/ i >= MAX_PROC
            \/ table[i] \in {NULL, kproc}
            \/ UNCHANGED panic
      BY <2>4 DEF sys_waitpid
    <3>2. thr[t].kids \in SUBSET Pids
      BY Records DEF IInv, ThreadRecords
    <3>3. i \in thr[t].kids /\ i \in Pids /\ i # MAX_PROC
      BY <3>2 DEF NoSurprises, OwnChildren
    <3>4. ~(i >= MAX_PROC)
      BY <3>3, ProcTableAssumption
    <3>5. table[i] \notin {NULL, kproc}
      BY <3>3 DEF IInv, KidsLive
    <3> QED
      BY <3>1, <3>4, <3>5
  <2>5. CASE proc_signal_end(t)
    <3>1. thr[t].pc = "proc_signal_end"
      BY <2>5 DEF proc_signal_end, At
    <3>2. p \in Procs /\ proc[p] # NULL /\ Runs(t) = p
      BY <3>1, ProcTableAssumption DEF IInv, TypeOK, ThreadRecords, Runs, RunsInLive
    <3>3. proc[p].sem # NULL
      BY <3>2, SemMade
    <3> QED
      BY <2>5, <3>3 DEF proc_signal_end
  <2>6. CASE WaitP(t)
    <3>1. thr[t].pc = "P" /\ Holds(t)
      BY <2>6 DEF WaitP, At, Holds, Holding
    <3>2. proc[p].sem # NULL
      BY <2>2, <3>1, SemMade
    <3> QED
      BY <2>6, <3>2 DEF WaitP
  <2>7. CASE proc_destroy(t)
    <3>1. thr[t].pc = "proc_destroy" /\ Holds(t) /\ thr[t].pc \in Alone
      BY <2>7 DEF proc_destroy, At, Holds, Holding, Alone
    <3>2. \A u \in Threads : thr[u].proc # p
      BY <2>2, <3>1, RunsInProc, ProcTableAssumption DEF IInv, NobodyRuns
    <3>3. proc[p].numthreads = 0
      BY <2>2, <3>1, <3>2 DEF IInv, ThreadCounted
    <3> QED
      BY <2>7, <3>3 DEF proc_destroy
  <2>8. CASE proc_free(t)
    <3>1. thr[t].pc = "sem_destroy" /\ Holds(t)
      BY <2>8 DEF proc_free, At, Holds, Holding
    <3>2. proc[p].sem # NULL
      BY <2>2, <3>1, SemMade
    <3>3. wchan_isempty(proc[p].sem.wchan)
      <4> DEFINE w == proc[p].sem.wchan
      <4>1. w \in Seq(Threads)
        <5>1. proc[p].sem \in Semaphores
          BY <2>2, <3>1, <3>2, Records DEF IInv, Structures
        <5> QED
          BY <5>1 DEF Semaphores
      <4>2. \A u \in Sleepers(w) : u \in Threads /\ thr[u].pc = "P" /\ thr[u].newp = p
        BY <2>2, <3>1, <3>2, <4>1, SleepersAfter DEF IInv, SleepersWait
      <4>3. Sleepers(w) = {}
        BY <3>1, <4>2 DEF IInv, OneHolder, Holds, Holding
      <4> HIDE DEF w
      <4>4. Len(w) = 0
        <5>1. Len(w) \in Nat /\ DOMAIN w = 1 .. Len(w)
          BY <4>1
        <5>2. DOMAIN w = {}
          BY <4>3 DEF Sleepers
        <5>3. 1 \notin 1 .. Len(w)
          BY <5>1, <5>2
        <5> QED
          BY <5>1, <5>3
      <4>5. w = <<>>
        BY <4>1, <4>4
      <4> QED
        BY <4>5 DEF wchan_isempty, w
    <3> QED
      BY <2>8, <3>2, <3>3 DEF proc_free
  <2>9. CASE \/ proc_init_waitpid(t) \/ CopyProcess(t) \/ ForkThread(t) \/ fork_return(t)
             \/ cmd_progthread(t) \/ proc_remthread(t) \/ thread_exit(t)
             \/ proc_wait_status(t) \/ sys__exit(t)
    BY <2>9 DEF proc_init_waitpid, CopyProcess, ForkThread, fork_return, cmd_progthread,
                proc_remthread, thread_exit, proc_wait_status, sys__exit
  <2> QED
    BY <2>1, <2>3, <2>4, <2>5, <2>6, <2>7, <2>8, <2>9 DEF KernelStep, Call
<1> QED
  BY <1>1, <1>2

\* No assertion on the way from fork to waitpid fails and the table is never
\* found full: with fewer structures than slots, memory for every semaphore, and
\* programs that wait for their own children, none of which has the last pid.
THEOREM NeverPanics ==
    ASSUME NoSurprises
    PROVE  Spec => []NoPanic
<1>1. Init => NoPanic
  BY DEF Init, NoPanic
<1>2. IInv /\ NoPanic /\ [Next]_vars => NoPanic'
  BY NoPanicStep DEF NoPanic
<1>3. OwnChildren
  BY DEF NoSurprises
<1>4. Spec => []IInv
  BY <1>3, Ownership
<1> QED
  BY <1>1, <1>2, <1>4, PTL DEF Spec
=============================================================================
