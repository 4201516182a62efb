----------------------------- MODULE Scheduler -----------------------------
(***************************************************************************)
(* Threads on several cpus (kern/thread/thread.c, clock.c): run queues,    *)
(* thread_switch with its idle loop, wake-ups across cpus, zombies, and    *)
(* the migration of threads by the timer interrupt.                        *)
(*                                                                         *)
(* A step is a hold of a run queue lock, or a part of one where the lock   *)
(* stays held in c_runqueue_lock.  A cpu in pc "run" executes its current  *)
(* thread with interrupts on.  A thread that has queued itself stays the   *)
(* current thread, and the cpu stays on its stack, until another one is    *)
(* taken from the run queue.                                               *)
(***************************************************************************)
EXTENDS Naturals, SequencesExt

CONSTANTS
    NumCpus,
    Threads,     \* thread structures; the first NumCpus boot the cpus
    BootThread(_),
    NULL,
    Migrates     \* the timer interrupt looks for threads to migrate

CPUs == 1..NumCpus

SchedulerAssumption ==
    /\ NumCpus \in Nat \ {0}
    /\ \A c \in CPUs : BootThread(c) \in Threads
    /\ \A c, d \in CPUs : c # d => BootThread(c) # BootThread(d)
    /\ NULL \notin Threads \cup CPUs
    /\ Migrates \in BOOLEAN

VARIABLES
    t_state,         \* thread -> "none", "ready", "run", "sleep" or "zombie"
    t_cpu,           \* thread -> the cpu it belongs to
    sleeping,        \* the threads on wait channels
    c_curthread,     \* cpu -> the thread on whose stack it is
    c_isidle,
    c_runqueue,
    c_runqueue_lock, \* cpu -> the cpu that holds the lock, or NULL
    c_zombies,
    c_ipi_pending,   \* cpu -> an IPI_UNIDLE has not been taken yet
    pc,              \* cpu -> where it is
    wakes,           \* cpu -> the thread it is making runnable
    mig              \* cpu -> the locals of thread_consider_migration

thread == <<t_state, t_cpu, sleeping>>
cpu == <<c_curthread, c_isidle, c_runqueue, c_runqueue_lock, c_zombies, c_ipi_pending>>
vars == <<thread, cpu, pc, wakes, mig>>

NoMig == [i |-> 0, total |-> 0, mine |-> 0, share |-> 0, send |-> 0, victims |-> <<>>]

Init ==
    /\ t_state = [t \in Threads |->
                    IF \E c \in CPUs : t = BootThread(c) THEN "run" ELSE "none"]
    /\ t_cpu = [t \in Threads |->
                    IF \E c \in CPUs : t = BootThread(c)
                    THEN CHOOSE c \in CPUs : t = BootThread(c) ELSE NULL]
    /\ sleeping = {}
    /\ c_curthread = [c \in CPUs |-> BootThread(c)]
    /\ c_isidle = [c \in CPUs |-> FALSE]
    /\ c_runqueue = [c \in CPUs |-> <<>>]
    /\ c_runqueue_lock = [c \in CPUs |-> NULL]
    /\ c_zombies = [c \in CPUs |-> {}]
    /\ c_ipi_pending = [c \in CPUs |-> FALSE]
    /\ pc = [c \in CPUs |-> "run"]
    /\ wakes = [c \in CPUs |-> NULL]
    /\ mig = [c \in CPUs |-> NoMig]

Goto(c, place) == pc' = [pc EXCEPT ![c] = place]

IsUnlocked(c) == c_runqueue_lock[c] = NULL

\* In its thread, and not in the middle of a wake-up.
Running(c) == pc[c] = "run" /\ wakes[c] = NULL

-----------------------------------------------------------------------------
(* thread_switch *)

\* Cpu c locks its run queue, puts its thread in the place for newstate and
\* begins to look for another one.
thread_switch(c, newstate) ==
    LET cur == c_curthread[c] IN
    /\ IsUnlocked(c)
    /\ c_runqueue_lock' = [c_runqueue_lock EXCEPT ![c] = c]
    /\ c_runqueue' = [c_runqueue EXCEPT ![c] =
                        IF newstate = "ready" THEN Append(@, cur) ELSE @]
    /\ sleeping' = IF newstate = "sleep" THEN sleeping \cup {cur} ELSE sleeping
    /\ c_zombies' = [c_zombies EXCEPT ![c] = IF newstate = "zombie" THEN @ \cup {cur} ELSE @]
    /\ t_state' = [t_state EXCEPT ![cur] = newstate]
    /\ c_isidle' = [c_isidle EXCEPT ![c] = TRUE]
    /\ Goto(c, "next")
    /\ UNCHANGED <<t_cpu, c_curthread, c_ipi_pending, wakes, mig>>

wchan_sleep(c) == Running(c) /\ thread_switch(c, "sleep")

thread_exit(c) == Running(c) /\ thread_switch(c, "zombie")

\* thread_yield at the end of hardclock; without another thread it returns.
thread_yield(c) ==
    /\ pc[c] = "yield"
    /\ IF c_runqueue[c] # <<>> THEN thread_switch(c, "ready")
       ELSE /\ IsUnlocked(c)
            /\ Goto(c, "run")
            /\ UNCHANGED <<thread, cpu, wakes, mig>>

\* threadlist_remhead: the next thread, or the lock is given up to idle.
NextThread(c) ==
    /\ pc[c] = "next"
    /\ IF c_runqueue[c] = <<>>
       THEN /\ c_runqueue_lock' = [c_runqueue_lock EXCEPT ![c] = NULL]
            /\ Goto(c, "idle")
            /\ UNCHANGED <<c_curthread, c_isidle, c_runqueue>>
       ELSE /\ c_curthread' = [c_curthread EXCEPT ![c] = Head(c_runqueue[c])]
            /\ c_runqueue' = [c_runqueue EXCEPT ![c] = Tail(@)]
            /\ c_isidle' = [c_isidle EXCEPT ![c] = FALSE]
            /\ Goto(c, "switched")
            /\ UNCHANGED c_runqueue_lock
    /\ UNCHANGED <<thread, c_zombies, c_ipi_pending, wakes, mig>>

\* In the next thread, or in thread_startup of a new one.
Switched(c) ==
    /\ pc[c] = "switched"
    /\ t_state' = [t_state EXCEPT ![c_curthread[c]] = "run"]
    /\ c_runqueue_lock' = [c_runqueue_lock EXCEPT ![c] = NULL]
    /\ Goto(c, "exorcise")
    /\ UNCHANGED <<t_cpu, sleeping, c_curthread, c_isidle, c_runqueue, c_zombies,
                   c_ipi_pending, wakes, mig>>

exorcise(c) ==
    /\ pc[c] = "exorcise"
    /\ t_state' = [t \in Threads |-> IF t \in c_zombies[c] THEN "none" ELSE t_state[t]]
    /\ c_zombies' = [c_zombies EXCEPT ![c] = {}]
    /\ Goto(c, "run")
    /\ UNCHANGED <<t_cpu, sleeping, c_curthread, c_isidle, c_runqueue, c_runqueue_lock,
                   c_ipi_pending, wakes, mig>>

\* cpu_idle comes back after an interrupt and the loop locks the queue again.
Unidle(c) ==
    /\ pc[c] = "unidle"
    /\ IsUnlocked(c)
    /\ c_runqueue_lock' = [c_runqueue_lock EXCEPT ![c] = c]
    /\ Goto(c, "next")
    /\ UNCHANGED <<thread, c_curthread, c_isidle, c_runqueue, c_zombies, c_ipi_pending,
                   wakes, mig>>

-----------------------------------------------------------------------------
(* Making threads runnable *)

\* (bug: nobody tells the idle cpu)
Poke_never(target, from) == UNCHANGED c_ipi_pending

\* ipi_send to a target cpu that idles.
Poke(target, from) ==
    c_ipi_pending' = [c_ipi_pending EXCEPT ![target] =
                        @ \/ (c_isidle[target] /\ target # from)]

Enqueue(target, t) == c_runqueue' = [c_runqueue EXCEPT ![target] = Append(@, t)]

thread_fork(c, t) ==
    /\ Running(c)
    /\ t_state[t] = "none"
    /\ IsUnlocked(c)
    /\ t_state' = [t_state EXCEPT ![t] = "ready"]
    /\ t_cpu' = [t_cpu EXCEPT ![t] = t_cpu[c_curthread[c]]]
    /\ Enqueue(c, t)
    /\ UNCHANGED <<sleeping, c_curthread, c_isidle, c_runqueue_lock, c_zombies,
                   c_ipi_pending, pc, wakes, mig>>

\* wchan_wakeone or wchan_wakeall: a thread is taken from its channel, by a
\* running thread or by an interrupt handler, which an idle cpu can be in.
wchan_wake(c) ==
    /\ pc[c] \in {"run", "interrupt"}
    /\ wakes[c] = NULL
    /\ \E t \in sleeping :
        /\ sleeping' = sleeping \ {t}
        /\ wakes' = [wakes EXCEPT ![c] = t]
    /\ UNCHANGED <<t_state, t_cpu, cpu, pc, mig>>

TargetCpu(t, c) == t_cpu[t]

thread_make_runnable(c) ==
    LET t == wakes[c]
        target == TargetCpu(t, c) IN
    /\ t # NULL
    /\ IsUnlocked(target)
    /\ t_state' = [t_state EXCEPT ![t] = "ready"]
    /\ Enqueue(target, t)
    /\ Poke(target, c)
    /\ wakes' = [wakes EXCEPT ![c] = NULL]
    /\ UNCHANGED <<t_cpu, sleeping, c_curthread, c_isidle, c_runqueue_lock, c_zombies,
                   pc, mig>>

-----------------------------------------------------------------------------
(* Interrupts *)

\* A device, the timer or another cpu interrupts cpu c; interrupts are on in
\* "run" and while it idles.  interprocessor_interrupt clears the pending bit.
Interrupt(c) ==
    /\ Running(c) \/ pc[c] = "idle"
    /\ c_ipi_pending' = [c_ipi_pending EXCEPT ![c] = FALSE]
    /\ Goto(c, "interrupt")
    /\ UNCHANGED <<thread, c_curthread, c_isidle, c_runqueue, c_runqueue_lock, c_zombies,
                   wakes, mig>>

\* Where the interrupt handler returns to.
Return(c) == IF c_isidle[c] THEN "unidle" ELSE "run"

InterruptDone(c) ==
    /\ pc[c] = "interrupt"
    /\ wakes[c] = NULL
    /\ Goto(c, Return(c))
    /\ UNCHANGED <<thread, cpu, wakes, mig>>

\* hardclock; thread_yield does nothing on a cpu that idles.
AfterMigration(c) == IF c_isidle[c] THEN "unidle" ELSE "yield"

hardclock(c) ==
    /\ pc[c] = "interrupt"
    /\ wakes[c] = NULL
    /\ Goto(c, IF Migrates THEN "count" ELSE AfterMigration(c))
    /\ mig' = [mig EXCEPT ![c].i = IF Migrates THEN 1 ELSE 0]
    /\ UNCHANGED <<thread, cpu, wakes>>

-----------------------------------------------------------------------------
(* thread_consider_migration *)

DivRoundUp(a, b) == (a + b - 1) \div b

OwnCount(q) == Len(q)

MigrateCount(c) ==
    LET m == mig[c]
        n == Len(c_runqueue[m.i])
        total == m.total + n
        mine == IF m.i = c THEN OwnCount(c_runqueue[c]) ELSE m.mine
        share == DivRoundUp(total, NumCpus) IN
    /\ pc[c] = "count"
    /\ IsUnlocked(m.i)
    /\ IF m.i < NumCpus
       THEN /\ mig' = [mig EXCEPT ![c].i = @ + 1, ![c].total = total, ![c].mine = mine]
            /\ UNCHANGED pc
       ELSE IF mine < share
       THEN /\ mig' = [mig EXCEPT ![c] = NoMig]
            /\ Goto(c, AfterMigration(c))
       ELSE /\ mig' = [mig EXCEPT ![c] = [NoMig EXCEPT !.share = share, !.send = mine - share]]
            /\ Goto(c, "take")
    /\ UNCHANGED <<thread, cpu, wakes>>

\* to_send threads from the tail of the own queue.
MigrateTake(c) ==
    LET rq == c_runqueue[c]
        keep == Len(rq) - mig[c].send IN
    /\ pc[c] = "take"
    /\ IsUnlocked(c)
    /\ c_runqueue' = [c_runqueue EXCEPT ![c] = SubSeq(rq, 1, keep)]
    /\ mig' = [mig EXCEPT ![c].victims = SubSeq(rq, keep + 1, Len(rq)), ![c].i = 1]
    /\ Goto(c, "give")
    /\ UNCHANGED <<thread, c_curthread, c_isidle, c_runqueue_lock, c_zombies, c_ipi_pending,
                   wakes>>

\* (bug: the current thread is given away as well)
GiveOne_curthread(s, cur, share) ==
    IF Len(s.rq) >= share \/ s.send = 0 THEN s
    ELSE [s EXCEPT !.rq = Append(@, Head(s.victims)), !.victims = Tail(@), !.send = @ - 1]

\* A pass of the inner loop on s: the first victim goes to the other queue, but
\* the current thread goes to the end of the victims.
GiveOne(s, cur, share) ==
    IF Len(s.rq) >= share \/ s.send = 0 THEN s
    ELSE IF Head(s.victims) = cur
    THEN [s EXCEPT !.victims = Append(Tail(@), cur), !.send = @ - 1]
    ELSE [s EXCEPT !.rq = Append(@, Head(s.victims)), !.victims = Tail(@), !.send = @ - 1]

MigrateGive(c) ==
    LET m == mig[c]
        end == FoldLeft(LAMBDA s, k : GiveOne(s, c_curthread[c], m.share),
                        [rq |-> c_runqueue[m.i], victims |-> m.victims, send |-> m.send],
                        [k \in 1..m.send |-> k])
        given == Range(end.rq) \ Range(c_runqueue[m.i]) IN
    /\ pc[c] = "give"
    /\ IF m.i = c \/ m.send = 0
       THEN UNCHANGED <<t_cpu, c_runqueue, c_ipi_pending>>
            /\ mig' = [mig EXCEPT ![c].i = @ + 1]
       ELSE /\ IsUnlocked(m.i)
            /\ c_runqueue' = [c_runqueue EXCEPT ![m.i] = end.rq]
            /\ t_cpu' = [t \in Threads |-> IF t \in given THEN m.i ELSE t_cpu[t]]
            /\ IF given = {} THEN UNCHANGED c_ipi_pending ELSE Poke(m.i, c)
            /\ mig' = [mig EXCEPT ![c].i = @ + 1, ![c].victims = end.victims,
                                  ![c].send = end.send]
    /\ Goto(c, IF m.i < NumCpus THEN "give" ELSE "leftovers")
    /\ UNCHANGED <<t_state, sleeping, c_curthread, c_isidle, c_runqueue_lock, c_zombies, wakes>>

\* (bug: leftovers are dropped)
MigrateLeftovers_dropped(c) ==
    /\ pc[c] = "leftovers"
    /\ mig' = [mig EXCEPT ![c] = NoMig]
    /\ Goto(c, AfterMigration(c))
    /\ UNCHANGED <<thread, cpu, wakes>>

MigrateLeftovers(c) ==
    /\ pc[c] = "leftovers"
    /\ IsUnlocked(c)
    /\ c_runqueue' = [c_runqueue EXCEPT ![c] = @ \o mig[c].victims]
    /\ mig' = [mig EXCEPT ![c] = NoMig]
    /\ Goto(c, AfterMigration(c))
    /\ UNCHANGED <<thread, c_curthread, c_isidle, c_runqueue_lock, c_zombies, c_ipi_pending,
                   wakes>>

-----------------------------------------------------------------------------
\* The steps that finish what a cpu has begun.
CpuStep(c) ==
    \/ thread_yield(c) \/ NextThread(c) \/ Switched(c) \/ exorcise(c) \/ Unidle(c)
    \/ thread_make_runnable(c) \/ InterruptDone(c)
    \/ MigrateCount(c) \/ MigrateTake(c) \/ MigrateGive(c) \/ MigrateLeftovers(c)

Next ==
    \E c \in CPUs :
        \/ CpuStep(c)
        \/ wchan_sleep(c) \/ thread_exit(c) \/ wchan_wake(c)
        \/ \E t \in Threads : thread_fork(c, t)
        \/ Interrupt(c) \/ hardclock(c)

Spec == Init /\ [][Next]_vars

\* A cpu that sleeps in cpu_idle takes the interrupt that was sent to it.
WakeUp(c) == pc[c] = "idle" /\ c_ipi_pending[c] /\ Interrupt(c)

\* CPUs run, and one that spins on a lock that is free again and again finds it
\* free; an interrupt that is pending is taken by a cpu that idles, and the
\* timer interrupt, which stays pending, is taken once interrupts are on.
FairSpec ==
    /\ Spec
    /\ \A c \in CPUs :
        /\ SF_vars(CpuStep(c))
        /\ WF_vars(WakeUp(c))
        /\ SF_vars(pc[c] = "run" /\ Interrupt(c))
        /\ SF_vars(hardclock(c))

-----------------------------------------------------------------------------
(* Properties *)

\* The lists a thread can be on; a list is named by its kind and its cpu.
ListsOf(t) ==
    {<<"runqueue", c>> : c \in {d \in CPUs : t \in Range(c_runqueue[d])}}
    \cup {<<"zombies", c>> : c \in {d \in CPUs : t \in c_zombies[d]}}
    \cup {<<"victims", c>> : c \in {d \in CPUs : t \in Range(mig[d].victims)}}
    \cup {<<"waking", c>> : c \in {d \in CPUs : wakes[d] = t}}
    \cup (IF t \in sleeping THEN {<<"wchan", 0>>} ELSE {})

\* A thread that exists is never lost and never on two lists: it is on one
\* list, or it is the thread of a cpu.  A thread that runs is on none, and one
\* that is queued on a run queue belongs to the cpu of that queue.
ThreadsAccountedFor ==
    \A t \in Threads :
        /\ t_state[t] = "none" => ListsOf(t) = {}
        /\ t_state[t] = "run" => ListsOf(t) = {} /\ c_curthread[t_cpu[t]] = t
        /\ t_state[t] \in {"sleep", "zombie"} => Cardinality(ListsOf(t)) = 1
        /\ t_state[t] = "ready" =>
            \/ Cardinality(ListsOf(t)) = 1
            \/ ListsOf(t) = {} /\ c_curthread[t_cpu[t]] = t /\ pc[t_cpu[t]] = "switched"
        /\ \A c \in CPUs : <<"runqueue", c>> \in ListsOf(t) => t_cpu[t] = c

\* No stack is in use on two cpus, and none that is in use is on the way to
\* another one: a thread that has gone to sleep on a cpu that then idles is
\* woken on that cpu and is not migrated from under it.  And a dead thread is
\* not freed while a cpu idles on its stack.
StacksKept ==
    /\ \A c \in CPUs : t_state[c_curthread[c]] # "none"
    /\ \A c, d \in CPUs : c # d =>
        /\ c_curthread[c] # c_curthread[d]
        /\ c_curthread[c] \notin Range(c_runqueue[d])

\* A thread that has been made runnable gets to run.
ReadyRuns == \A t \in Threads : t_state[t] = "ready" ~> t_state[t] = "run"

=============================================================================
