------------------------------- MODULE Synch -------------------------------
(***************************************************************************)
(* kern/thread/synch.c: one semaphore, one lock and one condition variable *)
(* used by any number of threads, on any number of cpus.                   *)
(*                                                                         *)
(* A critical section under a single spinlock is one step.  cv_wait holds  *)
(* the spinlock of the condition variable over its call of lock_release    *)
(* and into the switch: those are separate steps, with the spinlock in     *)
(* cv.spin.  A thread that is "idle" is in code that calls the primitives. *)
(***************************************************************************)
EXTENDS Wchan, FiniteSets

CONSTANTS
    Threads,
    Nobody,       \* NULL
    MaxCount      \* bound: the count of the semaphore

SynchAssumption == IsFiniteSet(Threads) /\ Nobody \notin Threads /\ MaxCount \in Nat

VARIABLES
    sem,    \* [count, wchan]
    lock,   \* [owner, wchan]
    cv,     \* [spin, wchan]: the holder of the spinlock, the sleepers
    pc,     \* thread -> where it is
    then    \* thread -> where lock_acquire returns to

vars == <<sem, lock, cv, pc, then>>

cv_create == [spin |-> Nobody, wchan |-> wchan_create]

Init ==
    /\ sem = sem_create(0)
    /\ lock = lock_create(Nobody)
    /\ cv = cv_create
    /\ pc = [t \in Threads |-> "idle"]
    /\ then = [t \in Threads |-> "idle"]

Asleep(t) == t \in Sleepers(sem.wchan) \cup Sleepers(lock.wchan) \cup Sleepers(cv.wchan)

\* Thread t runs, and is at one of the given places.
At(t, places) == pc[t] \in places /\ ~Asleep(t)

Goto(t, place) == pc' = [pc EXCEPT ![t] = place]

-----------------------------------------------------------------------------
(* Semaphore *)

SemP(t) ==
    /\ At(t, {"idle", "P"})
    /\ sem' = P(sem, t)
    /\ Goto(t, IF P_sleeps(sem) THEN "P" ELSE "idle")
    /\ UNCHANGED <<lock, cv, then>>

SemV(t) ==
    /\ At(t, {"idle"})
    /\ sem.count < MaxCount
    /\ sem' = V(sem)
    /\ UNCHANGED <<lock, cv, pc, then>>

-----------------------------------------------------------------------------
(* Lock *)

\* A call from outside; the callers in the kernel do not take a lock twice.
CallAcquire(t) ==
    /\ At(t, {"idle"})
    /\ ~lock_do_i_hold(lock, t)
    /\ lock' = lock_acquire(lock, t, Nobody)
    /\ Goto(t, IF lock.owner # Nobody THEN "lock_acquire" ELSE "idle")
    /\ UNCHANGED <<sem, cv, then>>

\* (bug: a thread that is woken takes the lock without another look)
Acquire_if(t) ==
    /\ At(t, {"lock_acquire"})
    /\ lock' = [lock EXCEPT !.owner = t]
    /\ Goto(t, then[t])
    /\ then' = [then EXCEPT ![t] = "idle"]
    /\ UNCHANGED <<sem, cv>>

\* A pass of the loop by a thread that was woken, or that came from cv_*.
Acquire(t) ==
    /\ At(t, {"lock_acquire"})
    /\ lock' = lock_acquire(lock, t, Nobody)
    /\ IF lock.owner # Nobody
       THEN UNCHANGED <<pc, then>>
       ELSE /\ Goto(t, then[t])
            /\ then' = [then EXCEPT ![t] = "idle"]
    /\ UNCHANGED <<sem, cv>>

Release(t) ==
    /\ At(t, {"idle"})
    /\ lock_do_i_hold(lock, t)
    /\ lock' = lock_release(lock, t, Nobody)
    /\ UNCHANGED <<sem, cv, pc, then>>

-----------------------------------------------------------------------------
(* Condition variable *)

\* if (!lock_do_i_hold(lock)) lock_acquire(lock);
cv_lock(t, op) ==
    /\ At(t, {"idle"})
    /\ ~lock_do_i_hold(lock, t)
    /\ Goto(t, "lock_acquire")
    /\ then' = [then EXCEPT ![t] = op]
    /\ UNCHANGED <<sem, lock, cv>>

\* t has the lock and goes on with the body of op.
InBody(t, op) == At(t, {"idle", op}) /\ lock_do_i_hold(lock, t)

\* spinlock_acquire(&cv->spinlock_t); lock_release(lock);
cv_wait_release(t) ==
    /\ InBody(t, "cv_wait")
    /\ cv.spin = Nobody
    /\ cv' = [cv EXCEPT !.spin = t]
    /\ lock' = lock_release(lock, t, Nobody)
    /\ Goto(t, "cv_sleep")
    /\ UNCHANGED <<sem, then>>

\* wchan_sleep up to the switch, which releases the spinlock.
cv_wait_sleep(t) ==
    /\ At(t, {"cv_sleep"})
    /\ cv' = [spin |-> Nobody, wchan |-> wchan_sleep(cv.wchan, t)]
    /\ Goto(t, "cv_woken")
    /\ UNCHANGED <<sem, lock, then>>

\* The end of wchan_sleep, spinlock_release, and the call of lock_acquire.
cv_wait_woken(t) ==
    /\ At(t, {"cv_woken"})
    /\ cv.spin = Nobody
    /\ Goto(t, "lock_acquire")
    /\ UNCHANGED <<sem, lock, cv, then>>

cv_signal(t) ==
    /\ InBody(t, "cv_signal")
    /\ cv.spin = Nobody
    /\ cv' = [cv EXCEPT !.wchan = wchan_wakeone(@)]
    /\ Goto(t, "idle")
    /\ UNCHANGED <<sem, lock, then>>

cv_broadcast(t) ==
    /\ InBody(t, "cv_broadcast")
    /\ cv.spin = Nobody
    /\ cv' = [cv EXCEPT !.wchan = wchan_wakeall(@)]
    /\ Goto(t, "idle")
    /\ UNCHANGED <<sem, lock, then>>

-----------------------------------------------------------------------------
CvOps == {"cv_wait", "cv_signal", "cv_broadcast"}

Next ==
    \E t \in Threads :
        \/ SemP(t) \/ SemV(t)
        \/ CallAcquire(t) \/ Acquire(t) \/ Release(t)
        \/ \E op \in CvOps : cv_lock(t, op)
        \/ cv_wait_release(t) \/ cv_wait_sleep(t) \/ cv_wait_woken(t)
        \/ cv_signal(t) \/ cv_broadcast(t)

Spec == Init /\ [][Next]_vars

\* The next step of a thread that is inside one of the primitives.
Continue(t) ==
    \/ pc[t] = "P" /\ SemP(t)
    \/ Acquire(t)
    \/ pc[t] = "cv_wait" /\ cv_wait_release(t)
    \/ cv_wait_sleep(t) \/ cv_wait_woken(t)
    \/ pc[t] = "cv_signal" /\ cv_signal(t)
    \/ pc[t] = "cv_broadcast" /\ cv_broadcast(t)

\* A thread inside one of the primitives is run again and again by the
\* scheduler: its next step is taken once nothing stands in its way.
FairSpec == Spec /\ \A t \in Threads : WF_vars(Continue(t))

-----------------------------------------------------------------------------
(* Properties *)

Awake(place) == {t \in Threads : pc[t] = place}

\* No wake-up of V is lost: while threads sleep in P, there are at least as
\* many others on their way through P as the semaphore has units, although a
\* thread that comes later may take a unit first.  None of lock_release either:
\* while threads sleep in lock_acquire, the lock is held or one that has been
\* woken is about to look at it again.
WakeupsKept ==
    /\ sem.wchan # <<>> => sem.count <= Cardinality(Awake("P") \ Sleepers(sem.wchan))
    /\ lock.wchan # <<>> /\ lock.owner = Nobody
        => Awake("lock_acquire") \ Sleepers(lock.wchan) # {}

\* The threads that have given up the lock in cv_wait and were not signalled.
Waiting == Sleepers(cv.wchan) \cup Awake("cv_sleep")

\* A signal is not lost between the release of the lock and the sleep: if any
\* thread waits, cv_signal ends the wait of exactly one and cv_broadcast of all.
SignalsFindWaiters ==
    [][\A t \in Threads :
        /\ cv_signal(t) /\ Waiting # {} => Cardinality(Waiting') = Cardinality(Waiting) - 1
        /\ cv_broadcast(t) => Waiting' = {}]_vars

MonitorSpec == INSTANCE Monitor
    WITH count <- sem.count, owner <- lock.owner, waiting <- Waiting

\* The three primitives implement the atomic operations synch.h describes.
ImplementsMonitor == MonitorSpec!Spec

\* A lock that is free while somebody wants it is taken again.
LockTaken == (lock.owner = Nobody /\ \E t \in Threads : pc[t] = "lock_acquire")
                ~> (lock.owner # Nobody)

\* Units of the semaphore do not lie idle while somebody waits for them.
UnitsTaken == (sem.count > 0 /\ \E t \in Threads : pc[t] = "P")
                ~> (sem.count = 0 \/ \A t \in Threads : pc[t] # "P")

=============================================================================
