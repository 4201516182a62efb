------------------------------- MODULE Semfs -------------------------------
(***************************************************************************)
(* kern/fs/semfs: semaphores for programs, as files of "sem:".             *)
(*                                                                         *)
(* semfs_dirlock protects the directory, semfs_tablelock the tables of     *)
(* vnodes and semaphores, and sems_lock the count of a semaphore; a        *)
(* section that nobody can see into is one step.  Two gaps remain.  As in  *)
(* Sfs, VOP_DECREF decides that a reference is the last one before         *)
(* semfs_reclaim takes its lock.  And semfs_remove holds semfs_dirlock and *)
(* sems_lock between clearing sems_linked and looking at sems_hasvnode,    *)
(* whereas semfs_reclaim, which does the reverse, holds semfs_tablelock.   *)
(*                                                                         *)
(* A process has at most one semaphore open.  When an allocation fails     *)
(* nothing changes, so these paths are not steps.                          *)
(***************************************************************************)
EXTENDS Naturals, Sequences, FiniteSets, FiniteSetsExt, SequencesExt

CONSTANTS
    Procs,
    Names,
    NULL,
    MaxSems,       \* bound: entries of the table
    UintRange,     \* counts are unsigned: 0..(UintRange - 1)
    Units,         \* how much programs read and write at once
    Preemption     \* may a thread lose the cpu inside semfs_remove?

VARIABLES
    sems,      \* number -> [count, linked, hasvnode, cv], or NULL
    dents,     \* name -> the number, or NULL
    vnodes,    \* number -> vn_refcount, 0 without a vnode
    proc       \* process -> [pc, open, name, resid]

vars == <<sems, dents, vnodes, proc>>

Nums == 1..MaxSems

Idle == [pc |-> "idle", open |-> NULL, name |-> NULL, resid |-> 0]

\* semfs_create
Init ==
    /\ sems = [n \in Nums |-> NULL]
    /\ dents = [x \in Names |-> NULL]
    /\ vnodes = [n \in Nums |-> 0]
    /\ proc = [p \in Procs |-> Idle]

-----------------------------------------------------------------------------
(* Locks *)

Removing(q) == proc[q].pc = "removing"

\* Nobody is inside semfs_remove, which keeps the directory locked.
DirUnlocked == \A q \in Procs : ~Removing(q)

\* Nobody removes the semaphore n, and has it locked.
SemUnlocked(n) == \A q \in Procs : Removing(q) => dents[proc[q].name] # n

\* May p run?  Without preemption a thread in semfs_remove keeps the cpu.
MayRun(p) == Preemption \/ \A q \in Procs \ {p} : ~Removing(q)

Running(p, pc) == MayRun(p) /\ proc[p].pc = pc

-----------------------------------------------------------------------------
(* The directory *)

\* semfs_getvnode
semfs_getvnode(p, n) ==
    /\ vnodes' = [vnodes EXCEPT ![n] = @ + 1]
    /\ proc' = [proc EXCEPT ![p].open = n]

\* semfs_lookup, and semfs_creat of a name that exists.
semfs_lookup(p, name) ==
    /\ Running(p, "idle")
    /\ DirUnlocked
    /\ proc[p].open = NULL
    /\ dents[name] # NULL
    /\ semfs_getvnode(p, dents[name])
    /\ sems' = [sems EXCEPT ![dents[name]].hasvnode = TRUE]
    /\ UNCHANGED dents

\* semfs_sem_insert: the first entry that is empty.
FreeNums == {n \in Nums : sems[n] = NULL}

\* semfs_creat of a new semaphore, with semfs_sem_create.
semfs_creat(p, name) ==
    /\ Running(p, "idle")
    /\ DirUnlocked
    /\ proc[p].open = NULL
    /\ dents[name] = NULL
    /\ FreeNums # {}
    /\ LET n == Min(FreeNums)
       IN  /\ sems' = [sems EXCEPT ![n] =
                         [count |-> 0, linked |-> TRUE, hasvnode |-> TRUE, cv |-> <<>>]]
           /\ dents' = [dents EXCEPT ![name] = n]
           /\ semfs_getvnode(p, n)

\* semfs_remove: the semaphore is unlinked ...
semfs_remove(p, name) ==
    /\ Running(p, "idle")
    /\ DirUnlocked
    /\ dents[name] # NULL
    /\ sems' = [sems EXCEPT ![dents[name]].linked = FALSE]
    /\ proc' = [proc EXCEPT ![p].pc = "removing", ![p].name = name]
    /\ UNCHANGED <<dents, vnodes>>

\* ... and goes with its name unless it has a vnode.
semfs_remove_dent(p) ==
    /\ Running(p, "removing")
    /\ LET n == dents[proc[p].name]
       IN  sems' = IF sems[n].hasvnode THEN sems ELSE [sems EXCEPT ![n] = NULL]
    /\ dents' = [dents EXCEPT ![proc[p].name] = NULL]
    /\ proc' = [proc EXCEPT ![p].pc = "idle", ![p].name = NULL]
    /\ UNCHANGED vnodes

\* vnode_decref, from vfs_close: the last reference is kept ...
vnode_decref(p) ==
    /\ Running(p, "idle")
    /\ proc[p].open # NULL
    /\ IF vnodes[proc[p].open] > 1
       THEN /\ vnodes' = [vnodes EXCEPT ![proc[p].open] = @ - 1]
            /\ proc' = [proc EXCEPT ![p].open = NULL]
       ELSE /\ proc' = [proc EXCEPT ![p].pc = "reclaim"]
            /\ UNCHANGED vnodes
    /\ UNCHANGED <<sems, dents>>

\* (bug: the count is not looked at again)
semfs_reclaim_blind(p) ==
    /\ Running(p, "reclaim")
    /\ LET n == proc[p].open
       IN  /\ vnodes' = [vnodes EXCEPT ![n] = 0]
           /\ sems' = IF sems[n].linked THEN [sems EXCEPT ![n].hasvnode = FALSE]
                      ELSE [sems EXCEPT ![n] = NULL]
    /\ proc' = [proc EXCEPT ![p].pc = "idle", ![p].open = NULL]
    /\ UNCHANGED dents

\* ... for semfs_reclaim.
semfs_reclaim(p) ==
    /\ Running(p, "reclaim")
    /\ LET n == proc[p].open
       IN  /\ vnodes' = [vnodes EXCEPT ![n] = @ - 1]
           /\ sems' = IF vnodes[n] > 1 THEN sems
                      ELSE IF sems[n].linked THEN [sems EXCEPT ![n].hasvnode = FALSE]
                      ELSE [sems EXCEPT ![n] = NULL]
    /\ proc' = [proc EXCEPT ![p].pc = "idle", ![p].open = NULL]
    /\ UNCHANGED dents

-----------------------------------------------------------------------------
(* Semaphores *)

\* semfs_wakeup: the threads that are woken when the count becomes newcount.
semfs_wakeup(sem, newcount) ==
    IF sem.count > 0 \/ newcount = 0 THEN {}
    ELSE IF newcount = 1 THEN {q \in Range(sem.cv) : q = Head(sem.cv)}
    ELSE Range(sem.cv)

\* The count of n is set, and proc[p] becomes r.
SetCount(p, r, n, newcount) ==
    LET woken == semfs_wakeup(sems[n], newcount)
    IN  /\ sems' = [sems EXCEPT ![n].count = newcount,
                                ![n].cv = SelectSeq(@, LAMBDA q : q \notin woken)]
        /\ proc' = [q \in Procs |-> IF q \in woken THEN [proc[q] EXCEPT !.pc = "read"]
                                    ELSE IF q = p THEN r ELSE proc[q]]

\* A program starts to read.
CallRead(p, n) ==
    /\ Running(p, "idle")
    /\ proc[p].open # NULL
    /\ proc' = [proc EXCEPT ![p].pc = "read", ![p].resid = n]
    /\ UNCHANGED <<sems, dents, vnodes>>

\* The loop of semfs_read, from the lock to the end or to cv_wait.
semfs_read(p) ==
    /\ Running(p, "read")
    /\ SemUnlocked(proc[p].open)
    /\ LET sem == sems[proc[p].open]
           consume == Min({proc[p].resid, sem.count})
           sleeps == proc[p].resid > consume
       IN  /\ sems' = [sems EXCEPT ![proc[p].open] =
                         [sem EXCEPT !.count = @ - consume,
                                     !.cv = IF sleeps THEN Append(@, p) ELSE @]]
           /\ proc' = [proc EXCEPT ![p].pc = IF sleeps THEN "asleep" ELSE "idle",
                                   ![p].resid = @ - consume]
    /\ UNCHANGED <<dents, vnodes>>

\* semfs_write, unless the count would overflow.
semfs_write(p, resid) ==
    /\ Running(p, "idle")
    /\ proc[p].open # NULL
    /\ SemUnlocked(proc[p].open)
    /\ LET count == sems[proc[p].open].count
           newcount == (count + resid) % UintRange
       IN  /\ newcount >= count
           /\ SetCount(p, proc[p], proc[p].open, newcount)
    /\ UNCHANGED <<dents, vnodes>>

\* semfs_truncate, from open with O_TRUNC.
semfs_truncate(p) ==
    /\ Running(p, "idle")
    /\ proc[p].open # NULL
    /\ SemUnlocked(proc[p].open)
    /\ SetCount(p, proc[p], proc[p].open, 0)
    /\ UNCHANGED <<dents, vnodes>>

-----------------------------------------------------------------------------
Next ==
    \E p \in Procs :
        \/ \E name \in Names : semfs_lookup(p, name) \/ semfs_creat(p, name) \/ semfs_remove(p, name)
        \/ semfs_remove_dent(p)
        \/ vnode_decref(p) \/ semfs_reclaim(p)
        \/ \E n \in Units : CallRead(p, n) \/ semfs_write(p, n)
        \/ semfs_read(p) \/ semfs_truncate(p)

\* A thread that has entered the kernel goes on.
Continue(p) == semfs_remove_dent(p) \/ semfs_reclaim(p) \/ semfs_read(p)

Spec == Init /\ [][Next]_vars

FairSpec == Spec /\ \A p \in Procs : WF_vars(Continue(p))

-----------------------------------------------------------------------------
(* Properties *)

\* The tables agree, through every order of opening, closing and removing: a
\* name refers to a semaphore that is there, and that is linked unless it is
\* being removed; a semaphore is there exactly while it is linked or has a
\* vnode; sems_hasvnode says whether there is one; and the count of a vnode is
\* the number of processes that have the semaphore open, so that none is
\* freed under somebody who reads, writes or sleeps.
SemsExact ==
    /\ \A name \in Names : dents[name] # NULL =>
        /\ sems[dents[name]] # NULL
        /\ sems[dents[name]].linked
             = (\A q \in Procs : ~(Removing(q) /\ proc[q].name = name))
        /\ \A other \in Names : dents[other] = dents[name] => other = name
    /\ \A n \in Nums :
        /\ vnodes[n] = Cardinality({p \in Procs : proc[p].open = n})
        /\ sems[n] = NULL => vnodes[n] = 0
        /\ sems[n] # NULL =>
            /\ sems[n].hasvnode = (vnodes[n] > 0)
            /\ sems[n].hasvnode \/ \E name \in Names : dents[name] = n

SleepsOverUnits(p) == proc[p].pc = "asleep" /\ sems[proc[p].open].count > 0

\* "The count will not decrease below zero; attempts to do so will block until
\* other concurrent write operations raise the count again": a process that
\* sleeps in semfs_read does not do so forever over a count that is not zero.
BlocksUntilRaised == \A p \in Procs : SleepsOverUnits(p) ~> ~SleepsOverUnits(p)

=============================================================================
