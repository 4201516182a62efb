------------------------------ MODULE MCKernel ------------------------------
(***************************************************************************)
(* The coremap, and the liveness of the scheduler, in one run of TLC.  The *)
(* initial state chooses the part that runs; the other one does not move.  *)
(***************************************************************************)
EXTENDS MCCoremap

CONSTANTS b1, b2, b3, Nobody

VARIABLES
    part,
    t_state, t_cpu, sleeping, c_curthread, c_isidle, c_runqueue, c_runqueue_lock,
    c_zombies, c_ipi_pending, cpu_pc, wakes, mig

schedvars == <<t_state, t_cpu, sleeping, c_curthread, c_isidle, c_runqueue,
               c_runqueue_lock, c_zombies, c_ipi_pending, cpu_pc, wakes, mig>>

\* Two cpus and three threads that are not migrated.
Sched == INSTANCE Scheduler WITH
    NumCpus <- 2, Threads <- {b1, b2, b3}, Migrates <- FALSE, NULL <- Nobody, pc <- cpu_pc,
    BootThread <- LAMBDA c : IF c = 1 THEN b1 ELSE b2

ASSUME Sched!SchedulerAssumption

MCInit == part \in {"coremap", "sched"} /\ Init /\ Sched!Init

MCNext ==
    /\ UNCHANGED part
    /\ \/ part = "coremap" /\ Next /\ UNCHANGED schedvars
       \/ part = "sched" /\ Sched!Next /\ UNCHANGED vars

\* The fairness of Scheduler, while it runs.
MCSpec ==
    /\ MCInit /\ [][MCNext]_<<part, vars, schedvars>>
    /\ \A c \in Sched!CPUs :
        /\ SF_schedvars(part = "sched" /\ Sched!CpuStep(c))
        /\ WF_schedvars(part = "sched" /\ Sched!WakeUp(c))
        /\ SF_schedvars(part = "sched" /\ cpu_pc[c] = "run" /\ Sched!Interrupt(c))
        /\ SF_schedvars(part = "sched" /\ Sched!hardclock(c))

-----------------------------------------------------------------------------
\* Scheduler: a thread that has been made runnable gets to run.
ReadyRuns == Sched!ReadyRuns
=============================================================================
