---------------------------- MODULE MCProcesses ----------------------------
(***************************************************************************)
(* Processes, their open files, the primitives they wait with and the heap *)
(* of a program, in one run of TLC.  The initial state chooses the part    *)
(* that runs; the others stay in their initial states.                     *)
(***************************************************************************)
EXTENDS ProcTable, TLC

CONSTANTS SynchThreads, MaxCount,
          FileProcs, Files, SYSTEM_OPEN_MAX, FirstFd, OPEN_MAX, CallFds, MaxOffset

VARIABLES
    part,
    sem, lock, cv, pc, then,
    systemFileTable, fileTable, elfdata, vn_refcount, file_thr, fault,
    headers, heaptop, blocks

synchvars == <<sem, lock, cv, pc, then>>
filevars == <<systemFileTable, fileTable, elfdata, vn_refcount, file_thr, fault>>

heapvars == <<headers, heaptop, blocks>>

\* Programs wait for their own children, as in the Unix model, and not for the
\* one with the last pid.
Children(kids) == kids \ {MAX_PROC}

Syn == INSTANCE Synch WITH Threads <- SynchThreads, Nobody <- NULL

\* Programs that close their files and do not fork ...
Open == INSTANCE FileTable WITH Procs <- FileProcs, thr <- file_thr,
            Preemption <- FALSE, Forks <- FALSE, LeavesOpen <- FALSE

\* ... and programs that fork and leave files open at their exit.
Forked == INSTANCE FileTable WITH Procs <- FileProcs, thr <- file_thr,
            Preemption <- FALSE, Forks <- TRUE, LeavesOpen <- TRUE

\* A heap of two pages, and blocks of no, one and three units.
Heap == INSTANCE Malloc WITH
    held <- blocks, MBLOCKSIZE <- 8, SIZE_RANGE <- 256, PAGE_UNITS <- 4, HeapLimit <- 8,
    Requests <- {0, 5, 17}

ASSUME Syn!SynchAssumption /\ Open!FileTableAssumption

Symmetry ==
    UNION {Permutations(S) : S \in {Procs \ {kproc}, Threads \ {Menu}, FileProcs, Files}}

MCInit ==
    /\ part \in {"processes", "primitives", "files", "forks", "heap"}
    /\ Init /\ Syn!Init /\ Open!Init /\ Heap!Init

MCNext ==
    /\ UNCHANGED part
    /\ \/ part = "processes" /\ Next /\ UNCHANGED <<synchvars, filevars, heapvars>>
       \/ part = "primitives" /\ Syn!Next /\ UNCHANGED <<vars, filevars, heapvars>>
       \/ part = "files" /\ Open!Next /\ UNCHANGED <<vars, synchvars, heapvars>>
       \/ part = "forks" /\ Forked!Next /\ UNCHANGED <<vars, synchvars, heapvars>>
       \/ part = "heap" /\ Heap!Next /\ UNCHANGED <<vars, synchvars, filevars>>

MCSpec == MCInit /\ [][MCNext]_<<part, vars, synchvars, filevars, heapvars>>

-----------------------------------------------------------------------------
\* Synch: no wake-up of V or of lock_release is lost.
WakeupsKept == Syn!WakeupsKept

\* Synch: semaphores, locks and condition variables implement atomic ones, and
\* a signal is not lost between the release of the lock and the sleep.
ImplementsMonitor == Syn!ImplementsMonitor /\ Syn!SignalsFindWaiters

\* FileTable: a descriptor stays with its file until it is closed, forks and
\* exits of other processes included, and nobody closes or moves a file under a
\* transfer.
DescriptorsKeepFile == Open!DescriptorsKeepFile /\ Open!TransferUndisturbed

\* FileTable: the counts of slots and of vnodes are those of their holders, as
\* long as programs do not fork and close what they open.
CountsExact == part = "files" => Open!CountsExact

\* Malloc: the headers tile the heap, and blocks in use are the program's.
ChainExact == Heap!ChainExact
=============================================================================
