----------------------------- MODULE MCServices -----------------------------
(***************************************************************************)
(* What lies under and beside the paging, in one run of TLC: the interrupt *)
(* levels, the scheduler, the kernel heap and the file systems.  The       *)
(* initial state chooses the part that runs; the others do not move.       *)
(***************************************************************************)
EXTENDS Spl, TLC

CONSTANTS b1, b2,               \* the threads that boot the cpus, in Spl
          c1, c2, c3,           \* the threads of Scheduler
          Callers,              \* the threads that use the heap
          Users, Menu,          \* the processes that use files
          TwoNames,             \* the names of files
          NULL

VARIABLES
    part,
    t_state, t_cpu, sleeping, c_curthread, c_isidle, c_runqueue, c_runqueue_lock,
    c_zombies, c_ipi_pending, cpu_pc, wakes, mig,
    kheaproots, pagerefs, sizebases, allbase, kpages, live, heap_call,
    vol, diskmap, mounted, holds, reclaims,
    sems, dents, vnodes, proc,
    kd_fs, refcount, bootfs_vnode, p_cwd, opened, menu_call

schedvars == <<t_state, t_cpu, sleeping, c_curthread, c_isidle, c_runqueue,
               c_runqueue_lock, c_zombies, c_ipi_pending, cpu_pc, wakes, mig>>
heapvars == <<kheaproots, pagerefs, sizebases, allbase, kpages, live, heap_call>>
sfsvars == <<vol, diskmap, mounted, holds, reclaims>>
semfsvars == <<sems, dents, vnodes, proc>>
vfsvars == <<kd_fs, refcount, bootfs_vnode, p_cwd, opened, menu_call>>

TwoBootThreads(c) == IF c = 1 THEN b1 ELSE b2

Sched == INSTANCE Scheduler WITH
    NumCpus <- 2, Threads <- {c1, c2, c3}, Migrates <- TRUE, pc <- cpu_pc,
    BootThread <- LAMBDA c : IF c = 1 THEN c1 ELSE c2

\* Two pages of pagerefs, and allocations of them that fail.
Heap == INSTANCE Kmalloc WITH
    call <- heap_call, KPages <- 5, PAGE_SIZE <- 12, Sizes <- <<6, 9>>, Requests <- {8, 13},
    NPAGEREFS_PER_PAGE <- 3, NUM_PAGEREFPAGES <- 2, MaxLive <- 3, MaxLost <- 1

\* Fewer pagerefs than pages, and two blocks on a page.
SmallHeap == INSTANCE Kmalloc WITH
    call <- heap_call, KPages <- 4, PAGE_SIZE <- 12, Sizes <- <<6, 9>>, Requests <- {5, 8},
    NPAGEREFS_PER_PAGE <- 2, NUM_PAGEREFPAGES <- 1, MaxLive <- 3, MaxLost <- 0

\* Links and large files on a volume that fills up.
Links == INSTANCE Sfs WITH
    Procs <- {Menu}, Names <- TwoNames, NBLOCKS <- 7, SFS_BLOCKSIZE <- 2, SFS_NDIRECT <- 1,
    SFS_DBPERIDB <- 2, Writes <- {<<1, 4>>}, Lengths <- {0}, MaxHeld <- 2

\* Two processes, with reclaims that race with lookups.
Race == INSTANCE Sfs WITH
    Procs <- Users, Names <- {Menu}, NBLOCKS <- 6, SFS_BLOCKSIZE <- 2, SFS_NDIRECT <- 1,
    SFS_DBPERIDB <- 2, Writes <- {<<0, 1>>}, Lengths <- {}, MaxHeld <- 2

Semaphores == INSTANCE Semfs WITH
    Procs <- Users, Names <- TwoNames, MaxSems <- 3, UintRange <- 3, Units <- {1, 2},
    Preemption <- FALSE

Devices == INSTANCE Vfs WITH
    Procs <- Users \cup {Menu}, Disks <- {"lhd0"}, Hardwired <- {"emu0"}, Plain <- {"null"},
    call <- menu_call

ASSUME Sched!SchedulerAssumption /\ Heap!KmallocAssumption /\ SmallHeap!KmallocAssumption

Symmetry == Permutations(Callers) \cup Permutations(Users) \cup Permutations(TwoNames)

-----------------------------------------------------------------------------
\* The state of a part that does not run.
NoSched ==
    /\ t_state = NULL /\ t_cpu = NULL /\ sleeping = NULL /\ c_curthread = NULL
    /\ c_isidle = NULL /\ c_runqueue = NULL /\ c_runqueue_lock = NULL /\ c_zombies = NULL
    /\ c_ipi_pending = NULL /\ cpu_pc = NULL /\ wakes = NULL /\ mig = NULL
NoHeap ==
    /\ kheaproots = NULL /\ pagerefs = NULL /\ sizebases = NULL /\ allbase = NULL
    /\ kpages = NULL /\ live = NULL /\ heap_call = NULL
NoSfs == vol = NULL /\ diskmap = NULL /\ mounted = NULL /\ holds = NULL /\ reclaims = NULL
NoSemfs == sems = NULL /\ dents = NULL /\ vnodes = NULL /\ proc = NULL
NoVfs ==
    /\ kd_fs = NULL /\ refcount = NULL /\ bootfs_vnode = NULL /\ p_cwd = NULL
    /\ opened = NULL /\ menu_call = NULL

MCInit ==
    /\ Init
    /\ \/ part = "sched" /\ Sched!Init /\ NoHeap /\ NoSfs /\ NoSemfs /\ NoVfs
       \/ /\ NoSched
          /\ \/ part = "spl" /\ NoHeap /\ NoSfs /\ NoSemfs /\ NoVfs
             \/ part = "heap" /\ Heap!Init /\ NoSfs /\ NoSemfs /\ NoVfs
             \/ part = "smallheap" /\ SmallHeap!Init /\ NoSfs /\ NoSemfs /\ NoVfs
             \/ part = "links" /\ Links!Init /\ NoHeap /\ NoSemfs /\ NoVfs
             \/ part = "race" /\ Race!Init /\ NoHeap /\ NoSemfs /\ NoVfs
             \/ part = "semfs" /\ Semaphores!Init /\ NoHeap /\ NoSfs /\ NoVfs
             \/ part = "vfs" /\ Devices!Init /\ NoHeap /\ NoSfs /\ NoSemfs

MCNext ==
    /\ UNCHANGED part
    /\ \/ /\ UNCHANGED <<heapvars, sfsvars, semfsvars, vfsvars>>
          /\ \/ part = "spl" /\ Next /\ UNCHANGED schedvars
             \/ part = "sched" /\ Sched!Next /\ UNCHANGED vars
       \/ /\ UNCHANGED <<vars, schedvars, semfsvars, vfsvars>>
          /\ \/ part = "heap" /\ Heap!Next /\ UNCHANGED sfsvars
             \/ part = "smallheap" /\ SmallHeap!Next /\ UNCHANGED sfsvars
             \/ part = "links" /\ Links!Next /\ UNCHANGED heapvars
             \/ part = "race" /\ Race!Next /\ UNCHANGED heapvars
       \/ /\ UNCHANGED <<vars, schedvars, heapvars, sfsvars>>
          /\ \/ part = "semfs" /\ Semaphores!Next /\ UNCHANGED vfsvars
             \/ part = "vfs" /\ Devices!Next /\ UNCHANGED semfsvars

MCSpec == MCInit /\ [][MCNext]_<<part, vars, schedvars, heapvars, sfsvars, semfsvars, vfsvars>>

-----------------------------------------------------------------------------
\* Scheduler: a thread is never lost, and never on two lists.
ThreadsAccountedFor == part = "sched" => Sched!ThreadsAccountedFor

\* Scheduler: no stack is used by two cpus, or freed under one.
StacksKept == part = "sched" => Sched!StacksKept

\* Kmalloc: pages are cut exactly into free blocks and blocks in use; no frame is
\* lost and none serves two ends.
HeapExact ==
    /\ part = "heap" => Heap!HeapExact /\ Heap!PagesAccounted
    /\ part = "smallheap" => SmallHeap!HeapExact /\ SmallHeap!PagesAccounted

\* Sfs: the volume is consistent after every operation and on the disk.
VolumeExact ==
    /\ part = "links" => Links!VolumeExact
    /\ part = "race" => Race!VolumeExact

\* Sfs: programs see plain files.
ImplementsFileStore ==
    /\ part = "links" => Links!Abs!Init
    /\ part = "race" => Race!Abs!Init
    /\ [][/\ part = "links" => Links!FileStep
          /\ part = "race" => Race!FileStep]_sfsvars

\* Semfs: names, semaphores and vnodes agree.
SemsExact == part = "semfs" => Semaphores!SemsExact

\* Vfs: a reference to a vnode keeps its volume mounted.
ReferenceKeepsFs == part = "vfs" => Devices!ReferenceKeepsFs
=============================================================================
