------------------------------- MODULE Paging -------------------------------
(***************************************************************************)
(* Demand paging: vm_fault (kern/vm/vm.c) with the coremap, the swap file, *)
(* the TLB and the loaded bits of the segments, for the processes that     *)
(* take faults on one cpu.                                                 *)
(*                                                                         *)
(* vm_fault runs at splhigh, so another thread can run only where a fault  *)
(* sleeps: in the VOP_WRITE of swapinpage and in the VOP_READ of           *)
(* swapoutpage and readfromelfto.  A fault is one step up to its first     *)
(* sleep and one step from each wake-up to the next sleep or to the end.   *)
(* The programs and the swap file are on one emu device, whose lock is     *)
(* held for the whole of a transfer.                                       *)
(***************************************************************************)
EXTENDS PageTable, Swapfile, VmTlb

CONSTANTS
    MaxProc,       \* MAX_PROC: pids are 1..MaxProc, pid 1 is kproc
    StackPages,    \* the pages of the stack segment
    Writable,      \* the pages of the segments with WRFLAG
    InFile,        \* the pages that lie inside the ELF file
    Values,        \* what a process may store into a page
    MaxLive,       \* bound: the processes that exist at a time
    MaxKernel,     \* bound: the frames alloc_kpages may take
    ReusePids,     \* bound: may the pid allocator wrap around?
    Overlap        \* may a process run while another one sleeps in a fault?

ASSUME PagingAssumption ==
    /\ MaxProc \in Nat \ {0}
    /\ UserPids = 2 .. MaxProc
    /\ StackPages \subseteq Writable
    /\ Writable \subseteq Vaddrs
    /\ InFile \subseteq Vaddrs \ StackPages
    /\ Values \subseteq Nat
    /\ MaxLive \in Nat
    /\ MaxKernel \in Nat
    /\ ReusePids \in BOOLEAN
    /\ Overlap \in BOOLEAN

(***************************************************************************)
(* Contents of a page: all zero, the page of the ELF file, what a process  *)
(* stored, or data of the kernel.                                          *)
(***************************************************************************)
ZERO == 0
KDATA == 1
ELF(vaddr) == KSEG0 + vaddr

VARIABLES
    pt,        \* the page table (PageTable)
    swap,      \* the map of the swap file (Swapfile)
    mmu,       \* the TLB (VmTlb)
    loaded,    \* loadedelf[] of the segments of each process
    state,     \* per thread: none, user, the transfer it sleeps in, or zombie
    fault,     \* the locals of a thread's vm_fault, or getfreeppages
    e_lock,    \* the thread that holds the lock of the device, or NULL
    cur,       \* the pid of curproc, 0 for a kernel thread
    last_i,    \* the last pid allocated
    frame,     \* the contents of physical memory
    disk,      \* the contents of the swap file
    panic      \* the kernel has stopped

procvars == <<state, cur, last_i>>
vmvars == <<pt, swap, mmu, loaded, fault, e_lock>>
datavars == <<frame, disk>>
vars == <<pt, swap, mmu, loaded, state, fault, e_lock, cur, last_i, frame, disk, panic>>

NOFAULT == [vaddr |-> 0, ind |-> 0, slot |-> 0]

\* One thread per process, and a kernel thread that allocates pages.
Threads == UserPids \cup {KERNEL}

Asleep(p) == state[p] \in {"swapin", "swapout", "elf"}

\* p may run: nobody else is in the middle of a transfer, or Overlap allows it.
MayRun(p) == Overlap \/ \A q \in Threads \ {p} : ~Asleep(q)

Init ==
    /\ pt = ptinit
    /\ swap = swapinit
    /\ mmu = tlb_init
    /\ loaded = [p \in UserPids |-> [v \in Vaddrs |-> 0]]
    /\ state = [p \in Threads |-> "none"]
    /\ fault = [p \in Threads |-> NOFAULT]
    /\ e_lock = NULL
    /\ cur = KERNEL
    /\ last_i = 1
    /\ frame = [f \in Frames |-> IF f < FirstFree THEN KDATA ELSE ZERO]
    /\ disk = [s \in Slots |-> ZERO]
    /\ panic = FALSE

Halt ==
    /\ panic' = TRUE
    /\ UNCHANGED <<procvars, vmvars, datavars>>

(***************************************************************************)
(* Processes.                                                              *)
(***************************************************************************)

\* The d-th slot of the process table that is tried.
PidAfter(d) == ((last_i - 1 + d) % MaxProc) + 1
\* The circular search of proc_init_waitpid: last_i itself is never tried.
FreeTries == {d \in 1 .. MaxProc - 1 :
                 PidAfter(d) \in UserPids /\ state[PidAfter(d)] = "none"}
NewPid == PidAfter(Min(FreeTries))

\* A new process with freshly defined, or freshly copied, segments.
NewProcess ==
    /\ ~panic
    /\ Cardinality({p \in UserPids : state[p] # "none"}) < MaxLive
    /\ \/ /\ FreeTries = {}
          /\ Halt
       \/ /\ FreeTries # {}
          /\ ReusePids \/ NewPid > last_i
          /\ last_i' = NewPid
          /\ state' = [state EXCEPT ![NewPid] = "user"]
          /\ loaded' = [loaded EXCEPT ![NewPid] = [v \in Vaddrs |-> 0]]
          /\ UNCHANGED <<pt, swap, mmu, fault, e_lock, cur, datavars, panic>>

\* The menu starts a program: proc_create_runprogram and runprogram.
runprogram == cur = KERNEL /\ NewProcess

\* as_copy defines the child's segments anew and copies no page.
sys_fork(p) == cur = p /\ state[p] = "user" /\ NewProcess

\* thread_switch to a process that is not in the kernel.
thread_switch(p) ==
    /\ ~panic
    /\ cur # p
    /\ state[p] = "user"
    /\ MayRun(p)
    /\ cur' = p
    /\ mmu' = vmtlb_invalidate(mmu, p)
    /\ UNCHANGED <<pt, swap, loaded, state, fault, e_lock, last_i, datavars, panic>>

\* thread_switch to a kernel thread: as_activate leaves the TLB as it is.
SwitchToKernel ==
    /\ ~panic
    /\ cur' = KERNEL
    /\ UNCHANGED <<state, last_i, vmvars, datavars, panic>>

sys__exit(p) ==
    /\ ~panic
    /\ cur = p
    /\ state[p] = "user"
    /\ state' = [state EXCEPT ![p] = "zombie"]
    /\ cur' = KERNEL
    /\ UNCHANGED <<last_i, vmvars, datavars, panic>>

\* proc_wait has returned: proc_destroy and as_destroy of the dead process.
proc_destroy(p) ==
    /\ ~panic
    /\ state[p] = "zombie"
    /\ MayRun(p)
    /\ pt' = removeptentries(pt, p)
    /\ swap' = removeswapentries(swap, p)
    /\ state' = [state EXCEPT ![p] = "none"]
    /\ UNCHANGED <<mmu, loaded, fault, e_lock, cur, last_i, datavars, panic>>

(***************************************************************************)
(* User memory accesses that hit the TLB.                                  *)
(***************************************************************************)
InUserMode(p) == ~panic /\ cur = p /\ state[p] = "user" /\ MayRun(p)

Store(p, v, x) ==
    /\ InUserMode(p)
    /\ \E i \in Matches(mmu, v) :
          /\ mmu.tlb[i].dirty
          /\ frame' = [frame EXCEPT ![mmu.tlb[i].ppage] = x]
    /\ UNCHANGED <<procvars, vmvars, disk, panic>>

\* A store to a page that is not dirty: VM_FAULT_READONLY ends the process.
StoreReadOnly(p, v) ==
    /\ \E i \in Matches(mmu, v) : ~mmu.tlb[i].dirty
    /\ sys__exit(p)

(***************************************************************************)
(* Transfers.  emu_write copies the frame as soon as it has the lock and   *)
(* emu_doread copies into the frame at the end; whoever releases the lock  *)
(* runs on, so it may take it again before the thread it woke up.          *)
(***************************************************************************)
Sleep(p, how, v, ind, slot) ==
    /\ state' = [state EXCEPT ![p] = how]
    /\ fault' = [fault EXCEPT ![p] = [vaddr |-> v, ind |-> ind, slot |-> slot]]

\* swapinpage, up to the sleep in VOP_WRITE.
swapinpage(p, v, ind) ==
    /\ swap' = claimslot(swap, pt.pid[ind], pt.vaddr[ind])
    /\ Sleep(p, "swapin", v, ind, ClaimedSlot(swap))
    /\ \/ /\ e_lock = NULL
          /\ e_lock' = p
          /\ disk' = [disk EXCEPT ![ClaimedSlot(swap)] = frame[ind]]
       \/ /\ e_lock # NULL
          /\ UNCHANGED <<e_lock, disk>>

\* A thread that waited for the lock gets it.
lock_acquire(p) ==
    /\ ~panic
    /\ Asleep(p)
    /\ e_lock = NULL
    /\ e_lock' = p
    /\ disk' = IF state[p] = "swapin"
               THEN [disk EXCEPT ![fault[p].slot] = frame[fault[p].ind]]
               ELSE disk
    /\ UNCHANGED <<procvars, pt, swap, mmu, loaded, fault, frame, panic>>

\* p's transfer is complete and p runs again.
TransferDone(p, how) ==
    /\ ~panic
    /\ state[p] = how
    /\ e_lock = p
    /\ MayRun(p)

(***************************************************************************)
(* vm_fault.                                                               *)
(***************************************************************************)
Finish(p, m, v, ind) ==
    /\ mmu' = vmtlb_write(m, p, v, ind, v \in Writable)
    /\ state' = [state EXCEPT ![p] = "user"]
    /\ fault' = [fault EXCEPT ![p] = NOFAULT]

\* vm_fault from the return of allocuserpage on, with the table t, the TLB m
\* and the device lock as allocuserpage leaves it.
FillPage(p, v, ind, t, m, lock) ==
    /\ pt' = t
    /\ cur' = p
    /\ \/ /\ loaded[p][v] = 1
          /\ findslot(swap, p, v) # -1
          /\ Sleep(p, "swapout", v, ind, findslot(swap, p, v))
          /\ e_lock' = IF lock = NULL THEN p ELSE lock
          /\ mmu' = m
          /\ UNCHANGED <<loaded, frame>>
       \/ /\ loaded[p][v] = 1
          /\ findslot(swap, p, v) = -1
          /\ Finish(p, m, v, ind)
          /\ e_lock' = lock
          /\ UNCHANGED <<loaded, frame>>
       \/ /\ loaded[p][v] = 0
          /\ v \notin StackPages
          /\ Sleep(p, "elf", v, ind, 0)
          /\ e_lock' = IF lock = NULL THEN p ELSE lock
          /\ mmu' = m
          /\ UNCHANGED <<loaded, frame>>
       \/ /\ loaded[p][v] = 0
          /\ v \in StackPages
          /\ frame' = [frame EXCEPT ![ind] = ZERO]
          /\ loaded' = [loaded EXCEPT ![p][v] = 1]
          /\ Finish(p, m, v, ind)
          /\ e_lock' = lock
    /\ UNCHANGED <<swap, disk, last_i, panic>>

Faults(p, v) == InUserMode(p) /\ Matches(mmu, v) = {}

\* The page is resident: a TLB reload.
FaultReload(p, v) ==
    /\ Faults(p, v)
    /\ getpageaddr(pt, p, v) # 0
    /\ Finish(p, mmu, v, getpageaddr(pt, p, v))
    /\ UNCHANGED <<pt, swap, loaded, e_lock, cur, last_i, datavars, panic>>

\* allocuserpage finds a free frame, or neither a frame nor a victim: it then
\* returns physical address 0, which vm_fault uses like any other.
FaultFree(p, v) ==
    /\ Faults(p, v)
    /\ getpageaddr(pt, p, v) = 0
    /\ LET ind == getfreeframes(pt, 1) IN
        \/ /\ ind # -1
           /\ FillPage(p, v, ind, setptentry(pt, ind, 1, p, v), mmu, e_lock)
        \/ /\ ind = -1
           /\ pt.firstvictim = NULL
           /\ FillPage(p, v, 0, pt, mmu, e_lock)

\* allocuserpage picks a victim, releases ptspin and calls swapinpage.
FaultEvict(p, v) ==
    /\ Faults(p, v)
    /\ getpageaddr(pt, p, v) = 0
    /\ getfreeframes(pt, 1) = -1
    /\ pt.firstvictim # NULL
    /\ \/ /\ FreeSlots(swap) = {}
          /\ Halt
       \/ /\ FreeSlots(swap) # {}
          /\ swapinpage(p, v, pt.firstvictim)
          /\ UNCHANGED <<pt, mmu, loaded, cur, last_i, frame, panic>>

\* The end of allocuserpage follows a null pointer: there is no victim any more,
\* or the victim has no predecessor in the fifo list.
NullFollowed(victim) ==
    IF victim = NULL THEN TRUE ELSE FreeuserFaults(pt, pt.pid[victim], pt.vaddr[victim])

\* swapinpage returns: firstvictim is read again, three times.
FaultEvicted(p) ==
    /\ TransferDone(p, "swapin")
    /\ p \in UserPids
    /\ LET victim == pt.firstvictim
           m == vmtlb_invalidate(mmu, p)
       IN
        \/ /\ NullFollowed(victim)
           /\ Halt
        \/ /\ ~NullFollowed(victim)
           /\ FillPage(p, fault[p].vaddr, fault[p].ind,
                       setptentry(freeuser(pt, pt.pid[victim], pt.vaddr[victim]),
                                  fault[p].ind, 1, p, fault[p].vaddr),
                       vmtlb_invalidatepage(m, pt.vaddr[victim]), NULL)

\* The VOP_READ of swapoutpage returns.
FaultSwappedOut(p) ==
    /\ TransferDone(p, "swapout")
    /\ frame' = [frame EXCEPT ![fault[p].ind] = disk[fault[p].slot]]
    /\ swap' = freeslot(swap, fault[p].slot)
    /\ e_lock' = NULL
    /\ cur' = p
    /\ Finish(p, vmtlb_invalidate(mmu, p), fault[p].vaddr, fault[p].ind)
    /\ UNCHANGED <<pt, loaded, last_i, disk, panic>>

\* (bug: the device lock is not released)
FaultElfRead_holding(p) ==
    /\ TransferDone(p, "elf")
    /\ frame' = [frame EXCEPT ![fault[p].ind] = ELF(fault[p].vaddr)]
    /\ loaded' = [loaded EXCEPT ![p][fault[p].vaddr] = 1]
    /\ cur' = p
    /\ Finish(p, vmtlb_invalidate(mmu, p), fault[p].vaddr, fault[p].ind)
    /\ UNCHANGED <<pt, swap, e_lock, last_i, disk, panic>>

\* The VOP_READ of readfromelfto returns; past the end of the file it has
\* transferred nothing.
FaultElfRead(p) ==
    /\ TransferDone(p, "elf")
    /\ frame' = IF fault[p].vaddr \in InFile
                THEN [frame EXCEPT ![fault[p].ind] = ELF(fault[p].vaddr)]
                ELSE frame
    /\ loaded' = [loaded EXCEPT ![p][fault[p].vaddr] = 1]
    /\ e_lock' = NULL
    /\ cur' = p
    /\ Finish(p, vmtlb_invalidate(mmu, p), fault[p].vaddr, fault[p].ind)
    /\ UNCHANGED <<pt, swap, last_i, disk, panic>>

(***************************************************************************)
(* Kernel pages.                                                           *)
(***************************************************************************)
KernelFrames == {f \in KernelEnd .. PtSize - 1 : pt.pid[f] = KERNEL}

alloc_kpages ==
    /\ ~panic
    /\ ~Asleep(KERNEL)
    /\ Cardinality(KernelFrames) < MaxKernel
    /\ LET ind == getfreeframes(pt, 1) IN
        \/ /\ ind # -1
           /\ pt' = setptentry(pt, ind, 1, KERNEL, KVADDR(ind))
           /\ frame' = [frame EXCEPT ![ind] = KDATA]
           /\ UNCHANGED <<procvars, swap, mmu, loaded, fault, e_lock, disk, panic>>
        \/ /\ ind = -1
           /\ pt.firstvictim = NULL \/ FreeSlots(swap) = {}
           /\ Halt
        \/ /\ ind = -1
           /\ pt.firstvictim # NULL
           /\ FreeSlots(swap) # {}
           /\ MayRun(KERNEL)
           /\ swapinpage(KERNEL, 0, pt.firstvictim)
           /\ UNCHANGED <<pt, mmu, loaded, cur, last_i, frame, panic>>

\* swapinpage returns to getfreeppages, which ends in the release of ptspin
\* that it does not hold.
alloc_kpages_evicted ==
    /\ TransferDone(KERNEL, "swapin")
    /\ Halt

free_kpages(f) ==
    /\ ~panic
    /\ pt.pid[f] = KERNEL
    /\ pt' = freekernel(pt, f)
    /\ UNCHANGED <<procvars, swap, mmu, loaded, fault, e_lock, datavars, panic>>

Stopped == panic /\ UNCHANGED vars

\* Every step but those of vm_fault.
Elsewhere ==
    \/ runprogram
    \/ SwitchToKernel
    \/ \E p \in Threads : lock_acquire(p)
    \/ \E p \in UserPids :
          \/ sys_fork(p) \/ thread_switch(p) \/ sys__exit(p) \/ proc_destroy(p)
          \/ \E v \in Vaddrs :
                \/ \E x \in Values : Store(p, v, x)
                \/ StoreReadOnly(p, v)
    \/ alloc_kpages \/ alloc_kpages_evicted
    \/ \E f \in KernelEnd .. PtSize - 1 : free_kpages(f)
    \/ Stopped

vm_fault(p) ==
    \/ FaultEvicted(p) \/ FaultSwappedOut(p) \/ FaultElfRead(p)
    \/ \E v \in Vaddrs : FaultReload(p, v) \/ FaultFree(p, v) \/ FaultEvict(p, v)

Next == Elsewhere \/ \E p \in UserPids : vm_fault(p)

Spec == Init /\ [][Next]_vars

\* The next step of a thread that sleeps in a fault.
FaultContinues(p) ==
    lock_acquire(p) \/ FaultEvicted(p) \/ FaultSwappedOut(p) \/ FaultElfRead(p)

\* The device completes every transfer, its lock is handed on, and a thread that
\* was woken up is scheduled.
FairSpec == Spec /\ \A p \in UserPids : WF_vars(FaultContinues(p))

-----------------------------------------------------------------------------
\* p is filling the frame it has been given for page v.
Filling(p, v) == state[p] \in {"swapout", "elf"} /\ fault[p].vaddr = v

Resident(p, v) == \E f \in Frames : Holds(pt, f, p, v)

(***************************************************************************)
(* The running process sees its own memory: every translation in the TLB   *)
(* is the one the page table has now for a page of this process, and lets  *)
(* it write exactly what its segments let it write.  It rests on the flush *)
(* of as_activate, on the lastpid shortcut that skips it, on               *)
(* vmtlb_invalidatepage at an eviction and on the order in which pids are  *)
(* reused, since as_destroy leaves the dead process's entries in the TLB.  *)
(***************************************************************************)
TlbCoherent ==
    cur # KERNEL /\ state[cur] = "user" =>
        \A i \in TlbIndexes : LET e == mmu.tlb[i] IN
            e.valid => /\ Holds(pt, e.ppage, cur, e.vpage)
                       /\ e.dirty <=> e.vpage \in Writable

\* The TLB never holds two entries for one page, which the MIPS forbids:
\* vmtlb_write is reached only for a page that no entry matches, sleeps included.
TlbUnique == \A v \in Vaddrs : Cardinality(Matches(mmu, v)) <= 1

(***************************************************************************)
(* No page is lost and none has two copies: a page that has been loaded    *)
(* once is in one frame or in one slot of the swap file; both only while   *)
(* it is on its way between them.  swapoutpage therefore always finds the  *)
(* slot that vm_fault does not check for.                                  *)
(***************************************************************************)
OneCopy ==
    \A p \in UserPids : state[p] # "none" => \A v \in Vaddrs :
        LET slots == Cardinality(SlotsOf(swap, p, v))
            leaving == \E q \in Threads : /\ state[q] = "swapin"
                                           /\ Holds(pt, fault[q].ind, p, v)
        IN  /\ loaded[p][v] = 0 => slots = 0
            /\ loaded[p][v] = 1 /\ ~Resident(p, v) => slots = 1
            /\ Resident(p, v) => slots = IF Filling(p, v) THEN loaded[p][v]
                                         ELSE IF leaving THEN slots ELSE 0
            /\ slots <= 1

(***************************************************************************)
(* swapfile.h: "pid and vaddr are used as IDs to identify a single page":  *)
(* no two slots of the swap file are for the same page.                    *)
(***************************************************************************)
SlotIdentifiesPage ==
    \A s, t \in Slots : swap.map[s] = swap.map[t] /\ swap.map[s] # NOPAGE => s = t

(***************************************************************************)
(* ram.c: 0 is not a legal allocatable physical address, the page belongs  *)
(* to the exception handlers: a running process has no translation to it.  *)
(***************************************************************************)
FrameZeroUnmapped ==
    cur # KERNEL /\ state[cur] = "user" =>
        \A i \in TlbIndexes : mmu.tlb[i].valid => mmu.tlb[i].ppage # 0

\* vm_fault returns: a fault that waits for the device or its lock is served in
\* the end, unless the kernel has stopped.
FaultServed == \A p \in UserPids : Asleep(p) ~> (~Asleep(p) \/ panic)

\* as_destroy gives back every frame and every slot of a process, whatever was
\* in flight: a pid that is not in the process table owns neither.
NothingLeaked ==
    \A p \in UserPids : state[p] = "none" =>
        /\ \A f \in Frames : pt.pid[f] # p
        /\ \A s \in Slots : swap.map[s].pid # p

-----------------------------------------------------------------------------
\* The memory of a process as it would find it: in the frame, in the swap file,
\* or still in the image of the program.
Image(v) == IF v \in InFile THEN ELF(v) ELSE ZERO

Memory ==
    [p \in UserPids |-> [v \in Vaddrs |->
        IF state[p] = "none" THEN Image(v)
        ELSE IF Resident(p, v) /\ ~Filling(p, v)
             THEN frame[CHOOSE f \in Frames : Holds(pt, f, p, v)]
        ELSE IF SlotsOf(swap, p, v) # {} THEN disk[findslot(swap, p, v)]
        ELSE Image(v)]]

UM == INSTANCE UserMemory WITH mem <- Memory, running <- cur

(***************************************************************************)
(* Paging is invisible: the memory of every process changes only by its    *)
(* own stores to its writable pages; faults, evictions, the deaths of      *)
(* other processes and the allocations of the kernel change nothing in it. *)
(***************************************************************************)
ImplementsUserMemory == UM!Spec

(***************************************************************************)
(* addrspace.h: "as_copy - create a new address space that is an exact     *)
(* copy of an old one": the child of a fork has the memory of its parent.  *)
(***************************************************************************)
ForkCopies ==
    [][\A p \in UserPids : sys_fork(p) /\ ~panic' => Memory'[NewPid] = Memory[p]]_vars

=============================================================================
