----------------------------- MODULE MCMachines -----------------------------
(***************************************************************************)
(* Paging and its statistics on several machines in one run of TLC: the    *)
(* initial state chooses the sizes and bounds of the machine, which then   *)
(* stays the same.                                                         *)
(***************************************************************************)
EXTENDS Integers

CONSTANTS KernelEnd, FirstFree, PageSize, KSEG0, NumTlb, UintRange, Values

VARIABLES pt, swap, mmu, loaded, state, fault, e_lock, cur, last_i, frame, disk, panic,
          counter, machine

vars == <<pt, swap, mmu, loaded, state, fault, e_lock, cur, last_i, frame, disk, panic,
          counter, machine>>

OneValue == {2}

\* Two processes of two pages, a text page and a stack page, share two frames.
Two == [PtSize |-> 3, HashSize |-> 1, Pages |-> {1, 2}, SwapPages |-> 3, MaxProc |-> 3,
        MaxLive |-> 2, MaxKernel |-> 0, ReusePids |-> FALSE, Overlap |-> FALSE]

\* One process of three pages at a time, pids that wrap around, a kernel that
\* allocates and a swap file of one slot.
One == [Two EXCEPT !.HashSize = 2, !.Pages = {1, 2, 3}, !.SwapPages = 1,
                   !.MaxLive = 1, !.MaxKernel = 1, !.ReusePids = TRUE]

\* Room for every page, and loads that overlap.
Roomy == [Two EXCEPT !.PtSize = 5, !.HashSize = 2, !.SwapPages = 2, !.Overlap = TRUE]

\* The overlapping faults of two processes compete for one frame.
OneFrame == [Two EXCEPT !.PtSize = 2, !.HashSize = 2, !.Overlap = TRUE]

\* The kernel may take every frame.
NoFrames == [Two EXCEPT !.HashSize = 2, !.SwapPages = 2, !.MaxProc = 2,
                        !.MaxLive = 1, !.MaxKernel = 3, !.ReusePids = TRUE]

Machines == {Two, One, Roomy, OneFrame, NoFrames}

Stack(m) == {CHOOSE v \in m.Pages : \A w \in m.Pages : w <= v}

On(m) == INSTANCE Vmstats WITH
    PtSize <- m.PtSize, HashSize <- m.HashSize, Vaddrs <- m.Pages,
    SwapPages <- m.SwapPages, MaxProc <- m.MaxProc, UserPids <- 2 .. m.MaxProc,
    StackPages <- Stack(m), Writable <- m.Pages \ {1}, InFile <- m.Pages \ Stack(m),
    MaxLive <- m.MaxLive, MaxKernel <- m.MaxKernel,
    ReusePids <- m.ReusePids, Overlap <- m.Overlap

Init == \E m \in Machines : machine = m /\ On(m)!StatInit

Next == \E m \in Machines : machine = m /\ On(m)!StatNext /\ UNCHANGED machine

Spec == Init /\ [][Next]_vars

-----------------------------------------------------------------------------
\* Paging!TlbCoherent, where the kernel leaves frames to the processes: the TLB
\* has only translations of the running process, to frames that hold its pages.
\* On every machine it never has two for one page.
TlbCoherent ==
    /\ \A m \in Machines \ {NoFrames} : machine = m => On(m)!TlbCoherent
    /\ \A m \in Machines : machine = m => On(m)!TlbUnique

\* Paging!OneCopy, with one transfer at a time: a page that was loaded is in one
\* frame or in one slot of the swap file.
OneCopy == machine = Two => On(Two)!OneCopy

\* Paging!NothingLeaked: as_destroy gives back every frame and slot, whatever
\* transfer was in flight, frame 0 of a failed allocuserpage included.
NothingLeaked == \A m \in Machines : machine = m => On(m)!NothingLeaked

\* Vmstats!SumsAgree: the counters differ by the faults in flight.
SumsAgree == \A m \in Machines : machine = m => On(m)!SumsAgree

\* Paging!ImplementsUserMemory, with evictions one at a time: faults, deaths and
\* kernel allocations leave the memory of every process alone.
ImplementsUserMemory ==
    /\ \A m \in {Two, One, Roomy} : machine = m => On(m)!UM!Init
    /\ [][\A m \in {Two, One, Roomy} : machine = m =>
             \/ On(m)!UM!Next
             \/ UNCHANGED <<On(m)!Memory, cur>>]_vars
=============================================================================
