------------------------------ MODULE Coremap ------------------------------
(***************************************************************************)
(* The operations of kern/vm/coremap.c on the page table.  Each one runs   *)
(* under ptspin, so each is one step; the disk write in the middle of an   *)
(* eviction, where ptspin is released, is taken apart in Paging.           *)
(***************************************************************************)
EXTENDS PageTable, Sequences

CONSTANTS MaxBlock    \* bound: the largest npages asked of alloc_kpages

ASSUME MaxBlockAssumption == MaxBlock \in Nat \ {0}

VARIABLES
    pt,       \* pt[], hashedpt[], firstvictim, lastallocateduser
    panic     \* "no", or why the kernel has stopped

vars == <<pt, panic>>

\* (bug: the newest page is replaced)
Victim_newest(t) == t.lastallocateduser

\* The frame the replacement policy gives up, and the page it holds.
Victim(t) == t.firstvictim

evictvictim(t) == freeuser(t, t.pid[Victim(t)], t.vaddr[Victim(t)])

Init ==
    /\ pt = ptinit
    /\ panic = "no"

\* vm_fault asks for a frame only for a page that has none.
allocuserpage(pid, vaddr) ==
    /\ panic = "no"
    /\ getpageaddr(pt, pid, vaddr) = 0
    /\ LET ind == getfreeframes(pt, 1) IN
        \/ /\ ind # -1
           /\ pt' = setptentry(pt, ind, 1, pid, vaddr)
        \/ /\ ind = -1
           /\ Victim(pt) # NULL
           /\ pt' = setptentry(evictvictim(pt), Victim(pt), 1, pid, vaddr)
        \/ /\ ind = -1
           /\ Victim(pt) = NULL
           /\ UNCHANGED pt
    /\ UNCHANGED panic

freeuserpage(pid, vaddr) ==
    /\ panic = "no"
    /\ pt' = freeuser(pt, pid, vaddr)
    /\ UNCHANGED panic

\* as_destroy, by way of removeptentries.
RemoveProcess(pid) ==
    /\ panic = "no"
    /\ pt' = removeptentries(pt, pid)
    /\ UNCHANGED panic

(***************************************************************************)
(* Kernel pages.  Without n free frames in a row getfreeppages evicts one  *)
(* page, and goes on with ind = -1 and without ptspin: it stores outside   *)
(* pt[] and then releases a spinlock it does not hold.                     *)
(***************************************************************************)
getfreeppages(n) ==
    /\ panic = "no"
    /\ LET ind == getfreeframes(pt, n) IN
        \/ /\ ind # -1
           /\ pt' = setptentry(pt, ind, n, KERNEL, KVADDR(ind))
           /\ UNCHANGED panic
        \/ /\ ind = -1
           /\ Victim(pt) = NULL
           /\ panic' = "no space left on memory"
           /\ UNCHANGED pt
        \/ /\ ind = -1
           /\ Victim(pt) # NULL
           /\ pt' = evictvictim(pt)
           /\ panic' = "spinlock_release of a lock not held"

\* The kernel frees what alloc_kpages returned, or a page stolen at boot.
free_kpages(i) ==
    /\ panic = "no"
    /\ pt.pid[i] = KERNEL
    /\ pt' = freekernel(pt, i)
    /\ UNCHANGED panic

Stopped == panic # "no" /\ UNCHANGED vars

Next ==
    \/ \E pid \in UserPids, vaddr \in Vaddrs :
           allocuserpage(pid, vaddr) \/ freeuserpage(pid, vaddr)
    \/ \E pid \in UserPids : RemoveProcess(pid)
    \/ \E n \in 1 .. MaxBlock : getfreeppages(n)
    \/ \E i \in KernelEnd .. PtSize - 1 : free_kpages(i)
    \/ Stopped

Spec == Init /\ [][Next]_vars

-----------------------------------------------------------------------------
TypeOK ==
    /\ pt \in Tables
    /\ panic \in {"no", "no space left on memory", "spinlock_release of a lock not held"}

UserFrames == {f \in Frames : pt.pid[f] \in UserPids}

\* The block of frames headed by an allocated frame.
Block(t, f) == f .. f + t.numpages[f] - 1

(***************************************************************************)
(* getfreeframes never hands out a frame that lies inside a live block:    *)
(* the blocks of allocated frames are disjoint and inside memory, although *)
(* the inner frames of a kernel block look free in the table (pt.c:15-26). *)
(***************************************************************************)
BlocksDisjoint ==
    \A f \in Frames : pt.pid[f] # FREE =>
        /\ Block(pt, f) # {}
        /\ Block(pt, f) \subseteq Frames
        /\ \A g \in Frames \ {f} : pt.pid[g] # FREE => Block(pt, f) \cap Block(pt, g) = {}

\* The list from head holds exactly the frames of S, each of them once.
ListOf(nxt, head, S) ==
    /\ Nodes(nxt, head) = S
    /\ Cardinality(Positions(nxt, head)) = Cardinality(S)
    /\ Walk(nxt, head)[Cardinality(S)] = NULL

(***************************************************************************)
(* The fifo list of setptentry and freeuser holds every resident user page *)
(* exactly once, ends, and lastallocateduser is its last node, so that the *)
(* replacement policy can reach every page and appends never lose one.     *)
(***************************************************************************)
FifoExact ==
    /\ ListOf(pt.fifonext, pt.firstvictim, UserFrames)
    /\ pt.lastallocateduser = IF pt.firstvictim = NULL THEN NULL
                              ELSE LastNode(pt.fifonext, pt.firstvictim)

(***************************************************************************)
(* Each hash chain holds exactly the resident user pages of its bucket,    *)
(* each once: a lookup finds a page if and only if it is resident.         *)
(***************************************************************************)
HashExact ==
    \A b \in 0 .. HashSize - 1 :
        ListOf(pt.next, pt.hashedpt[b],
               {f \in UserFrames : Hash(pt.pid[f], pt.vaddr[f]) = b})

(***************************************************************************)
(* "pid and vaddr are used as IDs for a single page" (pt.h): no page is    *)
(* ever resident in two frames, and getpageaddr is the inverse of the      *)
(* table: it returns the frame that holds the page, never another's.       *)
(***************************************************************************)
PageIdentifiesFrame ==
    \A pid \in UserPids, vaddr \in Vaddrs :
        LET holders == {f \in Frames : Holds(pt, f, pid, vaddr)} IN
        holders = IF getpageaddr(pt, pid, vaddr) = 0 THEN {}
                  ELSE {getpageaddr(pt, pid, vaddr)}

(***************************************************************************)
(* The fifo loop of freeuser reads node->fifonext->pid without testing     *)
(* node->fifonext (pt.c:84): it always meets the page it looks for before  *)
(* the end of the list, whichever page is freed.                           *)
(***************************************************************************)
NoNullFollowed ==
    \A pid \in UserPids, vaddr \in Vaddrs : ~FreeuserFaults(pt, pid, vaddr)

(***************************************************************************)
(* An assertion of spinlock_release (thread/spinlock.c:132): the lock is   *)
(* held by the cpu that releases it.                                       *)
(***************************************************************************)
LockHeldAtRelease == panic # "spinlock_release of a lock not held"

(***************************************************************************)
(* removeptentries takes away every frame of the dying process and none of *)
(* another process or of the kernel, wherever its pages were in the lists. *)
(***************************************************************************)
RemovesExactly ==
    [][\A pid \in UserPids : RemoveProcess(pid) =>
           \A f \in Frames : pt'.pid[f] = IF pt.pid[f] = pid THEN FREE ELSE pt.pid[f]]_vars

-----------------------------------------------------------------------------
\* The resident user pages in the order of the fifo list.
Queue ==
    LET w == Walk(pt.fifonext, pt.firstvictim)
        length == Cardinality(Positions(pt.fifonext, pt.firstvictim))
    IN  [i \in 1 .. length |-> <<pt.pid[w[i-1]], pt.vaddr[w[i-1]]>>]

FQ == INSTANCE FifoQueue WITH queue <- Queue

(***************************************************************************)
(* The singly linked fifo list implements first-in first-out replacement:  *)
(* whatever frees happened in between, the victim of allocuserpage is the  *)
(* page that has been resident longest.                                    *)
(***************************************************************************)
ImplementsFifoQueue == FQ!Spec

=============================================================================
