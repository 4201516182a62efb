----------------------------- MODULE PageTable -----------------------------
(***************************************************************************)
(* The inverted page table library of kern/vm/pt.c, pointer by pointer:    *)
(* operators from tables to tables, used by the modules that model its     *)
(* callers.                                                                *)
(*                                                                         *)
(* A pointer to a struct ptpage is the index of its frame; NULL is -1.     *)
(* Addresses are in units of pages.                                        *)
(***************************************************************************)
EXTENDS Integers, FiniteSets, FiniteSetsExt

CONSTANTS
    PtSize,      \* ptsize: the number of frames of physical memory
    HashSize,    \* hashedptsize: the number of buckets of hashedpt
    KernelEnd,   \* frames below it hold the exception handlers and the kernel image
    FirstFree,   \* ram_getfirstfree()/PAGE_SIZE: frames below it are in use at boot
    PageSize,    \* PAGE_SIZE
    KSEG0,       \* the page number of MIPS_KSEG0, above every user page
    UserPids,    \* the pids of user processes (pid 0 is the kernel, -1 a free frame)
    Vaddrs       \* the pages of a user address space

NULL == -1
FREE == -1
KERNEL == 0

Frames == 0 .. PtSize - 1
Pointers == Frames \cup {NULL}

ASSUME SizesAssumption ==
    /\ PtSize \in Nat \ {0}
    /\ HashSize \in Nat \ {0}
    /\ KernelEnd \in 1 .. PtSize
    /\ FirstFree \in KernelEnd .. PtSize
    /\ PageSize \in Nat \ {0}
    /\ KSEG0 \in Nat

\* A pid fits below the page offset, so that vaddr|pid is vaddr+pid.
ASSUME PidsAssumption ==
    /\ UserPids \subseteq 1 .. PageSize - 1
    /\ Vaddrs \subseteq 0 .. KSEG0 - 1

\* A page table: the fields of the struct ptpage of each frame, the buckets and
\* the two ends of the fifo list.
Tables ==
    [pid : [Frames -> UserPids \cup {FREE, KERNEL}],
     vaddr : [Frames -> Nat],
     numpages : [Frames -> Nat],
     next : [Frames -> Pointers],
     fifonext : [Frames -> Pointers],
     hashedpt : [0 .. HashSize - 1 -> Pointers],
     firstvictim : Pointers,
     lastallocateduser : Pointers]

(***************************************************************************)
(* Walking a linked list.                                                  *)
(***************************************************************************)

\* n->nxt, or NULL once the walk has ended.
Follow(nxt, n) == IF n = NULL THEN NULL ELSE nxt[n]

\* The node reached from head after i steps along nxt.
Walk(nxt, head) ==
    LET node[i \in Nat] == IF i = 0 THEN head ELSE Follow(nxt, node[i-1])
    IN  node

\* The positions of the list's nodes; a list has at most PtSize of them.
Positions(nxt, head) == {i \in Frames : Walk(nxt, head)[i] # NULL}

Nodes(nxt, head) == {Walk(nxt, head)[i] : i \in Positions(nxt, head)}

\* The node at which "for(n=head;n;n=n->nxt) if(n->nxt==NULL)" stops.
LastNode(nxt, head) == Walk(nxt, head)[Max(Positions(nxt, head))]

\* The bucket of a page: (vaddr|pid)%hashedptsize.
Hash(pid, vaddr) == (vaddr * PageSize + pid) % HashSize

gethashedentry(t, pid, vaddr) == t.hashedpt[Hash(pid, vaddr)]

Holds(t, f, pid, vaddr) == t.pid[f] = pid /\ t.vaddr[f] = vaddr

\* (bug: the pid is not compared)
Hits_any_pid(t, pid, vaddr) ==
    LET w == Walk(t.next, gethashedentry(t, pid, vaddr))
    IN  {i \in Frames : w[i] # NULL /\ t.vaddr[w[i]] = vaddr}

\* The positions in the chain of <<pid, vaddr>> that hold that page.
Hits(t, pid, vaddr) ==
    LET w == Walk(t.next, gethashedentry(t, pid, vaddr))
    IN  {i \in Frames : w[i] # NULL /\ Holds(t, w[i], pid, vaddr)}

\* The node the hash-chain loops of freeuser and getpageaddr stop at.
Lookup(t, pid, vaddr) ==
    IF Hits(t, pid, vaddr) = {} THEN NULL
    ELSE Walk(t.next, gethashedentry(t, pid, vaddr))[Min(Hits(t, pid, vaddr))]

\* The frame of a page; physical address 0 stands for "not resident".
getpageaddr(t, pid, vaddr) ==
    IF Lookup(t, pid, vaddr) = NULL THEN 0 ELSE Lookup(t, pid, vaddr)

(***************************************************************************)
(* getfreeframes: first fit.  A frame inside a kernel block is marked free *)
(* like any other; only the numpages of the block's first frame keeps the  *)
(* outer loop from looking at it.                                          *)
(***************************************************************************)

\* (bug: the rest of a block is not skipped)
NextIndex_no_skip(t) == [i \in Nat |-> i + 1]

\* The i of the outer loop after one more iteration (its increment included).
NextIndex(t) ==
    [i \in Nat |-> IF i \in Frames /\ t.pid[i] # FREE /\ t.numpages[i] > 0
                   THEN i + t.numpages[i]
                   ELSE i + 1]

\* The i of the k-th iteration of the outer loop.
ScanIndex(t) ==
    LET index[k \in Nat] == IF k = 0 THEN 0 ELSE NextIndex(t)[index[k-1]]
    IN  index

\* The inner loop finds n free frames in a row from i on.
FreeRun(t, i, n) ==
    /\ n > 0
    /\ i + n <= PtSize
    /\ \A j \in i .. i + n - 1 : t.pid[j] = FREE

\* The iterations of the outer loop that return.
Fits(t, n) ==
    {k \in 0 .. PtSize : ScanIndex(t)[k] < PtSize /\ FreeRun(t, ScanIndex(t)[k], n)}

getfreeframes(t, n) ==
    IF Fits(t, n) = {} THEN -1 ELSE ScanIndex(t)[Min(Fits(t, n))]

(***************************************************************************)
(* Changing the table.                                                     *)
(***************************************************************************)

\* The new node of a user page goes to the tail of its hash chain and of the
\* fifo list.
setptentry(t, i, n, pid, vaddr) ==
    LET next     == [t.next EXCEPT ![i] = NULL]
        fifonext == [t.fifonext EXCEPT ![i] = NULL]
        head     == gethashedentry(t, pid, vaddr)
        user     == pid > 0
    IN  [pid |-> [t.pid EXCEPT ![i] = pid],
         vaddr |-> [t.vaddr EXCEPT ![i] = vaddr],
         numpages |-> [t.numpages EXCEPT ![i] = n],
         next |-> IF user /\ head # NULL
                  THEN [next EXCEPT ![LastNode(next, head)] = i] ELSE next,
         fifonext |-> IF user /\ t.lastallocateduser # NULL
                      THEN [fifonext EXCEPT ![t.lastallocateduser] = i] ELSE fifonext,
         hashedpt |-> IF user /\ head = NULL
                      THEN [t.hashedpt EXCEPT ![Hash(pid, vaddr)] = i] ELSE t.hashedpt,
         firstvictim |-> IF user /\ t.firstvictim = NULL THEN i ELSE t.firstvictim,
         lastallocateduser |-> IF user THEN i ELSE t.lastallocateduser]

\* The positions of the fifo list whose successor holds the page.
Predecessors(t, pid, vaddr) ==
    LET w == Walk(t.fifonext, t.firstvictim)
    IN  {i \in Frames : w[i] # NULL /\ w[i+1] # NULL /\ Holds(t, w[i+1], pid, vaddr)}

\* The fifo loop of freeuser follows node->fifonext->pid past the last node.
FreeuserFaults(t, pid, vaddr) ==
    /\ Lookup(t, pid, vaddr) # NULL
    /\ t.firstvictim \notin {NULL, Lookup(t, pid, vaddr)}
    /\ Predecessors(t, pid, vaddr) = {}

\* (bug: the predecessor still points to the removed node)
UnlinkNext_kept(t, node, pid, vaddr) == t.next

\* next, with the node taken out of its hash chain.
UnlinkNext(t, node, pid, vaddr) ==
    LET w == Walk(t.next, gethashedentry(t, pid, vaddr))
        k == Min(Hits(t, pid, vaddr))
    IN  IF k = 0 THEN t.next ELSE [t.next EXCEPT ![w[k-1]] = t.next[node]]

\* (bug: the fifo list is cut at the removed node)
UnlinkFifo_cut(t, node, pid, vaddr) ==
    [f \in Frames |-> IF t.fifonext[f] = node THEN NULL ELSE t.fifonext[f]]

\* fifonext, with the node's predecessor made to skip it.
UnlinkFifo(t, node, pid, vaddr) ==
    LET w == Walk(t.fifonext, t.firstvictim)
        m == w[Min(Predecessors(t, pid, vaddr))]
    IN  IF t.firstvictim = node \/ Predecessors(t, pid, vaddr) = {} THEN t.fifonext
        ELSE [t.fifonext EXCEPT ![m] = t.fifonext[t.fifonext[m]]]

freeuser(t, pid, vaddr) ==
    LET node     == Lookup(t, pid, vaddr)
        next     == UnlinkNext(t, node, pid, vaddr)
        fifonext == UnlinkFifo(t, node, pid, vaddr)
        victim   == IF t.firstvictim = node THEN t.fifonext[node] ELSE t.firstvictim
    IN  IF node = NULL THEN t
        ELSE [pid |-> [t.pid EXCEPT ![node] = FREE],
              vaddr |-> t.vaddr,
              numpages |-> [t.numpages EXCEPT ![node] = 0],
              next |-> [next EXCEPT ![node] = NULL],
              fifonext |-> [fifonext EXCEPT ![node] = NULL],
              hashedpt |-> IF gethashedentry(t, pid, vaddr) = node
                           THEN [t.hashedpt EXCEPT ![Hash(pid, vaddr)] = next[node]]
                           ELSE t.hashedpt,
              firstvictim |-> victim,
              lastallocateduser |->
                  IF t.lastallocateduser # node THEN t.lastallocateduser
                  ELSE IF victim = NULL THEN NULL
                  ELSE LastNode(fifonext, victim)]

\* (bug: -1 also for numpages)
freekernel_negative(t, i) ==
    [t EXCEPT !.pid[i] = FREE, !.numpages[i] = -1, !.next[i] = NULL, !.fifonext[i] = NULL]

freekernel(t, i) ==
    [t EXCEPT !.pid[i] = FREE, !.numpages[i] = 0, !.next[i] = NULL, !.fifonext[i] = NULL]

\* One iteration of the loop of removeptentries, and the table after i of them.
RemoveFrame(t, i, pid) == IF t.pid[i] = pid THEN freeuser(t, pid, t.vaddr[i]) ELSE t

AfterRemoving(t, pid) ==
    LET after[i \in 0 .. PtSize] == IF i = 0 THEN t ELSE RemoveFrame(after[i-1], i-1, pid)
    IN  after

\* (bug: the loop ends before the last frame)
removeptentries_short(t, pid) == AfterRemoving(t, pid)[PtSize - 1]

removeptentries(t, pid) == AfterRemoving(t, pid)[PtSize]

KVADDR(i) == KSEG0 + i

ptinit ==
    [pid |-> [f \in Frames |-> IF f < FirstFree THEN KERNEL ELSE FREE],
     vaddr |-> [f \in Frames |-> KVADDR(f)],
     numpages |-> [f \in Frames |-> IF f < FirstFree THEN 1 ELSE 0],
     next |-> [f \in Frames |-> NULL],
     fifonext |-> [f \in Frames |-> NULL],
     hashedpt |-> [b \in 0 .. HashSize - 1 |-> NULL],
     firstvictim |-> NULL,
     lastallocateduser |-> NULL]

=============================================================================
