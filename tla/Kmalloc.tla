------------------------------ MODULE Kmalloc ------------------------------
(***************************************************************************)
(* kern/vm/kmalloc.c: the kernel heap, used by any number of threads.      *)
(*                                                                         *)
(* A page of blocks of one size is described by a pageref.  Pagerefs live  *)
(* on pages of their own, found through kheaproots.  A section under       *)
(* kmalloc_spinlock is one step; the spinlock is given up around every     *)
(* call of alloc_kpages and free_kpages, which are steps of their own.     *)
(* The debugging modes (SLOW, GUARDS, LABELS...) are off, as in the code.  *)
(***************************************************************************)
EXTENDS Naturals, Sequences, FiniteSets, FiniteSetsExt, SequencesExt

CONSTANTS
    Callers,             \* the threads that use the heap
    NULL,
    KPages,              \* the frames 1..KPages are free or the kernel's
    PAGE_SIZE,
    Sizes,               \* sizes[], ascending
    Requests,            \* the sizes callers ask for
    NPAGEREFS_PER_PAGE,
    NUM_PAGEREFPAGES,
    MaxLive,             \* bound: blocks callers hold
    MaxLost              \* bound: pagerefs lost to a failed allocation

KmallocAssumption ==
    /\ \A i \in 1..Len(Sizes) : Sizes[i] \in 1..PAGE_SIZE
    /\ \A i \in 2..Len(Sizes) : Sizes[i - 1] < Sizes[i]
    /\ MaxLost + Cardinality(Callers) <= NPAGEREFS_PER_PAGE

VARIABLES
    kheaproots,   \* root -> [page, inuse]
    pagerefs,     \* pageref -> [page, blktype, free, nfree]
    sizebases,    \* block type -> the list of its pagerefs
    allbase,      \* the list of all pagerefs
    kpages,       \* the frames taken, each with the first one of its run
    live,         \* the blocks callers hold: [addr, len]
    call          \* caller -> [pc, blktype, page, ref, va]

heapvars == <<kheaproots, pagerefs, sizebases, allbase>>
vars == <<heapvars, kpages, live, call>>

NSIZES == Len(Sizes)
LARGEST_SUBPAGE_SIZE == Sizes[NSIZES]

Roots == 1..NUM_PAGEREFPAGES
Pagerefs == Roots \X (1..NPAGEREFS_PER_PAGE)

NoRef == [page |-> 0, blktype |-> 0, free |-> <<>>, nfree |-> 0]

Idle == [pc |-> "idle", blktype |-> 0, page |-> 0, ref |-> NULL, va |-> 0]

Init ==
    /\ kheaproots = [r \in Roots |-> [page |-> 0, inuse |-> {}]]
    /\ pagerefs = [pr \in Pagerefs |-> NoRef]
    /\ sizebases = [b \in 1..NSIZES |-> <<>>]
    /\ allbase = <<>>
    /\ kpages = [p \in {} |-> 0]
    /\ live = {}
    /\ call = [t \in Callers |-> Idle]

-----------------------------------------------------------------------------
(* Frames: alloc_kpages and free_kpages of coremap.c with no user pages *)

FreeRuns(n) ==
    {p \in 1..(KPages + 1 - n) : p..(p + n - 1) \cap DOMAIN kpages = {}}

\* The first run of n free frames, 0 if there is none.
alloc_kpages(n) == IF FreeRuns(n) = {} THEN 0 ELSE Min(FreeRuns(n))

Take(p, n) ==
    kpages' = [q \in DOMAIN kpages \cup p..(p + n - 1) |->
                 IF q \in DOMAIN kpages THEN kpages[q] ELSE p]

free_kpages(p) ==
    kpages' = [q \in {q \in DOMAIN kpages : kpages[q] # p} |-> kpages[q]]

-----------------------------------------------------------------------------
(* Helpers *)

blocktype(sz) == Min({i \in 1..NSIZES : sz <= Sizes[i]})

\* The number of blocks on a page.
PerPage(b) == PAGE_SIZE \div Sizes[b]

\* The free list of a new page: the loop leaves the last block at its head.
FreshList(b) == [i \in 1..PerPage(b) |-> (PerPage(b) - i) * Sizes[b]]

\* doalloc: pr gives its first free block away.
DoAlloc(pr, refs) ==
    /\ pagerefs' = [refs EXCEPT ![pr].free = Tail(@), ![pr].nfree = @ - 1]
    /\ live' = live \cup {[addr |-> refs[pr].page * PAGE_SIZE + Head(refs[pr].free),
                           len |-> Sizes[refs[pr].blktype]]}

\* The pagerefs of block type b with a free block, in list order.
WithRoom(b) == SelectSeq(sizebases[b], LAMBDA pr : pagerefs[pr].nfree > 0)

Return(t) == call' = [call EXCEPT ![t] = Idle]

Goto(t, pc) == call' = [call EXCEPT ![t].pc = pc]

-----------------------------------------------------------------------------
(* kmalloc *)

\* A request of whole pages.
kmalloc_pages(t, sz) ==
    /\ call[t].pc = "idle"
    /\ Cardinality(live) < MaxLive
    /\ sz >= LARGEST_SUBPAGE_SIZE
    /\ LET npages == (sz + PAGE_SIZE - 1) \div PAGE_SIZE
           address == alloc_kpages(npages)
       IN  /\ address # 0
           /\ Take(address, npages)
           /\ live' = live \cup {[addr |-> address * PAGE_SIZE, len |-> npages * PAGE_SIZE]}
    /\ UNCHANGED <<heapvars, call>>

\* subpage_kmalloc up to the end of the loop.
subpage_kmalloc(t, sz) ==
    /\ call[t].pc = "idle"
    /\ Cardinality(live) < MaxLive
    /\ sz < LARGEST_SUBPAGE_SIZE
    /\ LET b == blocktype(sz)
       IN  IF WithRoom(b) # <<>>
           THEN DoAlloc(Head(WithRoom(b)), pagerefs) /\ UNCHANGED call
           ELSE /\ call' = [call EXCEPT ![t].pc = "page", ![t].blktype = b]
                /\ UNCHANGED <<pagerefs, live>>
    /\ UNCHANGED <<kheaproots, sizebases, allbase, kpages>>

\* prpage = alloc_kpages(1), without the spinlock.
subpage_page(t) ==
    /\ call[t].pc = "page"
    /\ LET p == alloc_kpages(1)
       IN  IF p = 0
           THEN Return(t) /\ UNCHANGED kpages
           ELSE /\ Take(p, 1)
                /\ call' = [call EXCEPT ![t].pc = "pageref", ![t].page = p]
    /\ UNCHANGED <<heapvars, live>>

\* The new page goes to both lists, and its first block to the caller.
NewPage(t, pr) ==
    LET b == call[t].blktype
    IN  /\ DoAlloc(pr, [pagerefs EXCEPT ![pr] =
                        [page |-> call[t].page, blktype |-> b,
                         free |-> FreshList(b), nfree |-> PerPage(b)]])
        /\ sizebases' = [sizebases EXCEPT ![b] = <<pr>> \o @]
        /\ allbase' = <<pr>> \o allbase
        /\ Return(t)

RootsWithRoom == {r \in Roots : Cardinality(kheaproots[r].inuse) < NPAGEREFS_PER_PAGE}

\* (bug: the roots are filled from the last one)
FirstFree_last ==
    LET r == Max(RootsWithRoom)
    IN  <<r, Min((1..NPAGEREFS_PER_PAGE) \ kheaproots[r].inuse)>>

\* allocpageref's search: the first entry not in use.
FirstFree ==
    LET r == Min(RootsWithRoom)
    IN  <<r, Min((1..NPAGEREFS_PER_PAGE) \ kheaproots[r].inuse)>>

\* allocpageref up to the call of allocpagerefpage, and past it if the page of
\* pagerefs is there.
allocpageref(t) ==
    /\ call[t].pc = "pageref"
    /\ RootsWithRoom # {}
    /\ LET pr == FirstFree
       IN  /\ kheaproots' = [kheaproots EXCEPT ![pr[1]].inuse = @ \cup {pr[2]}]
           /\ IF kheaproots[pr[1]].page = 0
              THEN /\ call' = [call EXCEPT ![t].pc = "rootpage", ![t].ref = pr]
                   /\ UNCHANGED <<pagerefs, sizebases, allbase, live>>
              ELSE NewPage(t, pr)
    /\ UNCHANGED kpages

\* ran out
allocpageref_none(t) ==
    /\ call[t].pc = "pageref"
    /\ RootsWithRoom = {}
    /\ Goto(t, "giveup")
    /\ UNCHANGED <<heapvars, kpages, live>>

\* The entries in use that no list holds and nobody has a page for.
Lost ==
    {pr \in Pagerefs :
        /\ pr[2] \in kheaproots[pr[1]].inuse
        /\ pr \notin Range(allbase)
        /\ \A t \in Callers : call[t].ref = pr => call[t].pc = "rootlock" /\ call[t].va = 0}

\* allocpagerefpage: va = alloc_kpages(1), without the spinlock.
allocpagerefpage_alloc(t) ==
    /\ call[t].pc = "rootpage"
    /\ LET va == alloc_kpages(1)
       IN  /\ IF va = 0
              THEN Cardinality(Lost) < MaxLost /\ UNCHANGED kpages
              ELSE Take(va, 1)
           /\ call' = [call EXCEPT ![t].pc = "rootlock", ![t].va = va]
    /\ UNCHANGED <<heapvars, live>>

\* allocpagerefpage, with the spinlock again, and the rest of allocpageref:
\* the page goes to the root, which has none yet.
allocpagerefpage(t) ==
    /\ call[t].pc = "rootlock"
    /\ call[t].va # 0
    /\ LET r == call[t].ref[1]
       IN  IF kheaproots[r].page # 0
           THEN Goto(t, "rootextra") /\ UNCHANGED <<heapvars, live>>
           ELSE /\ kheaproots' = [kheaproots EXCEPT ![r].page = call[t].va]
                /\ NewPage(t, call[t].ref)
    /\ UNCHANGED kpages

\* There was no page for the root, unless somebody else had more luck.
allocpagerefpage_failed(t) ==
    /\ call[t].pc = "rootlock"
    /\ call[t].va = 0
    /\ IF kheaproots[call[t].ref[1]].page = 0
       THEN /\ call' = [call EXCEPT ![t].pc = "giveup", ![t].ref = NULL]
            /\ UNCHANGED <<pagerefs, sizebases, allbase, live>>
       ELSE NewPage(t, call[t].ref)
    /\ UNCHANGED <<kheaproots, kpages>>

\* Oops, somebody else allocated it: the page is given back ...
allocpagerefpage_extra(t) ==
    /\ call[t].pc = "rootextra"
    /\ free_kpages(call[t].va)
    /\ call' = [call EXCEPT ![t].pc = "ready", ![t].va = 0]
    /\ UNCHANGED <<heapvars, live>>

\* ... and the spinlock taken again.
allocpagerefpage_ready(t) ==
    /\ call[t].pc = "ready"
    /\ NewPage(t, call[t].ref)
    /\ UNCHANGED <<kheaproots, kpages>>

\* free_kpages(prpage) and return NULL.
subpage_giveup(t) ==
    /\ call[t].pc = "giveup"
    /\ free_kpages(call[t].page)
    /\ Return(t)
    /\ UNCHANGED <<heapvars, live>>

-----------------------------------------------------------------------------
(* kfree *)

\* The pagerefs of the page of an address.
PagerefsOf(addr) == {pr \in Range(allbase) : pagerefs[pr].page = addr \div PAGE_SIZE}

\* The page of pr is all free: both lists and the root forget it.
Retire(pr) ==
    /\ sizebases' = [sizebases EXCEPT ![pagerefs[pr].blktype] =
                        SelectSeq(@, LAMBDA x : x # pr)]
    /\ allbase' = SelectSeq(allbase, LAMBDA x : x # pr)
    /\ kheaproots' = [kheaproots EXCEPT ![pr[1]].inuse = @ \ {pr[2]}]
    /\ pagerefs' = [pagerefs EXCEPT ![pr] = NoRef]

\* With the block that is being freed, the whole page is free.
IsWhole(pr) == pagerefs[pr].nfree + 1 = PerPage(pagerefs[pr].blktype)

\* subpage_kfree of a block on one of the pages.
subpage_kfree(t, b) ==
    /\ call[t].pc = "idle"
    /\ \E pr \in PagerefsOf(b.addr) :
          IF IsWhole(pr)
          THEN /\ Retire(pr)
               /\ call' = [call EXCEPT ![t].pc = "freepage", ![t].page = pagerefs[pr].page]
          ELSE /\ pagerefs' = [pagerefs EXCEPT
                                 ![pr].free = <<b.addr % PAGE_SIZE>> \o @,
                                 ![pr].nfree = @ + 1]
               /\ UNCHANGED <<kheaproots, sizebases, allbase, call>>
    /\ live' = live \ {b}
    /\ UNCHANGED kpages

\* free_kpages(prpage), after the release of the spinlock.
subpage_kfree_page(t) ==
    /\ call[t].pc = "freepage"
    /\ free_kpages(call[t].page)
    /\ Return(t)
    /\ UNCHANGED <<heapvars, live>>

\* Not a subpage allocation: the pages go back.
kfree_pages(t, b) ==
    /\ call[t].pc = "idle"
    /\ PagerefsOf(b.addr) = {}
    /\ call' = [call EXCEPT ![t].pc = "freepage", ![t].page = b.addr \div PAGE_SIZE]
    /\ live' = live \ {b}
    /\ UNCHANGED <<heapvars, kpages>>

-----------------------------------------------------------------------------
Next ==
    \E t \in Callers :
        \/ \E sz \in Requests : kmalloc_pages(t, sz) \/ subpage_kmalloc(t, sz)
        \/ subpage_page(t)
        \/ allocpageref(t) \/ allocpageref_none(t)
        \/ allocpagerefpage_alloc(t) \/ allocpagerefpage(t) \/ allocpagerefpage_failed(t)
        \/ allocpagerefpage_extra(t) \/ allocpagerefpage_ready(t)
        \/ subpage_giveup(t)
        \/ \E b \in live : subpage_kfree(t, b) \/ kfree_pages(t, b)
        \/ subpage_kfree_page(t)

Spec == Init /\ [][Next]_vars

-----------------------------------------------------------------------------
(* Properties *)

Bytes(b) == b.addr..(b.addr + b.len - 1)

\* The free blocks of pr, as callers would get them.
FreeBlocks(pr) ==
    {[addr |-> pagerefs[pr].page * PAGE_SIZE + off, len |-> Sizes[pagerefs[pr].blktype]] :
        off \in Range(pagerefs[pr].free)}

\* What checksubpages and the assertions of kmalloc.c look for, and more: blocks
\* in the hands of callers share no byte, with each other or with a free block;
\* every page on the lists is cut exactly into its free and its held blocks;
\* nfree is the length of the free list; a pageref is on the list of its size
\* and on that of all, once on each, and is marked in its root; and freepageref
\* will get to that root, as it asserts that no entry is in use of the roots
\* before it that have no page.
HeapExact ==
    /\ \A b, c \in live : b # c => Bytes(b) \cap Bytes(c) = {}
    /\ \A pr \in Range(allbase) :
        LET held == {b \in live : b.addr \div PAGE_SIZE = pagerefs[pr].page}
        IN  /\ pagerefs[pr].nfree = Len(pagerefs[pr].free)
            /\ held \cap FreeBlocks(pr) = {}
            /\ held \cup FreeBlocks(pr) =
                 {[addr |-> pagerefs[pr].page * PAGE_SIZE + i * Sizes[pagerefs[pr].blktype],
                   len |-> Sizes[pagerefs[pr].blktype]] :
                     i \in 0..(PerPage(pagerefs[pr].blktype) - 1)}
            /\ pr[2] \in kheaproots[pr[1]].inuse
            /\ kheaproots[pr[1]].page # 0
            /\ \A r \in 1..(pr[1] - 1) :
                  kheaproots[r].page = 0 => kheaproots[r].inuse = {}
    /\ IsInjective(allbase)
    /\ \A b \in 1..NSIZES :
        /\ IsInjective(sizebases[b])
        /\ Range(sizebases[b]) = {pr \in Range(allbase) : pagerefs[pr].blktype = b}

\* The pages threads have between two sections under the spinlock.
InFlight ==
    {call[t].page : t \in {u \in Callers : call[u].page # 0}}
        \cup {call[t].va : t \in {u \in Callers : call[u].va # 0}}

\* No frame is lost and none serves two ends, although the spinlock is given up
\* around the calls of the page allocator: a run of frames is a page of blocks,
\* a page of pagerefs, a large block, or with a thread inside kmalloc or kfree.
PagesAccounted ==
    LET blocks == {pagerefs[pr].page : pr \in Range(allbase)}
        roots == {kheaproots[r].page : r \in {q \in Roots : kheaproots[q].page # 0}}
        large == {b.addr \div PAGE_SIZE :
                    b \in {c \in live : PagerefsOf(c.addr) = {}}}
    IN  /\ Range(kpages) = blocks \cup roots \cup large \cup InFlight
        /\ Cardinality(Range(kpages)) =
             Len(allbase) + Cardinality(roots) + Cardinality(large)
               + Cardinality({t \in Callers : call[t].page # 0})
               + Cardinality({t \in Callers : call[t].va # 0})

=============================================================================
