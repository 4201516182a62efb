------------------------------- MODULE Malloc -------------------------------
(***************************************************************************)
(* userland/lib/libc/stdlib/malloc.c: the heap of a program.               *)
(*                                                                         *)
(* Addresses and sizes count units of MBLOCKSIZE bytes, the size of a      *)
(* header; the heap begins at unit 0.  A header is what is stored at its   *)
(* address: whoever overwrites it, or follows a wrong offset, is seen.     *)
(* sbrk is the kernel's: this kernel does not have it yet, so the library  *)
(* is modelled against what it expects of one.                             *)
(***************************************************************************)
EXTENDS Naturals, SequencesExt

CONSTANTS
    MBLOCKSIZE,    \* bytes of a unit
    SIZE_RANGE,    \* the number of values of a size_t, in bytes
    PAGE_UNITS,    \* units of a page
    Requests,      \* the sizes in bytes that the program asks for
    HeapLimit      \* bound: where sbrk fails

VARIABLES
    headers,       \* unit -> [prevblock, nextblock, inuse], for the headers written
    heaptop,
    held           \* the program's blocks: data unit -> the bytes asked for

vars == <<headers, heaptop, held>>

Init ==
    /\ headers = [u \in {} |-> 0]
    /\ heaptop = 0
    /\ held = [u \in {} |-> 0]

-----------------------------------------------------------------------------
(* Headers.  h is the headers in memory, top the end of the heap. *)

M_NEXT(h, mh) == mh + h[mh].nextblock
M_PREV(h, mh) == mh - h[mh].prevblock
M_SIZE(h, mh) == h[mh].nextblock - 1

Put(h, mh, header) == [u \in DOMAIN h \cup {mh} |-> IF u = mh THEN header ELSE h[u]]

\* (bug: the block above does not learn its new neighbour)
malloc_split_deaf(h, top, mh, size) ==
    IF M_SIZE(h, mh) - size < 2 THEN h
    ELSE Put([h EXCEPT ![mh].nextblock = size + 1], mh + size + 1,
             [prevblock |-> size + 1, nextblock |-> M_SIZE(h, mh) - size, inuse |-> FALSE])

\* __malloc_split: what is left beyond size units becomes a free block.
malloc_split(h, top, mh, size) ==
    LET mhnext == M_NEXT(h, mh)
        rest == M_SIZE(h, mh) - size
        split == Put([h EXCEPT ![mh].nextblock = size + 1], mh + size + 1,
                     [prevblock |-> size + 1, nextblock |-> rest, inuse |-> FALSE])
    IN  IF rest < 2 THEN h
        ELSE IF mhnext = top THEN split
        ELSE [split EXCEPT ![mhnext].prevblock = rest]

\* __malloc_trymerge of mh and the block above it, whose header goes.
malloc_trymerge(h, top, mh, mhnext) ==
    LET size == h[mh].nextblock + h[mhnext].nextblock
        merged == [u \in DOMAIN h \ {mhnext} |->
                     IF u = mh THEN [h[u] EXCEPT !.nextblock = size]
                     ELSE IF u = M_NEXT(h, mhnext) THEN [h[u] EXCEPT !.prevblock = size]
                     ELSE h[u]]
    IN  IF h[mh].inuse \/ h[mhnext].inuse THEN h ELSE merged

\* The headers the search of malloc visits, from the bottom of the heap.
Walk(h, top) ==
    LET Step(at, n) == Append(at, IF Last(at) < top THEN M_NEXT(h, Last(at)) ELSE top)
    IN  ToSet(FoldLeftDomain(Step, <<0>>, [n \in 1..top |-> n])) \ {top}

Visited == Walk(headers, heaptop)

-----------------------------------------------------------------------------
(* malloc and free *)

\* Bytes rounded up to units; the sum is a size_t and may wrap.
Units(bytes) == ((bytes + MBLOCKSIZE - 1) % SIZE_RANGE) \div MBLOCKSIZE

\* First fit: free, and big enough.
Fits(size) == {mh \in Visited : ~headers[mh].inuse /\ M_SIZE(headers, mh) >= size}

Hold(mh, bytes) ==
    held' = [u \in DOMAIN held \cup {mh + 1} |-> IF u = mh + 1 THEN bytes ELSE held[u]]

malloc_found(bytes) ==
    LET size == Units(bytes)
        mh == Min(Fits(size))
    IN  /\ Fits(size) # {}
        /\ headers' = [malloc_split(headers, heaptop, mh, size) EXCEPT ![mh].inuse = TRUE]
        /\ Hold(mh, bytes)
        /\ UNCHANGED heaptop

\* The block at the top of the heap, if there is one and it is free.
FreeTop == {mh \in Visited : M_NEXT(headers, mh) = heaptop /\ ~headers[mh].inuse}

\* The last nextblock that the search has seen.
rightprevblock == IF heaptop = 0 THEN 0
                  ELSE headers[CHOOSE mh \in Visited : M_NEXT(headers, mh) = heaptop].nextblock

\* Units rounded up to whole pages.
Pages(units) == PAGE_UNITS * ((units + PAGE_UNITS - 1) \div PAGE_UNITS)

\* __malloc_sbrk gives more space, to the free block at the top or a new one.
malloc_expand(bytes) ==
    LET size == Units(bytes)
        mh == IF FreeTop = {} THEN heaptop ELSE Min(FreeTop)
        morespace == Pages(IF FreeTop = {} THEN 1 + size ELSE size - M_SIZE(headers, mh))
        top == heaptop + morespace
        grown == IF FreeTop = {}
                 THEN Put(headers, mh, [prevblock |-> rightprevblock, nextblock |-> morespace,
                                        inuse |-> TRUE])
                 ELSE [headers EXCEPT ![mh].nextblock = @ + morespace, ![mh].inuse = TRUE]
    IN  /\ Fits(size) = {}
        /\ top <= HeapLimit
        /\ headers' = malloc_split(grown, top, mh, size)
        /\ heaptop' = top
        /\ Hold(mh, bytes)

\* free: the block is merged with the one above, then with the one below.
free(x) ==
    LET mh == x - 1
        freed == [headers EXCEPT ![mh].inuse = FALSE]
        above == M_NEXT(freed, mh)
        h == IF above = heaptop THEN freed ELSE malloc_trymerge(freed, heaptop, mh, above)
    IN  /\ headers' = IF mh = 0 THEN h ELSE malloc_trymerge(h, heaptop, M_PREV(h, mh), mh)
        /\ held' = [u \in DOMAIN held \ {x} |-> held[u]]
        /\ UNCHANGED heaptop

-----------------------------------------------------------------------------
Next ==
    \/ \E bytes \in Requests : malloc_found(bytes) \/ malloc_expand(bytes)
    \/ \E x \in DOMAIN held : free(x)

Spec == Init /\ [][Next]_vars

-----------------------------------------------------------------------------
(* Properties *)

\* The checks of malloc and free ("Heap corrupt", "Internal error") never fail,
\* whatever the order of calls: the headers reached from the bottom are all
\* there are and end exactly at the top, each knows the size of the one below;
\* no two neighbours are free; the blocks in use are the program's, each at
\* least as large as it asked for.
ChainExact ==
    /\ DOMAIN headers = Visited
    /\ \A mh \in Visited :
        /\ headers[mh].nextblock >= 1 /\ M_NEXT(headers, mh) <= heaptop
        /\ mh = 0 => headers[mh].prevblock = 0
        /\ M_NEXT(headers, mh) # heaptop =>
            /\ headers[M_NEXT(headers, mh)].prevblock = headers[mh].nextblock
            /\ headers[mh].inuse \/ headers[M_NEXT(headers, mh)].inuse
        /\ headers[mh].inuse = (mh + 1 \in DOMAIN held)
    /\ \A x \in DOMAIN held :
        x - 1 \in Visited /\ x < heaptop /\ M_SIZE(headers, x - 1) * MBLOCKSIZE >= held[x]

=============================================================================
