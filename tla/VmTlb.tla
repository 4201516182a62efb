------------------------------- MODULE VmTlb -------------------------------
(***************************************************************************)
(* kern/vm/vm_tlb.c: the TLB of the one cpu and the statics that manage    *)
(* it, as operators on a record                                            *)
(*   tlb                  index -> entry, INVALID or a translation         *)
(*   tlbindex             entries written since the last flush             *)
(*   tlbinvalidatedindex  an entry invalidated by an eviction, or -1       *)
(*   lastpid              the process whose entries the TLB holds, or 0    *)
(* Entries carry no process number (TLBLO_GLOBAL): a probe matches on the  *)
(* page alone.                                                             *)
(***************************************************************************)
EXTENDS Integers, FiniteSets

CONSTANTS
    NumTlb,      \* NUM_TLB
    UintRange    \* 2^32, scaled down: tlbindex is an unsigned int

ASSUME TlbAssumption ==
    /\ NumTlb \in Nat \ {0}
    /\ UintRange \in Nat
    /\ UintRange > NumTlb
    /\ UintRange % NumTlb = 0

TlbIndexes == 0 .. NumTlb - 1

INVALID == [valid |-> FALSE, vpage |-> 0, ppage |-> 0, dirty |-> FALSE]

Translation(vpage, ppage, dirty) ==
    [valid |-> TRUE, vpage |-> vpage, ppage |-> ppage, dirty |-> dirty]

EmptyTlb == [i \in TlbIndexes |-> INVALID]

tlb_init == [tlb |-> EmptyTlb, tlbindex |-> 0, tlbinvalidatedindex |-> -1, lastpid |-> 0]

Matches(m, vpage) == {i \in TlbIndexes : m.tlb[i].valid /\ m.tlb[i].vpage = vpage}

tlb_probe(m, vpage) ==
    IF Matches(m, vpage) = {} THEN -1 ELSE CHOOSE i \in Matches(m, vpage) : TRUE

\* (bug: the victim's translation stays)
vmtlb_invalidatepage_kept(m, vpage) == m

vmtlb_invalidatepage(m, vpage) ==
    LET ind == tlb_probe(m, vpage) IN
    IF ind < 0 THEN m
    ELSE [m EXCEPT !.tlb[ind] = INVALID, !.tlbinvalidatedindex = ind]

vmtlb_invalidate(m, pid) == IF pid = m.lastpid THEN m ELSE tlb_init

vmtlb_write(m, pid, vpage, ppage, writePriv) ==
    LET reuse == m.tlbinvalidatedindex >= 0
        ind   == IF reuse THEN m.tlbinvalidatedindex ELSE m.tlbindex % NumTlb
    IN  [m EXCEPT !.lastpid = pid,
                  !.tlb[ind] = Translation(vpage, ppage, writePriv),
                  !.tlbinvalidatedindex = -1,
                  !.tlbindex = IF reuse THEN @ ELSE (@ + 1) % UintRange]

=============================================================================
