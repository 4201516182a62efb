------------------------------ MODULE Vmstats -------------------------------
(***************************************************************************)
(* kern/vm/vmstats.c: the counters of the paging, incremented by vm_fault, *)
(* vmtlb_write and the swap file on the steps of Paging.                   *)
(*                                                                         *)
(* The counters only grow.  What is kept of them is what printvmstats      *)
(* compares: for each of its three sums, by how much the two sides differ. *)
(***************************************************************************)
EXTENDS Paging

VARIABLE counter

statvars == <<vars, counter>>

\* The sums that printvmstats names: left = the sum of right.
Left == [tlb |-> {"TLBFAULT"}, page |-> {"TLBFAULT"}, disk |-> {"PAGEFAULTDISK"}]

Right == [tlb |-> {"TLBFAULTWITHFREE", "TLBFAULTWITHREPLACE"},
          page |-> {"TLBRELOAD", "PAGEFAULTDISK", "PAGEFAULTZERO"},
          disk |-> {"PAGEFAULTELF", "PAGEFAULTSWAP"}]

vmstatsetup == counter = [sum \in DOMAIN Left |-> 0]

\* vmstatincr of each of these types.
vmstatincr(types) ==
    counter' = [sum \in DOMAIN Left |->
                   counter[sum] + Cardinality(types \cap Left[sum])
                                - Cardinality(types \cap Right[sum])]

StatInit == Init /\ vmstatsetup

-----------------------------------------------------------------------------
\* What vmtlb_write counts.
Placed(m) == IF m.tlbindex < NumTlb THEN "TLBFAULTWITHFREE" ELSE "TLBFAULTWITHREPLACE"

\* (bug: a page filled with zeroes is not counted)
Filled_uncounted(p, v, m) ==
    IF loaded[p][v] = 1
    THEN IF findslot(swap, p, v) = -1 THEN {"PAGEFAULTDISK", "PAGEFAULTSWAP", Placed(m)} ELSE {}
    ELSE IF v \in StackPages THEN {Placed(m)} ELSE {}

\* What vm_fault counts after allocuserpage, up to the next sleep: nothing if
\* it has to read first.
Filled(p, v, m) ==
    IF loaded[p][v] = 1
    THEN IF findslot(swap, p, v) = -1 THEN {"PAGEFAULTDISK", "PAGEFAULTSWAP", Placed(m)} ELSE {}
    ELSE IF v \in StackPages THEN {"PAGEFAULTZERO", Placed(m)} ELSE {}

CountReload(p, v) ==
    FaultReload(p, v) /\ vmstatincr({"TLBFAULT", "TLBRELOAD", Placed(mmu)})

CountFree(p, v) == FaultFree(p, v) /\ vmstatincr({"TLBFAULT"} \cup Filled(p, v, mmu))

CountEvict(p, v) == FaultEvict(p, v) /\ vmstatincr({"TLBFAULT"})

CountEvicted(p) ==
    /\ FaultEvicted(p)
    /\ vmstatincr({"SWAPWRITE"} \cup
                  IF panic' THEN {}
                  ELSE Filled(p, fault[p].vaddr, vmtlb_invalidate(mmu, p)))

CountSwappedOut(p) ==
    /\ FaultSwappedOut(p)
    /\ vmstatincr({"PAGEFAULTDISK", "PAGEFAULTSWAP", Placed(vmtlb_invalidate(mmu, p))})

CountElfRead(p) ==
    /\ FaultElfRead(p)
    /\ vmstatincr({"PAGEFAULTDISK", "PAGEFAULTELF", Placed(vmtlb_invalidate(mmu, p))})

StatNext ==
    \/ Elsewhere /\ UNCHANGED counter
    \/ \E p \in UserPids :
        \/ CountEvicted(p) \/ CountSwappedOut(p) \/ CountElfRead(p)
        \/ \E v \in Vaddrs : CountReload(p, v) \/ CountFree(p, v) \/ CountEvict(p, v)

StatSpec == StatInit /\ [][StatNext]_statvars

-----------------------------------------------------------------------------
(***************************************************************************)
(* The sums of printvmstats differ by exactly the faults in flight: while  *)
(* no process sleeps in vm_fault, whatever path its earlier faults took,   *)
(* every fault of the TLB is counted once as with free or with replace,    *)
(* once as a reload, a read or a zeroed page, and every read once as from  *)
(* the ELF file or the swap file.                                          *)
(***************************************************************************)
SumsAgree ==
    LET inflight == Cardinality({p \in UserPids : Asleep(p)})
    IN  ~panic => counter = [tlb |-> inflight, page |-> inflight, disk |-> 0]

=============================================================================
