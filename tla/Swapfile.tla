------------------------------ MODULE Swapfile ------------------------------
(***************************************************************************)
(* kern/vm/swapfile.c: the map of the swap file, as operators on a record  *)
(*   map                slot -> the page kept there (pid -1: none)         *)
(*   maxindswappedpage  the highest slot ever used                         *)
(* Each operator is what happens under one hold of swapspin.               *)
(***************************************************************************)
EXTENDS Integers, FiniteSets, FiniteSetsExt

CONSTANTS SwapPages    \* SWAPPAGES

ASSUME SwapAssumption == SwapPages \in Nat \ {0}

Slots == 0 .. SwapPages - 1

NOPAGE == [pid |-> -1, addr |-> 0]

swapinit == [map |-> [s \in Slots |-> NOPAGE], maxindswappedpage |-> 0]

FreeSlots(sw) == {s \in Slots : sw.map[s].pid = -1}

\* The slot of the first loop of swapinpage, and the map after it.
ClaimedSlot(sw) == Min(FreeSlots(sw))

claimslot(sw, pid, addr) ==
    LET s == ClaimedSlot(sw) IN
    [map |-> [sw.map EXCEPT ![s] = [pid |-> pid, addr |-> addr]],
     maxindswappedpage |-> IF s >= sw.maxindswappedpage THEN s ELSE sw.maxindswappedpage]

\* (bug: the pid is not compared)
SlotsOf_any_pid(sw, pid, addr) == {s \in Slots : sw.map[s].pid # -1 /\ sw.map[s].addr = addr}

\* The slot of the first loop of swapoutpage, -1 if there is none.
SlotsOf(sw, pid, addr) == {s \in Slots : sw.map[s].pid = pid /\ sw.map[s].addr = addr}

findslot(sw, pid, addr) ==
    IF SlotsOf(sw, pid, addr) = {} THEN -1 ELSE Min(SlotsOf(sw, pid, addr))

\* (bug: the slot is not given back)
freeslot_kept(sw, s) == sw

\* The end of swapoutpage.
freeslot(sw, s) == [sw EXCEPT !.map[s] = NOPAGE]

\* (bug: < maxindswappedpage)
removeswapentries_short(sw, pid) ==
    [sw EXCEPT !.map =
        [s \in Slots |-> IF s < sw.maxindswappedpage /\ sw.map[s].pid = pid
                         THEN NOPAGE ELSE sw.map[s]]]

removeswapentries(sw, pid) ==
    [sw EXCEPT !.map =
        [s \in Slots |-> IF s <= sw.maxindswappedpage /\ sw.map[s].pid = pid
                         THEN NOPAGE ELSE sw.map[s]]]

=============================================================================
