----------------------------- MODULE UserMemory -----------------------------
(***************************************************************************)
(* What demand paging promises to user processes: each has a memory of its *)
(* own, which starts as the image of its program (pages of the file, zero  *)
(* elsewhere) and changes only when the process itself, running, stores    *)
(* into one of its writable pages.                                         *)
(***************************************************************************)
CONSTANTS UserPids, Vaddrs, Writable, Values, Image(_)

VARIABLES
    mem,        \* pid -> page -> contents
    running     \* the process on the cpu, or the kernel

Fresh == [v \in Vaddrs |-> Image(v)]

Init == mem = [p \in UserPids |-> Fresh]

Write(p, v, x) ==
    /\ running = p
    /\ running' = p
    /\ mem' = [mem EXCEPT ![p][v] = x]

\* The process is gone; the next one with its pid starts afresh.
Reset(p) ==
    /\ mem' = [mem EXCEPT ![p] = Fresh]
    /\ UNCHANGED running

Switch == UNCHANGED mem

Next ==
    \/ \E p \in UserPids :
          \/ \E v \in Writable, x \in Values : Write(p, v, x)
          \/ Reset(p)
    \/ Switch

Spec == Init /\ [][Next]_<<mem, running>>

=============================================================================
