----------------------------- MODULE FifoQueue -----------------------------
(***************************************************************************)
(* The page replacement policy the page table promises: the resident user  *)
(* pages form a queue in the order in which they were brought in.  A page  *)
(* enters at the end, the page that is replaced is always the oldest one,  *)
(* and releasing pages keeps the order of the others.                      *)
(***************************************************************************)
EXTENDS Naturals, Sequences

CONSTANTS UserPids, Vaddrs

VARIABLE queue

Pages == UserPids \X Vaddrs

Resident == {queue[i] : i \in 1 .. Len(queue)}

Init == queue = <<>>

Admit(page) ==
    /\ page \notin Resident
    /\ queue' = Append(queue, page)

Replace(page) ==
    /\ page \notin Resident
    /\ queue # <<>>
    /\ queue' = Append(Tail(queue), page)

Evict ==
    /\ queue # <<>>
    /\ queue' = Tail(queue)

\* The pages of rest stay, in the order in which they were.
Keep(rest) ==
    /\ queue' \in Seq(rest)
    /\ Resident' = rest
    /\ \A i, j \in 1 .. Len(queue') : i < j =>
        \E k, l \in 1 .. Len(queue) : k < l /\ queue[k] = queue'[i] /\ queue[l] = queue'[j]

Release(page) == Keep(Resident \ {page})
ReleaseAll(pid) == Keep({page \in Resident : page[1] # pid})

Next ==
    \/ \E page \in Pages : Admit(page) \/ Replace(page) \/ Release(page)
    \/ Evict
    \/ \E pid \in UserPids : ReleaseAll(pid)

Spec == Init /\ [][Next]_queue

=============================================================================
