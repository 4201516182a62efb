------------------------------- MODULE Wchan -------------------------------
(***************************************************************************)
(* Wait channels (kern/thread/thread.c) and what kern/thread/synch.c       *)
(* builds on them, as operators on values.  A channel is the sequence of   *)
(* the threads that sleep on it; a thread that is in no channel is awake.  *)
(* Every operator is what happens under one hold of the spinlock that      *)
(* protects the channel.                                                   *)
(***************************************************************************)
EXTENDS Naturals, Sequences

Sleepers(wc) == {wc[i] : i \in DOMAIN wc}

wchan_create == <<>>

wchan_isempty(wc) == wc = <<>>

\* The half of wchan_sleep before the switch; the thread stays in the channel
\* until a wake-up takes it out.
wchan_sleep(wc, t) == Append(wc, t)

wchan_wakeone(wc) == IF wchan_isempty(wc) THEN wc ELSE Tail(wc)

wchan_wakeall(wc) == <<>>

(* Semaphores: the count and the channel. *)

sem_create(initial_count) == [count |-> initial_count, wchan |-> wchan_create]

\* One pass of the loop of P: the thread sleeps, or it takes a unit.
P_sleeps(s) == s.count = 0
P(s, t) == IF P_sleeps(s) THEN [s EXCEPT !.wchan = wchan_sleep(@, t)]
                          ELSE [s EXCEPT !.count = @ - 1]

\* (bug: V wakes nobody)
V_silent(s) == [s EXCEPT !.count = @ + 1]

V(s) == [count |-> s.count + 1, wchan |-> wchan_wakeone(s.wchan)]

(* Sleep locks: the owner and the channel. *)

lock_create(nobody) == [owner |-> nobody, wchan |-> wchan_create]

lock_do_i_hold(lk, t) == lk.owner = t

\* One pass of the loop of lock_acquire.
lock_acquire(lk, t, nobody) ==
    IF lk.owner # nobody THEN [lk EXCEPT !.wchan = wchan_sleep(@, t)]
                         ELSE [lk EXCEPT !.owner = t]

\* (bug: nobody is woken)
lock_release_silent(lk, t, nobody) ==
    IF lock_do_i_hold(lk, t) THEN [lk EXCEPT !.owner = nobody] ELSE lk

lock_release(lk, t, nobody) ==
    IF lock_do_i_hold(lk, t)
    THEN [owner |-> nobody, wchan |-> wchan_wakeone(lk.wchan)]
    ELSE lk

=============================================================================
