-------------------------------- MODULE Lhd ---------------------------------
(***************************************************************************)
(* The disk driver (kern/dev/lamebus/lhd.c): transfers of whole sectors    *)
(* through the one buffer of the card, by threads that take turns on       *)
(* lh_clear and wait for the interrupt on lh_done.                         *)
(*                                                                         *)
(* Offsets and lengths count sectors; a sector holds one value.  The disk  *)
(* itself is external: it works on what is in its registers and its        *)
(* buffer, may fail, and interrupts.                                       *)
(***************************************************************************)
EXTENDS Naturals, FiniteSets

CONSTANTS
    NULL,
    Threads,
    Values,
    d_blocks,      \* sectors of the disk
    WORD_RANGE,    \* the number of values of a sector number
    Calls          \* the calls made: [rw, sector, len, aligned]

VARIABLES
    lh,            \* lh_softc: lh_clear, lh_done, lh_result
    card,          \* the card: sector, status and operation registers, buffer
    disk,          \* sector -> value
    io             \* thread -> [pc, call, i, value, status]

vars == <<lh, card, disk, io>>

Idle == [pc |-> "idle", call |-> NULL, i |-> 0, value |-> NULL, status |-> "ok"]

Init ==
    /\ lh = [clear |-> 1, done |-> 0, result |-> "ok"]
    /\ card = [sect |-> 0, stat |-> "idle", rw |-> "read", buf |-> NULL]
    /\ disk \in [0..d_blocks - 1 -> {CHOOSE v \in Values : TRUE}]
    /\ io = [t \in Threads |-> Idle]

Sector(t) == (io[t].call.sector + io[t].i) % WORD_RANGE

-----------------------------------------------------------------------------
(* The card *)

\* An operation ends: done, refused (no such sector) or failed.
Complete ==
    /\ card.stat = "working"
    /\ \/ /\ card.sect >= d_blocks
          /\ card' = [card EXCEPT !.stat = "invsect"]
          /\ UNCHANGED disk
       \/ /\ card.sect < d_blocks
          /\ \/ card' = [card EXCEPT !.stat = "media"] /\ UNCHANGED disk
             \/ /\ card.rw = "read"
                /\ card' = [card EXCEPT !.stat = "ok", !.buf = disk[card.sect]]
                /\ UNCHANGED disk
             \/ /\ card.rw = "write"
                /\ card' = [card EXCEPT !.stat = "ok"]
                /\ disk' = [disk EXCEPT ![card.sect] = card.buf]
    /\ UNCHANGED <<lh, io>>

lhd_code_to_errno(code) ==
    CASE code = "ok" -> "ok" [] code = "invsect" -> "EINVAL" [] code = "media" -> "EIO"

\* (bug: the status register is not cleared, and the interrupt comes again)
lhd_irq_again ==
    /\ card.stat \notin {"idle", "working"}
    /\ lh' = [lh EXCEPT !.result = lhd_code_to_errno(card.stat), !.done = @ + 1]
    /\ UNCHANGED <<card, disk, io>>

\* lhd_irq, with lhd_iodone.
lhd_irq ==
    /\ card.stat \notin {"idle", "working"}
    /\ lh' = [lh EXCEPT !.result = lhd_code_to_errno(card.stat), !.done = @ + 1]
    /\ card' = [card EXCEPT !.stat = "idle"]
    /\ UNCHANGED <<disk, io>>

-----------------------------------------------------------------------------
(* lhd_io *)

\* The checks: whole sectors, and not past the end; the sum may wrap.
Allowed(call) == call.aligned /\ (call.sector + call.len) % WORD_RANGE <= d_blocks

lhd_io(t, call) ==
    /\ io[t].pc = "idle"
    /\ Allowed(call)
    /\ io' = [io EXCEPT ![t] = [Idle EXCEPT !.pc = "clear", !.call = call]]
    /\ UNCHANGED <<lh, card, disk>>

\* P(lh_clear), and the data into the buffer if this is a write.
lhd_clear(t, v) ==
    /\ io[t].pc = "clear"
    /\ lh.clear > 0
    /\ lh' = [lh EXCEPT !.clear = @ - 1]
    /\ io' = [io EXCEPT ![t].pc = "start", ![t].value = v]
    /\ card' = IF io[t].call.rw = "write" THEN [card EXCEPT !.buf = v] ELSE card
    /\ UNCHANGED disk

\* The copy from or to the user (uiomove) fails.
lhd_fault(t) ==
    /\ \/ io[t].pc = "start" /\ io[t].call.rw = "write"
       \/ io[t].pc = "finish" /\ io[t].call.rw = "read"
    /\ lh' = [lh EXCEPT !.clear = @ + 1]
    /\ io' = [io EXCEPT ![t] = Idle]
    /\ UNCHANGED <<card, disk>>

\* The registers are written: the card works.
lhd_start(t) ==
    /\ io[t].pc = "start"
    /\ card' = [card EXCEPT !.sect = Sector(t), !.rw = io[t].call.rw, !.stat = "working"]
    /\ io' = [io EXCEPT ![t].pc = "done"]
    /\ UNCHANGED <<lh, disk>>

\* P(lh_done), and the result.
lhd_wait(t) ==
    /\ io[t].pc = "done"
    /\ lh.done > 0
    /\ lh' = [lh EXCEPT !.done = @ - 1]
    /\ io' = [io EXCEPT ![t].pc = "finish", ![t].status = lh.result]
    /\ UNCHANGED <<card, disk>>

\* The data out of the buffer if this is a read, and V(lh_clear); then the next
\* sector, unless that failed or was the last.
lhd_finish(t) ==
    LET at == io[t]
        last == at.status # "ok" \/ at.i + 1 = at.call.len
    IN  /\ at.pc = "finish"
        /\ lh' = [lh EXCEPT !.clear = @ + 1]
        /\ io' = [io EXCEPT ![t] = IF last THEN Idle
                                   ELSE [at EXCEPT !.pc = "clear", !.i = @ + 1, !.value = NULL]]
        /\ UNCHANGED <<card, disk>>

-----------------------------------------------------------------------------
Next ==
    \/ Complete \/ lhd_irq
    \/ \E t \in Threads :
        \/ \E call \in Calls : lhd_io(t, call)
        \/ \E v \in Values : lhd_clear(t, v)
        \/ lhd_fault(t) \/ lhd_start(t) \/ lhd_wait(t) \/ lhd_finish(t)

Spec == Init /\ [][Next]_vars

\* The card completes what it was told and interrupts; the thread that has the
\* card goes on.
CardStep ==
    Complete \/ lhd_irq \/ \E t \in Threads : lhd_start(t) \/ lhd_wait(t) \/ lhd_finish(t)

-----------------------------------------------------------------------------
(* Properties *)

\* What a transfer has got when it leaves the card to others.
Outcome(t) == IF io[t].call.rw = "read" THEN card.buf ELSE io[t].value

\* One thread has the card from P(lh_clear) to V(lh_clear), and the one
\* completion it waits for is its own: a transfer of a sector that succeeds has
\* moved that sector's value, between the thread's memory and the disk, whatever
\* the others do in between; one that is past the end of the disk, also where
\* sector+len wrapped, is refused.
TransfersExact ==
    /\ lh.clear + Cardinality({t \in Threads : io[t].pc \in {"start", "done", "finish"}}) = 1
    /\ lh.done + Cardinality({s \in {card.stat} : s # "idle"})
        = Cardinality({t \in Threads : io[t].pc = "done"})
    /\ \A t \in Threads :
        /\ io[t].pc = "finish" /\ io[t].status = "ok" =>
            Sector(t) < d_blocks /\ disk[Sector(t)] = Outcome(t)
        /\ io[t].pc = "finish" /\ Sector(t) >= d_blocks => io[t].status = "EINVAL"

\* The card is always given back, whether the transfer succeeds or not.
CardReleased == (lh.clear = 0) ~> (lh.clear = 1)

=============================================================================
