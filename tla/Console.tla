------------------------------ MODULE Console -------------------------------
(***************************************************************************)
(* The console (kern/dev/generic/console.c) on its serial port             *)
(* (kern/dev/lamebus/lser.c): processes read and write it, the kernel      *)
(* prints with polling where it cannot sleep, and the port interrupts.     *)
(*                                                                         *)
(* A section under ls_lock is one step, and so are the two calls that      *)
(* lser_irq makes after it.  A semaphore is its count: P waits for it to   *)
(* be positive.  Characters typed are numbered in the order they arrive.   *)
(***************************************************************************)
EXTENDS Naturals, SequencesExt, FiniteSets

CONSTANTS
    NULL,
    Readers,
    Direct,        \* who calls getch or putch itself: kgets, kprintf, sys_read, sys_write
    Writers,
    Kernel,        \* who prints with interrupts off or a spinlock held
    CONSOLE_INPUT_BUFFER_SIZE,
    Newlines,      \* which of the characters typed end a line
    MaxTyped,      \* bound: characters typed
    MaxRead,       \* bound: size of a read
    MaxWrite,      \* bound: size of a write
    MaxOutput,     \* bound: characters written
    MaxPolled      \* bound: characters printed with polling

VARIABLES
    cs,            \* con_softc and the two user locks
    lser,          \* the port: ls_wbusy, ready and force bits, characters in transit
    handler,       \* what lser_irq has still to tell the console
    reader,        \* reader -> [pc, resid, got]
    writer,        \* writer -> [pc, left, out]
    log            \* what was typed, accepted, taken, handed over and printed

vars == <<cs, lser, handler, reader, writer, log>>

Idle == [pc |-> "idle", left |-> 0, out |-> 0]

Init ==
    /\ cs = [gotchars |-> [i \in 0..CONSOLE_INPUT_BUFFER_SIZE - 1 |-> NULL],
             head |-> 0, tail |-> 0, rsem |-> 0, wsem |-> 1, rlock |-> NULL, wlock |-> NULL]
    /\ lser = [wbusy |-> FALSE, ready |-> FALSE, force |-> FALSE, rx |-> NULL, tx |-> NULL]
    /\ handler = [start |-> FALSE, ch |-> NULL]
    /\ reader = [r \in Readers |-> [pc |-> "idle", resid |-> 0, got |-> <<>>]]
    /\ writer = [w \in Writers |-> Idle]
    /\ log = [typed |-> 0, input |-> <<>>, taken |-> <<>>, sent |-> <<>>, printed |-> <<>>]

Following(i) == (i + 1) % CONSOLE_INPUT_BUFFER_SIZE

Sent(S) == Len(SelectSeq(log.sent, LAMBDA c : c \in S))

-----------------------------------------------------------------------------
(* The port *)

\* A character is typed; the terminal waits for the last one to be read.
Type ==
    /\ lser.rx = NULL
    /\ log.typed < MaxTyped
    /\ lser' = [lser EXCEPT !.rx = log.typed + 1]
    /\ log' = [log EXCEPT !.typed = @ + 1]
    /\ UNCHANGED <<cs, handler, reader, writer>>

\* The character in transit is out: the port is ready.
Transmit ==
    /\ lser.tx # NULL
    /\ lser' = [lser EXCEPT !.tx = NULL, !.ready = TRUE]
    /\ log' = [log EXCEPT !.printed = Append(@, lser.tx)]
    /\ UNCHANGED <<cs, handler, reader, writer>>

Asserted == lser.ready \/ lser.force \/ lser.rx # NULL

lser_irq ==
    /\ handler = [start |-> FALSE, ch |-> NULL]
    /\ Asserted
    /\ handler' = [start |-> lser.ready, ch |-> lser.rx]
    /\ lser' = [lser EXCEPT !.rx = NULL,
                            !.wbusy = @ /\ ~lser.ready,
                            !.ready = FALSE,
                            !.force = @ /\ ~lser.ready]
    /\ UNCHANGED <<cs, reader, writer, log>>

\* lser_write of a writer that has taken the unit of cs_wsem.
lser_write(w) ==
    LET left == writer[w].left - 1
    IN  /\ writer[w].pc = "send"
        /\ ~lser.wbusy
        /\ lser' = [lser EXCEPT !.wbusy = TRUE, !.tx = w]
        /\ log' = [log EXCEPT !.sent = Append(@, w)]
        /\ writer' = [writer EXCEPT ![w] = IF left = 0 THEN Idle
                                           ELSE [pc |-> "putch", left |-> left, out |-> @.out + 1]]
        /\ cs' = IF left = 0 /\ cs.wlock = w THEN [cs EXCEPT !.wlock = NULL] ELSE cs
        /\ UNCHANGED <<handler, reader>>

\* (bug: the character in transit is not waited for)
lser_writepolled_now(k) ==
    /\ Sent(Kernel) < MaxPolled
    /\ log' = [log EXCEPT !.printed = Append(@, k), !.sent = Append(@, k)]
    /\ lser' = [lser EXCEPT !.tx = NULL, !.ready = lser.wbusy, !.force = lser.wbusy]
    /\ UNCHANGED <<cs, handler, reader, writer>>

\* lser_writepolled: what is in transit is waited for, then k's character.  An
\* interrupt that was to come is left to come.
lser_writepolled(k) ==
    LET before == IF lser.tx = NULL THEN <<>> ELSE <<lser.tx>>
    IN  /\ Sent(Kernel) < MaxPolled
        /\ log' = [log EXCEPT !.printed = @ \o before \o <<k>>, !.sent = Append(@, k)]
        /\ lser' = [lser EXCEPT !.tx = NULL, !.ready = lser.wbusy, !.force = lser.wbusy]
        /\ UNCHANGED <<cs, handler, reader, writer>>

-----------------------------------------------------------------------------
(* The console: called by lser_irq *)

con_start ==
    /\ handler.start
    /\ cs' = [cs EXCEPT !.wsem = @ + 1]
    /\ handler' = [handler EXCEPT !.start = FALSE]
    /\ UNCHANGED <<lser, reader, writer, log>>

\* con_input: the character is dropped if the buffer is full.
con_input ==
    /\ ~handler.start
    /\ handler.ch # NULL
    /\ handler' = [handler EXCEPT !.ch = NULL]
    /\ IF Following(cs.head) = cs.tail
       THEN UNCHANGED <<cs, log>>
       ELSE /\ cs' = [cs EXCEPT !.gotchars[cs.head] = handler.ch,
                                !.head = Following(@),
                                !.rsem = @ + 1]
            /\ log' = [log EXCEPT !.input = Append(@, handler.ch)]
    /\ UNCHANGED <<lser, reader, writer>>

-----------------------------------------------------------------------------
(* Reading *)

\* con_io of a read of n characters takes con_userlock_read first; a direct
\* reader calls getch for one, without a lock.
con_io_read(r, n) ==
    /\ reader[r].pc = "idle"
    /\ IF r \in Direct THEN n = 1 /\ UNCHANGED cs
       ELSE cs.rlock = NULL /\ cs' = [cs EXCEPT !.rlock = r]
    /\ reader' = [reader EXCEPT ![r] = [pc |-> "getch", resid |-> n, got |-> <<>>]]
    /\ UNCHANGED <<lser, handler, writer, log>>

\* getch_intr: P(cs_rsem),
getch_P(r) ==
    /\ reader[r].pc = "getch"
    /\ cs.rsem > 0
    /\ cs' = [cs EXCEPT !.rsem = @ - 1]
    /\ reader' = [reader EXCEPT ![r].pc = "take"]
    /\ UNCHANGED <<lser, handler, writer, log>>

\* the character at the tail,
getch_take(r) ==
    LET ch == cs.gotchars[cs.tail]
    IN  /\ reader[r].pc = "take"
        /\ reader' = [reader EXCEPT ![r].pc = "advance", ![r].got = Append(@, ch)]
        /\ log' = [log EXCEPT !.taken = Append(@, ch)]
        /\ UNCHANGED <<cs, lser, handler, writer>>

\* and the tail moves.  con_io goes on unless that was the end of the line or of
\* the buffer, or the copy to the user (uiomove) fails.
getch_advance(r) ==
    LET at == reader[r]
        Done == [at EXCEPT !.pc = "idle", !.resid = 0, !.got = <<>>]
        ends == at.resid = 1 \/ Last(at.got) \in Newlines
    IN  /\ at.pc = "advance"
        /\ \/ /\ reader' = [reader EXCEPT ![r] = Done]
              /\ cs' = [cs EXCEPT !.tail = Following(@),
                                  !.rlock = IF @ = r THEN NULL ELSE @]
           \/ /\ ~ends
              /\ reader' = [reader EXCEPT ![r].pc = "getch", ![r].resid = @ - 1]
              /\ cs' = [cs EXCEPT !.tail = Following(@)]
        /\ UNCHANGED <<lser, handler, writer, log>>

-----------------------------------------------------------------------------
(* Writing *)

\* con_io of a write of n characters takes con_userlock_write; the kernel's own
\* printing and sys_write call putch for each without it.
con_io_write(w, n) ==
    /\ writer[w].pc = "idle"
    /\ Sent(Writers) + n <= MaxOutput
    /\ IF w \in Direct THEN n = 1 /\ UNCHANGED cs
       ELSE cs.wlock = NULL /\ cs' = [cs EXCEPT !.wlock = w]
    /\ writer' = [writer EXCEPT ![w] = [pc |-> "putch", left |-> n, out |-> 0]]
    /\ UNCHANGED <<lser, handler, reader, log>>

\* The copy from the user (uiomove) fails.
con_io_fault(w) ==
    /\ writer[w].pc = "putch"
    /\ w \notin Direct
    /\ writer' = [writer EXCEPT ![w] = Idle]
    /\ cs' = [cs EXCEPT !.wlock = NULL]
    /\ UNCHANGED <<lser, handler, reader, log>>

\* putch_intr: P(cs_wsem), then lser_write.
putch_intr(w) ==
    /\ writer[w].pc = "putch"
    /\ cs.wsem > 0
    /\ cs' = [cs EXCEPT !.wsem = @ - 1]
    /\ writer' = [writer EXCEPT ![w].pc = "send"]
    /\ UNCHANGED <<lser, handler, reader, log>>

-----------------------------------------------------------------------------
Next ==
    \/ Type \/ Transmit \/ lser_irq \/ con_start \/ con_input
    \/ \E k \in Kernel : lser_writepolled(k)
    \/ \E r \in Readers :
        \/ \E n \in 1..MaxRead : con_io_read(r, n)
        \/ getch_P(r) \/ getch_take(r) \/ getch_advance(r)
    \/ \E w \in Writers :
        \/ \E n \in 1..MaxWrite : con_io_write(w, n)
        \/ con_io_fault(w) \/ putch_intr(w) \/ lser_write(w)

Spec == Init /\ [][Next]_vars

\* The port sends and interrupts, its handler runs to the end, and a writer that
\* may send does: none of them waits for anybody.
PortStep == Transmit \/ lser_irq \/ con_start \/ con_input \/ \E w \in Writers : lser_write(w)

-----------------------------------------------------------------------------
(* Properties *)

Count(b) == IF b THEN 1 ELSE 0

At(S, pcs) == Cardinality({t \in DOMAIN S : S[t].pc \in pcs})

Occupied == (cs.head + CONSOLE_INPUT_BUFFER_SIZE - cs.tail) % CONSOLE_INPUT_BUFFER_SIZE

\* The characters in the buffer that no reader has looked at.
Unread ==
    LET skip == At(reader, {"advance"})
    IN  [i \in 1..Occupied - skip |->
            cs.gotchars[(cs.tail + skip + i - 1) % CONSOLE_INPUT_BUFFER_SIZE]]

\* The one unit of cs_wsem is free, with a writer, with the port, or on its way
\* back, so that lser_write never finds the port busy ("Not clear to write") and
\* a busy port always has an interrupt to come, polled printing or not; whatever
\* is handed to the port is printed, once and in order.  Every character
\* accepted is taken once, in the order typed, cs_rsem counts those in the
\* buffer that nobody has claimed, and one read gets consecutive characters.
\* User I/Os are atomic: so are the characters of one write.
ConsoleExact ==
    /\ cs.wsem + At(writer, {"send"}) + Count(lser.wbusy) + Count(handler.start) = 1
    /\ lser.wbusy <=> lser.tx # NULL \/ lser.ready
    /\ log.sent = log.printed \o (IF lser.tx = NULL THEN <<>> ELSE <<lser.tx>>)
    /\ cs.rsem + At(reader, {"take", "advance"}) = Occupied
    /\ log.input = log.taken \o Unread
    /\ \A r \in Readers : IsSuffix(reader[r].got, log.taken)
    /\ LET out == SelectSeq(log.sent, LAMBDA c : c \in Writers \ Direct)
       IN  \A w \in Writers : \A i \in 1..writer[w].out : out[Len(out) - i + 1] = w

\* The port is always given back to the writers.
PortReleased == (cs.wsem = 0) ~> (cs.wsem = 1)

=============================================================================
