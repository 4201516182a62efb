----------------------------- MODULE MCProgress -----------------------------
(***************************************************************************)
(* Liveness and devices in one run of TLC: paging with room for every page *)
(* and faults that overlap, the primitives of synch.c, waitpid, the        *)
(* console, the disk and the emu file system.  The initial state chooses   *)
(* the part that runs; the others stay as they are.                        *)
(***************************************************************************)
EXTENDS MCPaging

CONSTANTS Nobody, SynchThreads, MaxCount, MAX_PROC, Procs, kproc, ProcThreads, Menu,
          Users, Printer, TwoHandles

VARIABLES
    part,
    sem, lock, cv, pc, then,
    table, last_pid, proc, thr, assertion,
    cs, lser, handler, reader, writer, log,
    lh, card, platter, io,
    biglock, emu_lock, emu, e_sem, e_result, ef_vnodes, held, stuck, call

synchvars == <<sem, lock, cv, pc, then>>
procsvars == <<table, last_pid, proc, thr, assertion>>
convars == <<cs, lser, handler, reader, writer, log>>
lhdvars == <<lh, card, platter, io>>
emuvars == <<biglock, emu_lock, emu, e_sem, e_result, ef_vnodes, held, stuck, call>>
allvars == <<part, vars, synchvars, procsvars, convars, lhdvars, emuvars>>

Syn == INSTANCE Synch WITH Threads <- SynchThreads

\* Programs that load, and that wait for their own children.
Proc == INSTANCE ProcTable WITH
    Threads <- ProcThreads, NULL <- Nobody, last_i <- last_pid, panic <- assertion,
    ExitCodes <- {258}, LoadFails <- FALSE, SemFails <- FALSE,
    WaitPids <- LAMBDA kids : kids \ {MAX_PROC}

\* Two readers, and a buffer of two characters that overflows.
ConIn == INSTANCE Console WITH
    NULL <- Nobody, Readers <- Users, Direct <- {}, Writers <- {Menu}, Kernel <- {},
    CONSOLE_INPUT_BUFFER_SIZE <- 3, Newlines <- {2}, MaxTyped <- 4,
    MaxRead <- 2, MaxWrite <- 1, MaxOutput <- 1, MaxPolled <- 0

\* Two writers, of whom the printer does not take the lock, and polled printing.
ConOut == INSTANCE Console WITH
    NULL <- Nobody, Readers <- {}, Direct <- {Printer}, Writers <- {Menu, Printer},
    Kernel <- {kproc}, CONSOLE_INPUT_BUFFER_SIZE <- 3, Newlines <- {}, MaxTyped <- 1,
    MaxRead <- 1, MaxWrite <- 2, MaxOutput <- 3, MaxPolled <- 2

Call(rw, sector, len) == [rw |-> rw, sector |-> sector, len |-> len, aligned |-> TRUE]

\* Transfers of one and two sectors, of which sector 7 does not exist.
Disk == INSTANCE Lhd WITH
    NULL <- Nobody, Threads <- Users, Values <- TwoValues, disk <- platter,
    d_blocks <- 2, WORD_RANGE <- 8,
    Calls <- {Call("write", 0, 2), Call("read", 1, 1), Call("read", 7, 1)}

\* Lookups, of a device that gives the handle of an open file again ...
Emu == INSTANCE Emufs WITH
    NULL <- Nobody, Threads <- Users, Handles <- TwoHandles, e_lock <- emu_lock,
    Creators <- {}, SameHandle <- TRUE, MAX_RETRIES <- 1, LoadErrors <- {"vnode"}

\* ... and files created with a device that does not.
EmuCreat == INSTANCE Emufs WITH
    NULL <- Nobody, Threads <- Users, Handles <- TwoHandles, e_lock <- emu_lock,
    Creators <- Users, SameHandle <- FALSE, MAX_RETRIES <- 1, LoadErrors <- {"vnode"}

ASSUME Syn!SynchAssumption

MCInit ==
    /\ part \in {"paging", "synch", "proc", "input", "output", "lhd", "emu", "creat"}
    /\ Init /\ Syn!Init /\ Proc!Init /\ Disk!Init /\ Emu!Init
    /\ IF part = "input" THEN ConIn!Init ELSE ConOut!Init

MCNext ==
    /\ UNCHANGED part
    /\ \/ /\ UNCHANGED <<convars, lhdvars, emuvars>>
          /\ \/ part = "paging" /\ Next /\ UNCHANGED <<synchvars, procsvars>>
             \/ part = "synch" /\ Syn!Next /\ UNCHANGED <<vars, procsvars>>
             \/ part = "proc" /\ Proc!Next /\ UNCHANGED <<vars, synchvars>>
       \/ /\ UNCHANGED <<vars, synchvars, procsvars>>
          /\ \/ part = "input" /\ ConIn!Next /\ UNCHANGED <<lhdvars, emuvars>>
             \/ part = "output" /\ ConOut!Next /\ UNCHANGED <<lhdvars, emuvars>>
             \/ part = "lhd" /\ Disk!Next /\ UNCHANGED <<convars, emuvars>>
             \/ part = "emu" /\ Emu!Next /\ UNCHANGED <<convars, lhdvars>>
             \/ part = "creat" /\ EmuCreat!Next /\ UNCHANGED <<convars, lhdvars>>

\* The fairness of each part, for the part that runs.
MCSpec ==
    /\ MCInit /\ [][MCNext]_allvars
    /\ \A p \in UserPids : WF_vars(part = "paging" /\ FaultContinues(p))
    /\ \A t \in SynchThreads : WF_synchvars(part = "synch" /\ Syn!Continue(t))
    /\ \A t \in ProcThreads : WF_procsvars(part = "proc" /\ Proc!KernelStep(t))
    /\ WF_convars(part = "input" /\ ConIn!PortStep)
    /\ WF_convars(part = "output" /\ ConOut!PortStep)
    /\ WF_lhdvars(part = "lhd" /\ Disk!CardStep)
    /\ WF_emuvars(part = "emu" /\ Emu!DeviceStep)
    /\ WF_emuvars(part = "creat" /\ EmuCreat!DeviceStep)

-----------------------------------------------------------------------------
\* Synch: a lock that is free while somebody wants it is taken again, and units
\* of a semaphore do not lie idle while somebody waits for them.
WaitersServed == Syn!LockTaken /\ Syn!UnitsTaken

\* ProcTable: who waits for a process that has no thread left gets its answer.
WaitReturns == Proc!WaitReturns

\* Console: the unit of cs_wsem goes round, and characters arrive in order.
ConsoleExact == IF part = "input" THEN ConIn!ConsoleExact ELSE ConOut!ConsoleExact

\* Lhd: a transfer that succeeds has moved the sector it was asked to move.
TransfersExact == Disk!TransfersExact

\* Emufs: no operation is given a handle that is not open, and no count is wrong.
HandlesExact == IF part = "creat" THEN EmuCreat!HandlesExact ELSE Emu!HandlesExact

\* The serial port, the disk and the emu device are always given back by whoever
\* has them, failed operations included.
DevicesReleased == ConOut!PortReleased /\ Disk!CardReleased /\ Emu!DeviceReleased
=============================================================================
