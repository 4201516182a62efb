----------------------------- MODULE FileTable -----------------------------
(***************************************************************************)
(* Open files: the system file table and the descriptors of the processes  *)
(* (kern/syscall/file_syscalls.c), the reference counts of the vnodes they *)
(* hold (kern/vfs/vnode.c), and the vnode of the program itself, which an  *)
(* address space keeps open for demand paging.                             *)
(*                                                                         *)
(* None of the tables has a lock.  A step ends where the thread can lose   *)
(* the processor: in the vfs calls, which sleep, and by preemption after   *)
(* a free slot has been found.                                             *)
(***************************************************************************)
EXTENDS Naturals, FiniteSets, FiniteSetsExt

CONSTANTS
    Procs,            \* processes, with one thread each
    Files,            \* vnodes
    NULL,
    SYSTEM_OPEN_MAX,
    FirstFd,          \* STDERR_FILENO + 1
    OPEN_MAX,
    CallFds,          \* the descriptors programs pass to close, read and write
    MaxOffset,        \* bound: the offset of an open file
    Preemption,       \* the timer may strike between finding and filling a slot
    Forks,            \* programs fork
    LeavesOpen        \* programs exit without closing their files

FileTableAssumption ==
    /\ SYSTEM_OPEN_MAX \in Nat /\ FirstFd \in Nat /\ OPEN_MAX \in Nat
    /\ CallFds \subseteq Nat /\ MaxOffset \in Nat
    /\ {Preemption, Forks, LeavesOpen} \subseteq BOOLEAN

VARIABLES
    systemFileTable,  \* slot -> [vn, offset, countRef]
    fileTable,        \* process -> descriptor -> slot and (history) file, or NULL
    elfdata,          \* process -> the vnode of its program
    vn_refcount,      \* vnode -> references; 0 when it is not in memory
    thr,              \* process -> where its thread is, with the locals
    fault             \* "no", or the check of the code that has failed

vars == <<systemFileTable, fileTable, elfdata, vn_refcount, thr, fault>>

Slots == 1..SYSTEM_OPEN_MAX
Fds == FirstFd..(OPEN_MAX - 1)
NoFds == [fd \in Fds |-> NULL]

Thread(pc) == [pc |-> pc, vn |-> NULL, slot |-> NULL, offset |-> 0]

Init ==
    /\ systemFileTable = [i \in Slots |-> [vn |-> NULL, offset |-> 0, countRef |-> 0]]
    /\ fileTable = [p \in Procs |-> NoFds]
    /\ elfdata = [p \in Procs |-> NULL]
    /\ vn_refcount = [v \in Files |-> 0]
    /\ thr = [p \in Procs |-> Thread("none")]
    /\ fault = "no"

\* Without preemption nobody runs while a thread is at work on the tables.
At(p, pc) ==
    /\ fault = "no"
    /\ thr[p].pc = pc
    /\ Preemption \/ \A q \in Procs \ {p} : thr[q].pc \notin {"fill", "fd"}

VOP_INCREF(v) == vn_refcount' = [vn_refcount EXCEPT ![v] = @ + 1]

VOP_DECREF(v) ==
    IF vn_refcount[v] = 0
    THEN fault' = "vn_refcount > 0" /\ UNCHANGED vn_refcount
    ELSE vn_refcount' = [vn_refcount EXCEPT ![v] = @ - 1] /\ UNCHANGED fault

-----------------------------------------------------------------------------
(* sys_open *)

vfs_open(p) ==
    /\ At(p, "user")
    /\ \E v \in Files :
        /\ VOP_INCREF(v)
        /\ thr' = [thr EXCEPT ![p] = [Thread("search") EXCEPT !.vn = v]]
    /\ UNCHANGED <<systemFileTable, fileTable, elfdata, fault>>

\* (bug: a slot counts as free when nothing refers to it)
IsFree_uncounted(i) == systemFileTable[i].countRef <= 1

IsFree(i) == systemFileTable[i].vn = NULL

SearchSlot(p) ==
    /\ At(p, "search")
    /\ LET free == {i \in Slots : IsFree(i)} IN
        thr' = IF free = {} THEN [thr EXCEPT ![p].pc = "close"]  \* ENFILE
               ELSE [thr EXCEPT ![p].pc = "fill", ![p].slot = Min(free)]
    /\ UNCHANGED <<systemFileTable, fileTable, elfdata, vn_refcount, fault>>

FillSlot(p) ==
    /\ At(p, "fill")
    /\ systemFileTable' = [systemFileTable EXCEPT
            ![thr[p].slot] = [vn |-> thr[p].vn, offset |-> 0, countRef |-> 1]]
    /\ thr' = [thr EXCEPT ![p].pc = "fd"]
    /\ UNCHANGED <<fileTable, elfdata, vn_refcount, fault>>

\* Without a free descriptor (EMFILE) the vnode is closed and the slot stays.
SearchFd(p) ==
    /\ At(p, "fd")
    /\ LET free == {fd \in Fds : fileTable[p][fd] = NULL} IN
        IF free = {}
        THEN thr' = [thr EXCEPT ![p].pc = "close"] /\ UNCHANGED fileTable
        ELSE /\ fileTable' = [fileTable EXCEPT ![p][Min(free)] =
                                [slot |-> thr[p].slot, file |-> thr[p].vn]]
             /\ thr' = [thr EXCEPT ![p] = Thread("user")]
    /\ UNCHANGED <<systemFileTable, elfdata, vn_refcount, fault>>

vfs_close(p) ==
    /\ At(p, "close")
    /\ VOP_DECREF(thr[p].vn)
    /\ thr' = [thr EXCEPT ![p] = Thread("user")]
    /\ UNCHANGED <<systemFileTable, fileTable, elfdata>>

-----------------------------------------------------------------------------
(* sys_close, sys_read, sys_write *)

\* The test lets fd = OPEN_MAX pass, one past the end of the array.
BadFd(fd) == fd > OPEN_MAX

IsOpen(p, fd) == fd \in Fds /\ fileTable[p][fd] # NULL

OutOfBounds(fd) ==
    /\ fault' = "fd < OPEN_MAX"
    /\ UNCHANGED <<systemFileTable, fileTable, elfdata, vn_refcount, thr>>

\* (bug: the count is compared before it is decremented)
LastRef_late(i) == systemFileTable[i].countRef = 0

LastRef(i) == systemFileTable[i].countRef = 1

ClearFd(p, fd) == fileTable' = [fileTable EXCEPT ![p][fd] = NULL]

sys_close(p, fd) ==
    /\ At(p, "user")
    /\ ~BadFd(fd)
    /\ IF fd = OPEN_MAX THEN OutOfBounds(fd)
       ELSE /\ IsOpen(p, fd)
            /\ ClearFd(p, fd)
            /\ LET i == fileTable[p][fd].slot
                   of == systemFileTable[i] IN
                 IF LastRef(i)
                 THEN /\ systemFileTable' = [systemFileTable EXCEPT
                                ![i].countRef = 0, ![i].vn = NULL]
                      /\ thr' = [thr EXCEPT ![p] = IF of.vn = NULL THEN Thread("user")
                                    ELSE [Thread("close") EXCEPT !.vn = of.vn]]
                 ELSE /\ systemFileTable' = [systemFileTable EXCEPT ![i].countRef = @ - 1]
                      /\ UNCHANGED thr
            /\ UNCHANGED <<elfdata, vn_refcount, fault>>

\* file_read and file_write up to the transfer, and after it.
file_io(p, fd) ==
    /\ At(p, "user")
    /\ ~BadFd(fd)
    /\ IF fd = OPEN_MAX THEN OutOfBounds(fd)
       ELSE /\ IsOpen(p, fd)
            /\ LET i == fileTable[p][fd].slot
                   of == systemFileTable[i] IN
                 /\ of.vn # NULL
                 /\ thr' = [thr EXCEPT ![p] =
                      [pc |-> "io", vn |-> of.vn, slot |-> i, offset |-> of.offset]]
            /\ UNCHANGED <<systemFileTable, fileTable, elfdata, vn_refcount, fault>>

file_io_done(p) ==
    /\ At(p, "io")
    /\ \E n \in 0..1 :
        /\ thr[p].offset + n <= MaxOffset
        /\ systemFileTable' = [systemFileTable EXCEPT ![thr[p].slot].offset = thr[p].offset + n]
    /\ thr' = [thr EXCEPT ![p] = Thread("user")]
    /\ UNCHANGED <<fileTable, elfdata, vn_refcount, fault>>

-----------------------------------------------------------------------------
(* Processes *)

runprogram(p) ==
    /\ At(p, "none")
    /\ \E v \in Files :
        /\ VOP_INCREF(v)
        /\ elfdata' = [elfdata EXCEPT ![p] = v]
    /\ thr' = [thr EXCEPT ![p] = Thread("user")]
    /\ UNCHANGED <<systemFileTable, fileTable, fault>>

RefsTo(ft, i) == Cardinality({fd \in Fds : ft[fd] # NULL /\ ft[fd].slot = i})

proc_file_table_copy(psrc, pdest) ==
    /\ fileTable' = [fileTable EXCEPT ![pdest] = fileTable[psrc]]
    /\ systemFileTable' = [i \in Slots |->
            [systemFileTable[i] EXCEPT !.countRef = @ + RefsTo(fileTable[psrc], i)]]

\* segcopy copies the pointer to the vnode; sys_fork gives the copy of the
\* descriptors the new process as its source.
sys_fork(p, q) ==
    /\ Forks
    /\ At(p, "user")
    /\ thr[q].pc = "none"
    /\ elfdata' = [elfdata EXCEPT ![q] = elfdata[p]]
    /\ proc_file_table_copy(q, p)
    /\ thr' = [thr EXCEPT ![q] = Thread("user")]
    /\ UNCHANGED <<vn_refcount, fault>>

\* sys__exit, and proc_destroy with as_destroy; descriptors are forgotten.
proc_destroy(p) ==
    /\ At(p, "user")
    /\ LeavesOpen \/ \A fd \in Fds : ~IsOpen(p, fd)
    /\ VOP_DECREF(elfdata[p])
    /\ elfdata' = [elfdata EXCEPT ![p] = NULL]
    /\ fileTable' = [fileTable EXCEPT ![p] = NoFds]
    /\ thr' = [thr EXCEPT ![p] = Thread("none")]
    /\ UNCHANGED systemFileTable

Next ==
    \E p \in Procs :
        \/ vfs_open(p) \/ SearchSlot(p) \/ FillSlot(p) \/ SearchFd(p) \/ vfs_close(p)
        \/ \E fd \in CallFds : sys_close(p, fd) \/ file_io(p, fd)
        \/ file_io_done(p)
        \/ runprogram(p) \/ proc_destroy(p)
        \/ \E q \in Procs : sys_fork(p, q)

Spec == Init /\ [][Next]_vars

-----------------------------------------------------------------------------
(* Properties *)

\* A descriptor stays with the file it was opened for until it is closed,
\* whatever other processes open, close, fork or leave behind meanwhile.
DescriptorsKeepFile ==
    \A p \in Procs, fd \in Fds :
        IsOpen(p, fd) => systemFileTable[fileTable[p][fd].slot].vn = fileTable[p][fd].file

\* A slot in use is referred to by at least one descriptor (or is about to be,
\* by the open that has filled it) and by as many as its count says, so that
\* the last close frees it.  And the count of a vnode is the number of its
\* holders: slots, programs that run, and calls under way that have yet to
\* store or drop the vnode.
CountsExact ==
    /\ \A i \in Slots : ~IsFree(i) =>
        /\ systemFileTable[i].countRef > 0
        /\ systemFileTable[i].countRef =
            Cardinality({<<p, fd>> \in Procs \X Fds :
                            IsOpen(p, fd) /\ fileTable[p][fd].slot = i})
            + Cardinality({p \in Procs : thr[p].pc = "fd" /\ thr[p].slot = i})
    /\ \A v \in Files :
        vn_refcount[v] =
            Cardinality({i \in Slots : systemFileTable[i].vn = v})
            + Cardinality({p \in Procs : elfdata[p] = v})
            + Cardinality({p \in Procs : thr[p].pc \in {"search", "fill", "close"}
                                            /\ thr[p].vn = v})

\* While a transfer sleeps in the file system nobody closes its file and
\* nobody else moves its offset, so the offset stored at the end is right.
TransferUndisturbed ==
    \A p \in Procs : thr[p].pc = "io" =>
        LET of == systemFileTable[thr[p].slot] IN
        of.vn = thr[p].vn /\ of.offset = thr[p].offset

=============================================================================
