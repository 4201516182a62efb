------------------------------- MODULE Emufs --------------------------------
(***************************************************************************)
(* The emu file system (kern/dev/lamebus/emu.c): files of the host behind  *)
(* handles of a device.  A handle belongs to a vnode of ef_vnodes, found   *)
(* again when the device answers an open with a handle it already gave;    *)
(* the last reference closes it.                                           *)
(*                                                                         *)
(* The device is external: it performs the operation in its registers on a *)
(* handle, may fail, and interrupts.  What runs under e_lock between two   *)
(* waits for the device is one step.  The root directory, always open, is  *)
(* left out.                                                               *)
(***************************************************************************)
EXTENDS Naturals, FiniteSets

CONSTANTS
    NULL,
    Threads,
    Handles,
    Creators,      \* the threads that open with O_CREAT
    SameHandle,    \* whether the device may give a handle again that is open
    MAX_RETRIES,   \* of a close that fails with EIO: 10 in the code
    LoadErrors     \* how emufs_loadvnode may fail: "kmalloc", "vnode"

VARIABLES
    biglock,       \* vfs_biglock: [holder, depth]
    e_lock,
    emu,           \* the device: operation and reply registers, open handles
    e_sem,
    e_result,
    ef_vnodes,     \* handle of each vnode in memory -> vn_refcount
    held,          \* thread -> the vnodes it has a reference to
    stuck,         \* vnodes left behind by a close that failed
    call           \* thread -> [pc, handle, retries, reclaim]

vars == <<biglock, e_lock, emu, e_sem, e_result, ef_vnodes, held, stuck, call>>

locks == <<biglock, e_lock>>
device == <<emu, e_sem, e_result>>

Idle == [pc |-> "idle", handle |-> NULL, retries |-> 0, reclaim |-> FALSE]

Init ==
    /\ biglock = [holder |-> NULL, depth |-> 0]
    /\ e_lock = NULL
    /\ emu = [oper |-> NULL, handle |-> NULL, result |-> NULL, open |-> {}]
    /\ e_sem = 0
    /\ e_result = NULL
    /\ ef_vnodes = [h \in {} |-> 0]
    /\ held = [t \in Threads |-> {}]
    /\ stuck = {}
    /\ call = [t \in Threads |-> Idle]

Goto(t, pc) == call' = [call EXCEPT ![t].pc = pc]
Return(t) == call' = [call EXCEPT ![t] = Idle]

Post(op, h) == emu' = [emu EXCEPT !.oper = op, !.handle = h]

-----------------------------------------------------------------------------
(* vfs_biglock *)

BigFree(t) == biglock.holder \in {NULL, t}

BigLocked(t) == [holder |-> t, depth |-> biglock.depth + 1]

BigReleased(n) ==
    [holder |-> IF biglock.depth = n THEN NULL ELSE biglock.holder, depth |-> biglock.depth - n]

-----------------------------------------------------------------------------
(* The device *)

\* An operation is performed, or fails.
Perform ==
    /\ emu.oper # NULL
    /\ \/ emu' = [emu EXCEPT !.oper = NULL, !.result = "EIO"]
       \/ /\ emu.oper = "open"
          /\ \E h \in Handles \ (IF SameHandle THEN {} ELSE emu.open) :
                emu' = [emu EXCEPT !.oper = NULL, !.result = "ok", !.handle = h, !.open = @ \cup {h}]
       \/ /\ emu.oper = "close"
          /\ emu' = [emu EXCEPT !.oper = NULL, !.result = "ok", !.open = @ \ {emu.handle}]
       \/ /\ emu.oper = "io"
          /\ emu' = [emu EXCEPT !.oper = NULL, !.result = "ok"]
    /\ UNCHANGED <<locks, e_sem, e_result, ef_vnodes, held, stuck, call>>

\* (bug: the thread that waits is not told)
emu_irq_silent ==
    /\ emu.result # NULL
    /\ e_result' = emu.result
    /\ emu' = [emu EXCEPT !.result = NULL]
    /\ UNCHANGED <<locks, e_sem, ef_vnodes, held, stuck, call>>

emu_irq ==
    /\ emu.result # NULL
    /\ e_result' = emu.result
    /\ emu' = [emu EXCEPT !.result = NULL]
    /\ e_sem' = e_sem + 1
    /\ UNCHANGED <<locks, ef_vnodes, held, stuck, call>>

\* emu_waitdone of t.
emu_waitdone(t, pc) ==
    /\ call[t].pc = pc
    /\ e_sem > 0
    /\ e_sem' = e_sem - 1
    /\ UNCHANGED e_result

-----------------------------------------------------------------------------
(* Lookup and creation: emu_open, emufs_loadvnode *)

\* emufs_lookup runs within vfs_lookup, which has vfs_biglock; emufs_creat is
\* called by vfs_open without it.
Outer(t) == IF t \in Creators THEN 0 ELSE 1

emufs_lookup(t) ==
    /\ call[t].pc = "idle"
    /\ IF t \in Creators THEN UNCHANGED biglock
       ELSE BigFree(t) /\ biglock' = BigLocked(t)
    /\ Goto(t, "open")
    /\ UNCHANGED <<e_lock, device, ef_vnodes, held, stuck>>

emu_open(t) ==
    /\ call[t].pc = "open"
    /\ e_lock = NULL
    /\ e_lock' = t
    /\ Post("open", NULL)
    /\ Goto(t, "opening")
    /\ UNCHANGED <<biglock, e_sem, e_result, ef_vnodes, held, stuck>>

emu_open_done(t) ==
    /\ emu_waitdone(t, "opening")
    /\ e_lock' = NULL
    /\ IF e_result = "ok"
       THEN call' = [call EXCEPT ![t].pc = "load", ![t].handle = emu.handle] /\ UNCHANGED biglock
       ELSE Return(t) /\ biglock' = BigReleased(Outer(t))
    /\ UNCHANGED <<emu, ef_vnodes, held, stuck>>

\* emufs_loadvnode takes vfs_biglock,
emufs_load(t) ==
    /\ call[t].pc = "load"
    /\ BigFree(t)
    /\ biglock' = BigLocked(t)
    /\ Goto(t, "find")
    /\ UNCHANGED <<e_lock, device, ef_vnodes, held, stuck>>

\* then e_lock, and finds the vnode of the handle or makes one.  (A second
\* reference of the same thread is dropped at once.)
emufs_loadvnode(t) ==
    LET h == call[t].handle
        count == IF h \in DOMAIN ef_vnodes THEN ef_vnodes[h] ELSE 0
    IN  /\ call[t].pc = "find"
        /\ e_lock = NULL
        /\ ef_vnodes' = IF h \in held[t] THEN ef_vnodes
                        ELSE [x \in DOMAIN ef_vnodes \cup {h} |->
                                IF x = h THEN count + 1 ELSE ef_vnodes[x]]
        /\ held' = [held EXCEPT ![t] = @ \cup {h}]
        /\ biglock' = BigReleased(1 + Outer(t))
        /\ Return(t)
        /\ UNCHANGED <<e_lock, device, stuck>>

\* It fails: kmalloc's way out does not release vfs_biglock.
emufs_loadvnode_fails(t, error) ==
    /\ call[t].pc = "find"
    /\ e_lock = NULL
    /\ call[t].handle \notin DOMAIN ef_vnodes
    /\ biglock' = IF error = "kmalloc" THEN biglock ELSE BigReleased(1)
    /\ Goto(t, "close")
    /\ UNCHANGED <<e_lock, device, ef_vnodes, held, stuck>>

-----------------------------------------------------------------------------
(* Use: emu_read, emu_write, emu_readdir, emu_getsize, emu_trunc *)

emu_io(t, h) ==
    /\ call[t].pc = "idle"
    /\ h \in held[t]
    /\ call' = [call EXCEPT ![t].pc = "io", ![t].handle = h]
    /\ UNCHANGED <<locks, device, ef_vnodes, held, stuck>>

emu_io_post(t) ==
    /\ call[t].pc = "io"
    /\ e_lock = NULL
    /\ e_lock' = t
    /\ Post("io", call[t].handle)
    /\ Goto(t, "io_wait")
    /\ UNCHANGED <<biglock, e_sem, e_result, ef_vnodes, held, stuck>>

emu_io_done(t) ==
    /\ emu_waitdone(t, "io_wait")
    /\ e_lock' = NULL
    /\ Return(t)
    /\ UNCHANGED <<biglock, emu, ef_vnodes, held, stuck>>

\* A reference is shared (VOP_INCREF): fork, a second descriptor.
vnode_incref(t, u, h) ==
    /\ call[t].pc = "idle"
    /\ h \in held[t] \ held[u]
    /\ ef_vnodes' = [ef_vnodes EXCEPT ![h] = @ + 1]
    /\ held' = [held EXCEPT ![u] = @ \cup {h}]
    /\ UNCHANGED <<locks, device, stuck, call>>

-----------------------------------------------------------------------------
(* The last reference: vnode_decref, emufs_reclaim, emu_close *)

vnode_decref(t, h) ==
    /\ call[t].pc = "idle"
    /\ h \in held[t]
    /\ held' = [held EXCEPT ![t] = @ \ {h}]
    /\ IF ef_vnodes[h] > 1
       THEN ef_vnodes' = [ef_vnodes EXCEPT ![h] = @ - 1] /\ UNCHANGED call
       ELSE /\ call' = [call EXCEPT ![t] = [Idle EXCEPT !.pc = "reclaim", !.handle = h,
                                                        !.reclaim = TRUE]]
            /\ UNCHANGED ef_vnodes
    /\ UNCHANGED <<locks, device, stuck>>

\* (bug: only e_lock, "to protect the device", is taken)
emufs_reclaim_unlocked(t) ==
    /\ call[t].pc = "reclaim"
    /\ Goto(t, "reclaim_count")
    /\ UNCHANGED <<biglock, e_lock, device, ef_vnodes, held, stuck>>

\* emufs_reclaim takes vfs_biglock,
emufs_reclaim(t) ==
    /\ call[t].pc = "reclaim"
    /\ BigFree(t)
    /\ biglock' = BigLocked(t)
    /\ Goto(t, "reclaim_count")
    /\ UNCHANGED <<e_lock, device, ef_vnodes, held, stuck>>

\* then e_lock and vn_countlock; somebody may have found the vnode meanwhile
\* (EBUSY).  Otherwise the handle is closed.
emufs_reclaim_count(t) ==
    LET h == call[t].handle
    IN  /\ call[t].pc = "reclaim_count"
        /\ e_lock = NULL
        /\ IF ef_vnodes[h] > 1
           THEN /\ ef_vnodes' = [ef_vnodes EXCEPT ![h] = @ - 1]
                /\ biglock' = BigReleased(1)
                /\ Return(t)
                /\ UNCHANGED <<e_lock, emu>>
           ELSE /\ e_lock' = t
                /\ Post("close", h)
                /\ Goto(t, "closing")
                /\ UNCHANGED <<biglock, ef_vnodes>>
        /\ UNCHANGED <<e_sem, e_result, held, stuck>>

\* emu_close by a lookup that failed, which does not have e_lock.
emu_close(t) ==
    /\ call[t].pc = "close"
    /\ e_lock = NULL
    /\ e_lock' = t
    /\ Post("close", call[t].handle)
    /\ Goto(t, "closing")
    /\ UNCHANGED <<biglock, e_sem, e_result, ef_vnodes, held, stuck>>

emu_close_retry(t) ==
    /\ emu_waitdone(t, "closing")
    /\ e_result = "EIO"
    /\ call[t].retries < MAX_RETRIES
    /\ call' = [call EXCEPT ![t].retries = @ + 1]
    /\ Post("close", call[t].handle)
    /\ UNCHANGED <<locks, ef_vnodes, held, stuck>>

\* The handle is closed and its vnode goes, or stays behind if that failed.
emu_close_done(t) ==
    LET h == call[t].handle
    IN  /\ emu_waitdone(t, "closing")
        /\ e_result # "EIO" \/ call[t].retries = MAX_RETRIES
        /\ ef_vnodes' = IF call[t].reclaim /\ e_result = "ok"
                        THEN [x \in DOMAIN ef_vnodes \ {h} |-> ef_vnodes[x]] ELSE ef_vnodes
        /\ stuck' = IF call[t].reclaim
                    THEN IF e_result = "ok" THEN stuck \ {h} ELSE stuck \cup {h}
                    ELSE stuck
        /\ e_lock' = NULL
        /\ biglock' = BigReleased(IF call[t].reclaim THEN 1 ELSE Outer(t))
        /\ Return(t)
        /\ UNCHANGED <<emu, held>>

-----------------------------------------------------------------------------
Next ==
    \/ Perform \/ emu_irq
    \/ \E t \in Threads :
        \/ emufs_lookup(t) \/ emu_open(t) \/ emu_open_done(t)
        \/ emufs_load(t) \/ emufs_loadvnode(t)
        \/ \E error \in LoadErrors : emufs_loadvnode_fails(t, error)
        \/ emu_io_post(t) \/ emu_io_done(t)
        \/ emufs_reclaim(t) \/ emufs_reclaim_count(t)
        \/ emu_close(t) \/ emu_close_retry(t) \/ emu_close_done(t)
        \/ \E h \in Handles :
            \/ emu_io(t, h) \/ vnode_decref(t, h)
            \/ \E u \in Threads : vnode_incref(t, u, h)

Spec == Init /\ [][Next]_vars

\* The device performs and interrupts; the thread that has e_lock goes on.
DeviceStep ==
    \/ Perform \/ emu_irq
    \/ \E t \in Threads :
        emu_open_done(t) \/ emu_io_done(t) \/ emu_close_retry(t) \/ emu_close_done(t)

-----------------------------------------------------------------------------
(* Properties *)

At(pcs) == {t \in Threads : call[t].pc \in pcs}

\* How often t has taken vfs_biglock.
Depth(t) ==
    CASE call[t].reclaim -> IF call[t].pc = "reclaim" THEN 0 ELSE 1
      [] call[t].pc = "find" -> 1 + Outer(t)
      [] call[t].pc \in {"open", "opening", "load", "close", "closing"} -> Outer(t)
      [] OTHER -> 0

\* Every vnode's count is its holders, those about to reclaim it, and one if a
\* failed close has left it behind.  Every handle of a vnode, and every handle a
\* lookup has just been given, is open on the device, so that no operation is
\* ever refused with the fatal EMU_RES_BADHANDLE.  The completion on e_sem is
\* that of the one operation of the owner of e_lock, and vfs_biglock is held
\* only within a lookup or a reclaim.
HandlesExact ==
    /\ \A h \in DOMAIN ef_vnodes :
        ef_vnodes[h] = Cardinality({t \in Threads : h \in held[t]})
                       + Cardinality({t \in Threads : call[t].reclaim /\ call[t].handle = h})
                       + Cardinality({h} \cap stuck)
    /\ UNION {held[t] : t \in Threads} \subseteq DOMAIN ef_vnodes
    /\ emu.oper \in {"io", "close"} => emu.handle \in emu.open
    /\ \A t \in At({"load", "find", "io", "close", "reclaim", "reclaim_count"}) :
        call[t].handle \in emu.open
    /\ e_sem + Cardinality({x \in {emu.oper, emu.result} : x # NULL})
        = Cardinality(At({"opening", "io_wait", "closing"}))
    /\ e_lock # NULL <=> At({"opening", "io_wait", "closing"}) = {e_lock}
    /\ \A t \in Threads : (IF t = biglock.holder THEN biglock.depth ELSE 0) = Depth(t)

\* e_lock is always released, also by a close that fails again and again.
DeviceReleased == (e_lock # NULL) ~> (e_lock = NULL)

=============================================================================
