-------------------------------- MODULE Vfs --------------------------------
(***************************************************************************)
(* kern/vfs: the table of devices with what is mounted on them, names of   *)
(* devices and volumes, the current directories and the boot file system.  *)
(*                                                                         *)
(* The directories here are roots of file systems; what happens below a    *)
(* root is in Sfs and Semfs.  A section under vfs_biglock is one step,     *)
(* except vfs_setbootfs, which keeps the lock over several.  The menu      *)
(* changes directories and mounts; programs inherit a directory, open and  *)
(* close, and exit at any time.                                            *)
(***************************************************************************)
EXTENDS Naturals, FiniteSets

CONSTANTS
    Procs,
    Menu,          \* the kernel's process
    Disks,         \* devices with a raw name: they can be mounted
    Hardwired,     \* devices that are file systems: emu0
    Plain,         \* other devices: null, con
    NULL

VARIABLES
    kd_fs,         \* device -> "fs", "swap" or NULL
    refcount,      \* vnode -> vn_refcount, 0 when it is not loaded
    bootfs_vnode,
    p_cwd,         \* process -> a vnode, or NULL
    opened,        \* process -> the vnode it has open, or NULL
    call           \* what the menu is doing: [pc, vn, old, boot]

vars == <<kd_fs, refcount, bootfs_vnode, p_cwd, opened, call>>

Devs == Disks \cup Hardwired \cup Plain

\* The root of the file system on a device, and the device itself.
Root(d) == <<"root", d>>
Device(d) == <<"device", d>>
Vnodes == {Root(d) : d \in Devs} \cup {Device(d) : d \in Devs}

Idle == [pc |-> "idle", vn |-> NULL, old |-> NULL, boot |-> FALSE]

\* The table keeps a reference to every device, and emufs one to its root.
Kept == {Device(d) : d \in Devs} \cup {Root(d) : d \in Hardwired}

\* After boot(), up to vfs_setbootfs: vfs_doadd has entered the devices.
Init ==
    /\ kd_fs = [d \in Devs |-> IF d \in Hardwired THEN "fs" ELSE NULL]
    /\ refcount = [v \in Vnodes |-> IF v \in Kept THEN 1 ELSE 0]
    /\ bootfs_vnode = NULL
    /\ p_cwd = [p \in Procs |-> NULL]
    /\ opened = [p \in Procs |-> NULL]
    /\ call = Idle

-----------------------------------------------------------------------------
(* Names *)

\* A path begins with the name of a device, its raw name, the name of the
\* volume on it, "/", ":" or none of these.
Paths == {<<kind, d>> : kind \in {"name", "raw", "volume"}, d \in Devs}
           \cup {<<"/", NULL>>, <<":", NULL>>, <<".", NULL>>}

\* vfs_getroot, NULL for an error.
vfs_getroot(path) ==
    LET d == path[2]
    IN  IF kd_fs[d] = "fs" /\ path[1] \in {"name", "volume"} THEN Root(d)
        ELSE IF d \notin Disks /\ path[1] = "name" THEN Device(d)
        ELSE IF d \in Disks /\ path[1] = "raw" THEN Device(d)
        ELSE NULL

\* getdevice: the vnode p starts from; ":" is the root of the current volume.
getdevice(p, path) ==
    IF path[1] = "/" THEN bootfs_vnode
    ELSE IF path[1] \in {":", "."} THEN p_cwd[p]
    ELSE vfs_getroot(path)

\* VOP_GETTYPE says S_IFDIR.
IsDirectory(v) == v[1] = "root"

VOP_INCREF(v) == refcount' = [refcount EXCEPT ![v] = @ + 1]
VOP_DECREF(v) == refcount' = [refcount EXCEPT ![v] = @ - 1]

\* May p take vfs_biglock?  The menu keeps it during vfs_setbootfs.
MayLock(p) == p = Menu \/ ~call.boot

\* May p drop a reference to v?  The last one goes to VOP_RECLAIM, which
\* takes the lock; until then the vnode stays in the table of its volume.
MayDrop(p, v) == refcount[v] > 1 \/ MayLock(p)

-----------------------------------------------------------------------------
(* Programs, and other users of files *)

\* vfs_lookup of a path that is no more than such a beginning.
vfs_open(p, path) ==
    /\ MayLock(p)
    /\ p = Menu => call = Idle
    /\ opened[p] = NULL
    /\ LET v == getdevice(p, path)
       IN  /\ v # NULL
           /\ VOP_INCREF(v)
           /\ opened' = [opened EXCEPT ![p] = v]
    /\ UNCHANGED <<kd_fs, bootfs_vnode, p_cwd, call>>

vfs_close(p) ==
    /\ opened[p] # NULL
    /\ p = Menu => call = Idle
    /\ MayDrop(p, opened[p])
    /\ VOP_DECREF(opened[p])
    /\ opened' = [opened EXCEPT ![p] = NULL]
    /\ UNCHANGED <<kd_fs, bootfs_vnode, p_cwd, call>>

\* proc_create_runprogram: q starts in the directory of p.
proc_create_runprogram(p, q) ==
    /\ p = Menu => call = Idle
    /\ q # Menu /\ p_cwd[q] = NULL /\ opened[q] = NULL
    /\ p_cwd[p] # NULL
    /\ VOP_INCREF(p_cwd[p])
    /\ p_cwd' = [p_cwd EXCEPT ![q] = p_cwd[p]]
    /\ UNCHANGED <<kd_fs, bootfs_vnode, opened, call>>

\* proc_destroy of a program, and vfs_clearcurdir of the menu.
vfs_clearcurdir(p) ==
    /\ p = Menu => call = Idle
    /\ p_cwd[p] # NULL
    /\ MayDrop(p, p_cwd[p])
    /\ VOP_DECREF(p_cwd[p])
    /\ p_cwd' = [p_cwd EXCEPT ![p] = NULL]
    /\ UNCHANGED <<kd_fs, bootfs_vnode, opened, call>>

-----------------------------------------------------------------------------
(* Directories of the menu *)

\* vfs_lookup in vfs_chdir, which is called by cd or by vfs_setbootfs.
vfs_chdir(path, boot) ==
    /\ call = Idle
    /\ boot => path[2] # NULL
    /\ LET v == getdevice(Menu, path)
       IN  /\ v # NULL
           /\ VOP_INCREF(v)
           /\ call' = [pc |-> "set", vn |-> v, old |-> NULL, boot |-> boot]
    /\ UNCHANGED <<kd_fs, bootfs_vnode, p_cwd, opened>>

\* (bug: the directory is stored without a reference)
vfs_setcurdir_noref ==
    /\ call.pc = "set"
    /\ IF IsDirectory(call.vn)
       THEN /\ p_cwd' = [p_cwd EXCEPT ![Menu] = call.vn]
            /\ call' = [call EXCEPT !.pc = "drop", !.old = p_cwd[Menu]]
       ELSE /\ call' = [call EXCEPT !.pc = "drop"]
            /\ UNCHANGED p_cwd
    /\ UNCHANGED <<kd_fs, bootfs_vnode, opened, refcount>>

vfs_setcurdir ==
    /\ call.pc = "set"
    /\ IF IsDirectory(call.vn)
       THEN /\ VOP_INCREF(call.vn)
            /\ p_cwd' = [p_cwd EXCEPT ![Menu] = call.vn]
            /\ call' = [call EXCEPT !.pc = "drop", !.old = p_cwd[Menu]]
       ELSE /\ call' = [call EXCEPT !.pc = "drop"]
            /\ UNCHANGED <<refcount, p_cwd>>
    /\ UNCHANGED <<kd_fs, bootfs_vnode, opened>>

\* VOP_DECREF(old) in vfs_setcurdir and in change_bootfs.
DropOld ==
    /\ call.old # NULL
    /\ VOP_DECREF(call.old)
    /\ call' = IF call.pc = "changed" THEN Idle ELSE [call EXCEPT !.old = NULL]
    /\ UNCHANGED <<kd_fs, bootfs_vnode, p_cwd, opened>>

\* VOP_DECREF(vn) at the end of vfs_chdir; vfs_setbootfs goes on if it
\* succeeded.
DropNew ==
    /\ call.pc = "drop"
    /\ call.old = NULL
    /\ VOP_DECREF(call.vn)
    /\ call' = IF call.boot /\ IsDirectory(call.vn)
               THEN [call EXCEPT !.pc = "boot", !.vn = NULL] ELSE Idle
    /\ UNCHANGED <<kd_fs, bootfs_vnode, p_cwd, opened>>

\* vfs_getcurdir in vfs_setbootfs, and change_bootfs.
vfs_setbootfs ==
    /\ call.pc = "boot"
    /\ VOP_INCREF(p_cwd[Menu])
    /\ bootfs_vnode' = p_cwd[Menu]
    /\ call' = IF bootfs_vnode = NULL THEN Idle
               ELSE [call EXCEPT !.pc = "changed", !.old = bootfs_vnode]
    /\ UNCHANGED <<kd_fs, p_cwd, opened>>

vfs_clearbootfs ==
    /\ call = Idle
    /\ bootfs_vnode # NULL
    /\ bootfs_vnode' = NULL
    /\ VOP_DECREF(bootfs_vnode)
    /\ UNCHANGED <<kd_fs, p_cwd, opened, call>>

-----------------------------------------------------------------------------
(* Mounting *)

\* FSOP_UNMOUNT: EBUSY while the volume has vnodes.
Unmountable(d) == kd_fs[d] = "fs" /\ refcount[Root(d)] = 0

vfs_mount(d) ==
    /\ call = Idle
    /\ d \in Disks /\ kd_fs[d] = NULL
    /\ kd_fs' = [kd_fs EXCEPT ![d] = "fs"]
    /\ UNCHANGED <<refcount, bootfs_vnode, p_cwd, opened, call>>

vfs_unmount(d) ==
    /\ call = Idle
    /\ d \in Disks /\ Unmountable(d)
    /\ kd_fs' = [kd_fs EXCEPT ![d] = NULL]
    /\ UNCHANGED <<refcount, bootfs_vnode, p_cwd, opened, call>>

\* The caller gets a reference to the device.
vfs_swapon(d) ==
    /\ call = Idle
    /\ opened[Menu] = NULL
    /\ d \in Disks /\ kd_fs[d] = NULL
    /\ kd_fs' = [kd_fs EXCEPT ![d] = "swap"]
    /\ VOP_INCREF(Device(d))
    /\ opened' = [opened EXCEPT ![Menu] = Device(d)]
    /\ UNCHANGED <<bootfs_vnode, p_cwd, call>>

vfs_swapoff(d) ==
    /\ call = Idle
    /\ d \in Disks /\ kd_fs[d] = "swap"
    /\ kd_fs' = [kd_fs EXCEPT ![d] = NULL]
    /\ UNCHANGED <<refcount, bootfs_vnode, p_cwd, opened, call>>

\* What is busy stays.
vfs_unmountall ==
    /\ call = Idle
    /\ kd_fs' = [d \in Devs |->
                   IF d \in Disks /\ (kd_fs[d] = "swap" \/ Unmountable(d))
                   THEN NULL ELSE kd_fs[d]]
    /\ UNCHANGED <<refcount, bootfs_vnode, p_cwd, opened, call>>

-----------------------------------------------------------------------------
Next ==
    \/ \E p \in Procs :
        \/ \E path \in Paths : vfs_open(p, path)
        \/ vfs_close(p) \/ vfs_clearcurdir(p)
        \/ \E q \in Procs : proc_create_runprogram(p, q)
    \/ \E path \in Paths, boot \in BOOLEAN : vfs_chdir(path, boot)
    \/ vfs_setcurdir \/ DropOld \/ DropNew \/ vfs_setbootfs \/ vfs_clearbootfs
    \/ \E d \in Disks : vfs_mount(d) \/ vfs_unmount(d) \/ vfs_swapon(d) \/ vfs_swapoff(d)
    \/ vfs_unmountall

Spec == Init /\ [][Next]_vars

-----------------------------------------------------------------------------
(* Properties *)

\* The references to v that somebody will drop.
Holders(v) ==
    Cardinality({p \in Procs : p_cwd[p] = v}) + Cardinality({p \in Procs : opened[p] = v})
      + Cardinality({x \in {"boot"} : bootfs_vnode = v})
      + Cardinality({x \in {"vn"} : call.vn = v}) + Cardinality({x \in {"old"} : call.old = v})

\* vfs_getdevname relies on it: "as long as the guy calling us holds a
\* reference to the fs, the fs cannot go away".  The count of a root is the
\* number of current directories, files and boot file systems that are it, at
\* every point of a change of directory; and as long as there is one, the
\* volume is mounted.
ReferenceKeepsFs ==
    /\ \A v \in Vnodes :
        refcount[v] = Holders(v) + Cardinality(Kept \cap {v})
    /\ \A d \in Devs : refcount[Root(d)] > 0 => kd_fs[d] = "fs"

=============================================================================
