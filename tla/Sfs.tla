-------------------------------- MODULE Sfs --------------------------------
(***************************************************************************)
(* kern/fs/sfs: a volume with one directory, used by processes that hold   *)
(* references to vnodes.                                                   *)
(*                                                                         *)
(* The operations run under vfs_biglock and are one step each, with all    *)
(* the routines they call; so is what they call of sfs_reclaim.  The one   *)
(* gap is in VOP_DECREF: it decides under the spinlock of the vnode that   *)
(* the reference is the last one, and sfs_reclaim takes the lock later.    *)
(* The disk does not fail: sfs_rwblock tries again.                        *)
(*                                                                         *)
(* Sizes and offsets count bytes, and a directory entry is one byte.  A    *)
(* byte of a file is 1 once it was written.                                *)
(***************************************************************************)
EXTENDS Naturals, Sequences, FiniteSets, FiniteSetsExt, SequencesExt

CONSTANTS
    Procs,
    Names,
    NULL,
    NBLOCKS,          \* blocks of the volume
    SFS_BLOCKSIZE,
    SFS_NDIRECT,
    SFS_DBPERIDB,
    Writes,           \* the <<offset, length>> programs write
    Lengths,          \* what files are truncated to
    MaxHeld           \* bound: references of a process

VARIABLES
    vol,         \* [freemap, freemapdirty, vnodes, disk]
    diskmap,     \* the free block bitmap on the disk
    mounted,
    holds,       \* process -> the vnodes it has a reference to
    reclaims     \* process -> the vnode it is about to reclaim, or NULL

vars == <<vol, diskmap, mounted, holds, reclaims>>

Blocks == 0..(NBLOCKS - 1)
SFS_ROOTDIR_INO == 1

\* What mksfs leaves: the superblock, the root and the bitmap are in use.
Reserved == {0, SFS_ROOTDIR_INO, 2}

Indices == 0..(SFS_DBPERIDB - 1)

Dinode(type, linkcount) ==
    [type |-> type, size |-> 0, linkcount |-> linkcount,
     direct |-> [i \in 0..(SFS_NDIRECT - 1) |-> 0], indirect |-> 0]

\* A block of zeros; it reads as an indirect block, a piece of the directory
\* or data, all empty.
Zeros == NULL

AsIndirect(c) == IF c = Zeros THEN [j \in Indices |-> 0] ELSE c
AsBytes(c) == IF c = Zeros THEN [i \in 0..(SFS_BLOCKSIZE - 1) |-> 0] ELSE c

NoEntry == [ino |-> 0, name |-> NULL]
AsEntries(c) == IF c = Zeros THEN [i \in 0..(SFS_BLOCKSIZE - 1) |-> NoEntry] ELSE c

Init ==
    /\ vol = [freemap |-> Reserved, freemapdirty |-> FALSE, vnodes |-> [v \in {} |-> NULL],
              disk |-> [b \in Blocks |->
                          IF b = SFS_ROOTDIR_INO THEN Dinode("dir", 1) ELSE Zeros]]
    /\ diskmap = Reserved
    /\ mounted = TRUE
    /\ holds = [p \in Procs |-> {}]
    /\ reclaims = [p \in Procs |-> NULL]

-----------------------------------------------------------------------------
(* Blocks: sfs_balloc.c and sfs_bmap.c.  s is a state of the volume. *)

Full(s) == s.freemap = Blocks

\* The block sfs_balloc will give.
NextFree(s) == Min(Blocks \ s.freemap)

sfs_balloc(s) ==
    [s EXCEPT !.freemap = @ \cup {NextFree(s)}, !.freemapdirty = TRUE,
              !.disk[NextFree(s)] = Zeros]

\* What is left in a free block is never seen, as sfs_balloc clears it; the
\* model forgets it.
sfs_bfree(s, bs) ==
    [s EXCEPT !.freemap = @ \ bs, !.freemapdirty = bs # {} \/ @,
              !.disk = [b \in Blocks |-> IF b \in bs THEN Zeros ELSE @[b]]]

Got(s, b) == [s |-> s, block |-> b, ok |-> TRUE]
Failed(s) == [s |-> s, block |-> 0, ok |-> FALSE]

\* (bug: the vnode is not marked)
SetInode_clean(s, v, i) == [s EXCEPT !.vnodes[v].i = i]

\* The vnode's copy of the inode is changed, and dirty.
SetInode(s, v, i) == [s EXCEPT !.vnodes[v].i = i, !.vnodes[v].dirty = TRUE]

bmap_direct(s, v, fileblock, doalloc) ==
    LET i == s.vnodes[v].i
    IN  IF i.direct[fileblock] # 0 \/ ~doalloc THEN Got(s, i.direct[fileblock])
        ELSE IF Full(s) THEN Failed(s)
        ELSE Got(SetInode(sfs_balloc(s), v, [i EXCEPT !.direct[fileblock] = NextFree(s)]),
                 NextFree(s))

\* There is an indirect block, idblock.
bmap_entry(s, idblock, idoff, doalloc) ==
    LET idbuf == AsIndirect(s.disk[idblock])
    IN  IF idbuf[idoff] # 0 \/ ~doalloc THEN Got(s, idbuf[idoff])
        ELSE IF Full(s) THEN Failed(s)
        ELSE Got([sfs_balloc(s) EXCEPT !.disk[idblock] = [idbuf EXCEPT ![idoff] = NextFree(s)]],
                 NextFree(s))

bmap_indirect(s, v, idoff, doalloc) ==
    LET i == s.vnodes[v].i
    IN  IF i.indirect # 0 THEN bmap_entry(s, i.indirect, idoff, doalloc)
        ELSE IF ~doalloc THEN Got(s, 0)
        ELSE IF Full(s) THEN Failed(s)
        ELSE bmap_entry(SetInode(sfs_balloc(s), v, [i EXCEPT !.indirect = NextFree(s)]),
                        NextFree(s), idoff, doalloc)

sfs_bmap(s, v, fileblock, doalloc) ==
    IF fileblock < SFS_NDIRECT THEN bmap_direct(s, v, fileblock, doalloc)
    ELSE IF fileblock - SFS_NDIRECT >= SFS_DBPERIDB THEN Failed(s)
    ELSE bmap_indirect(s, v, fileblock - SFS_NDIRECT, doalloc)

\* (bug: the indirect block stays when its last entry goes)
TruncIndirect_kept(s, v, blocklen) ==
    LET id == s.vnodes[v].i.indirect
        idbuf == AsIndirect(s.disk[id])
        gone == {j \in Indices : blocklen < SFS_NDIRECT + j /\ idbuf[j] # 0}
        left == [j \in Indices |-> IF j \in gone THEN 0 ELSE idbuf[j]]
        freed == sfs_bfree(s, {idbuf[j] : j \in gone})
    IN  IF ~(blocklen < SFS_NDIRECT + SFS_DBPERIDB - 1 /\ id # 0) THEN s
        ELSE IF \A j \in Indices : left[j] = 0
        THEN SetInode(freed, v, [s.vnodes[v].i EXCEPT !.indirect = 0])
        ELSE [freed EXCEPT !.disk[id] = left]

\* The part of sfs_itrunc for the indirect block.
TruncIndirect(s, v, blocklen) ==
    LET id == s.vnodes[v].i.indirect
        idbuf == AsIndirect(s.disk[id])
        gone == {j \in Indices : blocklen < SFS_NDIRECT + j /\ idbuf[j] # 0}
        left == [j \in Indices |-> IF j \in gone THEN 0 ELSE idbuf[j]]
        freed == sfs_bfree(s, {idbuf[j] : j \in gone})
    IN  IF ~(blocklen < SFS_NDIRECT + SFS_DBPERIDB - 1 /\ id # 0) THEN s
        ELSE IF \A j \in Indices : left[j] = 0
        THEN SetInode(sfs_bfree(freed, {id}), v, [s.vnodes[v].i EXCEPT !.indirect = 0])
        ELSE [freed EXCEPT !.disk[id] = left]

sfs_itrunc(s, v, len) ==
    LET blocklen == (len + SFS_BLOCKSIZE - 1) \div SFS_BLOCKSIZE
        i == s.vnodes[v].i
        gone == {k \in DOMAIN i.direct : k >= blocklen /\ i.direct[k] # 0}
        s1 == [sfs_bfree(s, {i.direct[k] : k \in gone}) EXCEPT
                 !.vnodes[v].i.direct = [k \in DOMAIN @ |-> IF k \in gone THEN 0 ELSE @[k]]]
        s2 == TruncIndirect(s1, v, blocklen)
    IN  SetInode(s2, v, [s2.vnodes[v].i EXCEPT !.size = len])

-----------------------------------------------------------------------------
(* Vnodes: sfs_inode.c *)

Loaded(s, v) == v \in DOMAIN s.vnodes

sfs_sync_inode(s, v) ==
    IF s.vnodes[v].dirty
    THEN [s EXCEPT !.disk[v] = s.vnodes[v].i, !.vnodes[v].dirty = FALSE]
    ELSE s

WithVnode(s, v, i, isdirty) ==
    [s EXCEPT !.vnodes = [u \in DOMAIN @ \cup {v} |->
        IF u = v THEN [i |-> i, dirty |-> isdirty, refcount |-> 1] ELSE @[u]]]

\* sfs_loadvnode of an inode that exists.
sfs_loadvnode(s, v) ==
    IF Loaded(s, v) THEN [s EXCEPT !.vnodes[v].refcount = @ + 1]
    ELSE WithVnode(s, v, s.disk[v], FALSE)

\* sfs_makeobj, and sfs_loadvnode with the type forced.
sfs_makeobj(s) == WithVnode(sfs_balloc(s), NextFree(s), Dinode("file", 0), TRUE)

\* sfs_reclaim once nobody else has a reference.
Reclaimed(s, v) ==
    LET gone == s.vnodes[v].i.linkcount = 0
        s1 == sfs_sync_inode(IF gone THEN sfs_itrunc(s, v, 0) ELSE s, v)
        s2 == IF gone THEN sfs_bfree(s1, {v}) ELSE s1
    IN  [s2 EXCEPT !.vnodes = [u \in DOMAIN @ \ {v} |-> @[u]]]

\* VOP_DECREF by a thread that has vfs_biglock.
Decref(s, v) ==
    IF s.vnodes[v].refcount > 1 THEN [s EXCEPT !.vnodes[v].refcount = @ - 1]
    ELSE Reclaimed(s, v)

-----------------------------------------------------------------------------
(* The directory: sfs_dir.c and sfs_metaio.  Its vnode is loaded. *)

sfs_dir_nentries(s) == s.vnodes[SFS_ROOTDIR_INO].i.size

sfs_readdir(s, slot) ==
    LET b == sfs_bmap(s, SFS_ROOTDIR_INO, slot \div SFS_BLOCKSIZE, FALSE).block
    IN  IF b = 0 THEN NoEntry ELSE AsEntries(s.disk[b])[slot % SFS_BLOCKSIZE]

sfs_writedir(s, slot, entry) ==
    LET m == sfs_bmap(s, SFS_ROOTDIR_INO, slot \div SFS_BLOCKSIZE, TRUE)
        s1 == [m.s EXCEPT !.disk[m.block] =
                 [AsEntries(@) EXCEPT ![slot % SFS_BLOCKSIZE] = entry]]
        i == s1.vnodes[SFS_ROOTDIR_INO].i
    IN  IF ~m.ok THEN m
        ELSE IF slot < i.size THEN Got(s1, m.block)
        ELSE Got(SetInode(s1, SFS_ROOTDIR_INO, [i EXCEPT !.size = slot + 1]), m.block)

Slots(s) == 0..(sfs_dir_nentries(s) - 1)
SlotsOf(s, name) == {k \in Slots(s) : sfs_readdir(s, k).ino # 0 /\ sfs_readdir(s, k).name = name}
EmptySlots(s) == {k \in Slots(s) : sfs_readdir(s, k).ino = 0}

Exists(s, name) == SlotsOf(s, name) # {}
SlotOf(s, name) == CHOOSE k \in SlotsOf(s, name) : TRUE
InoOf(s, name) == sfs_readdir(s, SlotOf(s, name)).ino

\* The loop of sfs_dir_findname hands back the last empty slot.
LinkSlot(s) == IF EmptySlots(s) = {} THEN sfs_dir_nentries(s) ELSE Max(EmptySlots(s))

\* The name does not exist.
sfs_dir_link(s, name, ino) == sfs_writedir(s, LinkSlot(s), [ino |-> ino, name |-> name])

sfs_dir_unlink(s, slot) == sfs_writedir(s, slot, NoEntry).s

AddLinks(s, v, n) ==
    SetInode(s, v, [s.vnodes[v].i EXCEPT !.linkcount = @ + n])

DropLink(s, v) ==
    SetInode(s, v, [s.vnodes[v].i EXCEPT !.linkcount = @ - 1])

-----------------------------------------------------------------------------
(* Processes *)

Free(p) == mounted /\ reclaims[p] = NULL

HasDir(p) == Free(p) /\ SFS_ROOTDIR_INO \in holds[p]

HasRoom(p) == Cardinality(holds[p]) < MaxHeld

HoldMore(p, v) == holds' = [holds EXCEPT ![p] = @ \cup {v}]

\* vfs_lookparent, or a lookup of the volume itself.
sfs_getroot(p) ==
    /\ Free(p)
    /\ HasRoom(p)
    /\ SFS_ROOTDIR_INO \notin holds[p]
    /\ vol' = sfs_loadvnode(vol, SFS_ROOTDIR_INO)
    /\ HoldMore(p, SFS_ROOTDIR_INO)
    /\ UNCHANGED <<diskmap, mounted, reclaims>>

\* sfs_lookup, and sfs_creat of a name that exists.
sfs_lookup(p, name) ==
    /\ HasDir(p)
    /\ HasRoom(p)
    /\ Exists(vol, name)
    /\ InoOf(vol, name) \notin holds[p]
    /\ vol' = sfs_loadvnode(vol, InoOf(vol, name))
    /\ HoldMore(p, InoOf(vol, name))
    /\ UNCHANGED <<diskmap, mounted, reclaims>>

\* sfs_creat of a new file.
sfs_creat(p, name) ==
    /\ HasDir(p)
    /\ HasRoom(p)
    /\ ~Exists(vol, name)
    /\ ~Full(vol)
    /\ LET ino == NextFree(vol)
           m == sfs_dir_link(sfs_makeobj(vol), name, ino)
       IN  IF m.ok
           THEN vol' = AddLinks(m.s, ino, 1) /\ HoldMore(p, ino)
           ELSE vol' = Decref(m.s, ino) /\ UNCHANGED holds
    /\ UNCHANGED <<diskmap, mounted, reclaims>>

\* Hard links to directories aren't allowed.
sfs_link(p, name, v) ==
    /\ HasDir(p)
    /\ v \in holds[p] \ {SFS_ROOTDIR_INO}
    /\ ~Exists(vol, name)
    /\ LET m == sfs_dir_link(vol, name, v)
       IN  vol' = IF m.ok THEN AddLinks(m.s, v, 1) ELSE m.s
    /\ UNCHANGED <<diskmap, mounted, holds, reclaims>>

sfs_remove(p, name) ==
    /\ HasDir(p)
    /\ Exists(vol, name)
    /\ LET victim == InoOf(vol, name)
           s == sfs_dir_unlink(sfs_loadvnode(vol, victim), SlotOf(vol, name))
       IN  vol' = Decref(DropLink(s, victim), victim)
    /\ UNCHANGED <<diskmap, mounted, holds, reclaims>>

sfs_rename(p, n1, n2) ==
    /\ HasDir(p)
    /\ Exists(vol, n1)
    /\ LET g1 == InoOf(vol, n1)
           m == sfs_dir_link(sfs_loadvnode(vol, g1), n2, g1)
           s == sfs_dir_unlink(AddLinks(m.s, g1, 1), SlotOf(vol, n1))
       IN  IF Exists(vol, n2) THEN vol' = Decref(sfs_loadvnode(vol, g1), g1)
           ELSE IF m.ok THEN vol' = Decref(DropLink(s, g1), g1)
           ELSE vol' = Decref(m.s, g1)
    /\ UNCHANGED <<diskmap, mounted, holds, reclaims>>

\* sfs_partialio and sfs_blockio: the bytes of one block of the transfer; w is
\* the transfer so far, [s, off, ok].
WriteBlock(v, end, w, fileblock) ==
    LET m == sfs_bmap(w.s, v, fileblock, TRUE)
        base == fileblock * SFS_BLOCKSIZE
        upto == Min({end, base + SFS_BLOCKSIZE})
        bytes == [k \in 0..(SFS_BLOCKSIZE - 1) |->
                    IF base + k \in w.off..(upto - 1) THEN 1
                    ELSE AsBytes(m.s.disk[m.block])[k]]
    IN  IF ~w.ok THEN w
        ELSE IF ~m.ok THEN [w EXCEPT !.s = m.s, !.ok = FALSE]
        ELSE [s |-> [m.s EXCEPT !.disk[m.block] = bytes], off |-> upto, ok |-> TRUE]

\* sfs_write: sfs_io block by block, and the length of what was written.
sfs_write(p, v, off, len) ==
    /\ Free(p)
    /\ v \in holds[p] \ {SFS_ROOTDIR_INO}
    /\ LET first == off \div SFS_BLOCKSIZE
           last == (off + len - 1) \div SFS_BLOCKSIZE
           w == FoldLeft(LAMBDA acc, fb : WriteBlock(v, off + len, acc, fb),
                         [s |-> vol, off |-> off, ok |-> TRUE],
                         [k \in 1..(last - first + 1) |-> first + k - 1])
           i == w.s.vnodes[v].i
       IN  vol' = IF w.off # off /\ w.off > i.size
                  THEN SetInode(w.s, v, [i EXCEPT !.size = w.off]) ELSE w.s
    /\ UNCHANGED <<diskmap, mounted, holds, reclaims>>

sfs_truncate(p, v, len) ==
    /\ Free(p)
    /\ v \in holds[p] \ {SFS_ROOTDIR_INO}
    /\ vol' = sfs_itrunc(vol, v, len)
    /\ UNCHANGED <<diskmap, mounted, holds, reclaims>>

\* vnode_decref, outside of vfs_biglock: the last reference is kept ...
vnode_decref(p, v) ==
    /\ Free(p)
    /\ v \in holds[p]
    /\ holds' = [holds EXCEPT ![p] = @ \ {v}]
    /\ IF vol.vnodes[v].refcount > 1
       THEN /\ vol' = [vol EXCEPT !.vnodes[v].refcount = @ - 1]
            /\ UNCHANGED reclaims
       ELSE /\ reclaims' = [reclaims EXCEPT ![p] = v]
            /\ UNCHANGED vol
    /\ UNCHANGED <<diskmap, mounted>>

\* ... for sfs_reclaim, which finds out whether it is still the last one.
sfs_reclaim(p) ==
    /\ reclaims[p] # NULL
    /\ vol' = Decref(vol, reclaims[p])
    /\ reclaims' = [reclaims EXCEPT ![p] = NULL]
    /\ UNCHANGED <<diskmap, mounted, holds>>

\* sfs_sync: the vnodes, then the bitmap.
Synced(s) ==
    [s EXCEPT !.disk = [b \in Blocks |->
                          IF Loaded(s, b) /\ s.vnodes[b].dirty THEN s.vnodes[b].i ELSE @[b]],
              !.vnodes = [v \in DOMAIN @ |-> [@[v] EXCEPT !.dirty = FALSE]],
              !.freemapdirty = FALSE]

sfs_sync ==
    /\ mounted
    /\ vol' = Synced(vol)
    /\ diskmap' = IF vol.freemapdirty THEN vol.freemap ELSE diskmap
    /\ UNCHANGED <<mounted, holds, reclaims>>

\* vfs_unmount: sfs_sync, and sfs_unmount unless it is busy.
vfs_unmount ==
    /\ mounted
    /\ DOMAIN vol.vnodes = {}
    /\ vol' = Synced(vol)
    /\ diskmap' = IF vol.freemapdirty THEN vol.freemap ELSE diskmap
    /\ mounted' = FALSE
    /\ UNCHANGED <<holds, reclaims>>

\* vfs_mount with sfs_domount.
sfs_domount ==
    /\ ~mounted
    /\ vol' = [vol EXCEPT !.freemap = diskmap, !.freemapdirty = FALSE]
    /\ mounted' = TRUE
    /\ UNCHANGED <<diskmap, holds, reclaims>>

-----------------------------------------------------------------------------
Next ==
    \/ \E p \in Procs :
        \/ sfs_getroot(p) \/ sfs_reclaim(p)
        \/ \E name \in Names : sfs_lookup(p, name) \/ sfs_creat(p, name) \/ sfs_remove(p, name)
        \/ \E n1, n2 \in Names : sfs_rename(p, n1, n2)
        \/ \E v \in holds[p] :
            \/ \E name \in Names : sfs_link(p, name, v)
            \/ \E w \in Writes : sfs_write(p, v, w[1], w[2])
            \/ \E len \in Lengths : sfs_truncate(p, v, len)
            \/ vnode_decref(p, v)
    \/ sfs_sync \/ vfs_unmount \/ sfs_domount

Spec == Init /\ [][Next]_vars

-----------------------------------------------------------------------------
(* Properties *)

\* The volume as sfsck would see it: from memory while it is mounted, from the
\* disk when it is not.
Inode(v) == IF Loaded(vol, v) THEN vol.vnodes[v].i ELSE vol.disk[v]

\* The blocks of v, by their place in the file.
FileBlocks(v) ==
    LET i == Inode(v)
        idbuf == AsIndirect(vol.disk[i.indirect])
    IN  [k \in 0..(SFS_NDIRECT + SFS_DBPERIDB - 1) |->
           IF k < SFS_NDIRECT THEN i.direct[k]
           ELSE IF i.indirect = 0 THEN 0
           ELSE idbuf[k - SFS_NDIRECT]]

\* The entries of the directory, with their slots.
Entries ==
    LET blocks == FileBlocks(SFS_ROOTDIR_INO)
        at(k) == blocks[k \div SFS_BLOCKSIZE]
        slots == {k \in 0..(Inode(SFS_ROOTDIR_INO).size - 1) : at(k) # 0}
    IN  {e \in {<<k, AsEntries(vol.disk[at(k)])[k % SFS_BLOCKSIZE]>> : k \in slots} :
           e[2].ino # 0}

Inos == {SFS_ROOTDIR_INO} \cup {e[2].ino : e \in Entries} \cup DOMAIN vol.vnodes

\* The uses of blocks by the inode v: <<v, a place, the block there>>.  The
\* places are its file blocks, the indirect block and the inode itself.
UsesBy(v) ==
    LET blocks == FileBlocks(v)
        last == SFS_NDIRECT + SFS_DBPERIDB
    IN  {u \in {<<v, k, blocks[k]>> : k \in DOMAIN blocks}
               \cup {<<v, last, Inode(v).indirect>>, <<v, last + 1, v>>} :
           u[3] # 0}

\* What sfsck checks: every block that is marked is used, exactly once, and
\* every one used is marked; the link count of a file is the number of its
\* names; no name is there twice.  It holds after every operation, whatever
\* ran out on the way, with files that were removed while in use, and with
\* reclaims that raced with lookups; and on the disk after an unmount.
VolumeExact ==
    LET uses == UNION {UsesBy(v) : v \in Inos}
        marked == IF mounted THEN vol.freemap ELSE diskmap
    IN  /\ marked = {0, 2} \cup {u[3] : u \in uses}
        /\ Cardinality({u[3] : u \in uses}) = Cardinality(uses)
        /\ \A v \in Inos \ {SFS_ROOTDIR_INO} :
              Inode(v).linkcount = Cardinality({e \in Entries : e[2].ino = v})
        /\ \A e, f \in Entries : e[2].name = f[2].name => e = f

\* The bytes of v that read as written.
Content(v) ==
    LET blocks == FileBlocks(v)
        at(x) == blocks[x \div SFS_BLOCKSIZE]
    IN  {x \in 0..(Inode(v).size - 1) :
           at(x) # 0 /\ AsBytes(vol.disk[at(x)])[x % SFS_BLOCKSIZE] = 1}

FileNames ==
    LET entries == {e[2] : e \in Entries}
    IN  [n \in Names |-> IF \E e \in entries : e.name = n
                         THEN (CHOOSE e \in entries : e.name = n).ino ELSE 0]
FileContents ==
    LET inos == Inos \ {SFS_ROOTDIR_INO}
    IN  [v \in Blocks |-> IF v \in inos
                          THEN [size |-> Inode(v).size, bytes |-> Content(v)] ELSE NULL]
FilesOpen == [p \in Procs |-> holds[p] \ {SFS_ROOTDIR_INO}]

Abs == INSTANCE FileStore
    WITH Ids <- Blocks, names <- FileNames, files <- FileContents, opened <- FilesOpen

FileStep == UNCHANGED <<FileNames, FileContents, FilesOpen>> \/ Abs!Next

\* A program sees plain files: names that stay until they are removed, contents
\* that stay until they are written or truncated, while a file has a name or
\* somebody uses it, and over unmounting and mounting the volume.
ImplementsFileStore == Abs!Init /\ [][FileStep]_vars

=============================================================================
