---------------------------------- MODULE Vfs ----------------------------------
(***************************************************************************)
(* The VFS layer (vfs/) over one SFS volume: mounting, path lookup, vnode  *)
(* reference counts, and the calls the rest of the kernel makes.           *)
(*                                                                         *)
(* Every call is one step.  The calls are written to exclude each other by *)
(* vfs_biglock, which they hold or take at each operation; in this source  *)
(* the lock is an empty stub, so what is shown here holds for callers that *)
(* do not overlap.                                                         *)
(***************************************************************************)
EXTENDS Sfs

CONSTANTS Extents,      \* pairs <<offset, length>> that are written
          Lengths,      \* lengths for ftruncate
          MaxOpen       \* bound on the open files

VARIABLES
    fs,         \* the volume: disk, map, mapdirty, vn, down (a panic), errs
    mounted,    \* kd_fs is not NULL
    cwd,        \* t_cwd is the root directory, not NULL
    bootfs,     \* bootfs_vnode is the root directory, not NULL
    handles     \* open files of the callers: file to number of opens

vars == <<fs, mounted, cwd, bootfs, handles>>

VnodeType == [i : InodeType, dirty : BOOLEAN, ref : Nat \ {0}, open : Nat]

TypeOK ==
    /\ fs.map \subseteq Blocks
    /\ fs.mapdirty \in BOOLEAN
    /\ DOMAIN fs.vn \subseteq Blocks
    /\ \A ino \in DOMAIN fs.vn : fs.vn[ino] \in VnodeType
    /\ fs.errs \in 0 .. MaxErrors
    /\ {mounted, cwd, bootfs} \subseteq BOOLEAN
    /\ handles \in [Blocks -> 0 .. MaxOpen]

Init ==
    /\ fs = [disk |-> mksfs, map |-> {}, mapdirty |-> FALSE, vn |-> [j \in {} |-> 0],
             down |-> "", errs |-> 0]
    /\ mounted = FALSE
    /\ cwd = FALSE /\ bootfs = FALSE
    /\ handles = [b \in Blocks |-> 0]

--------------------------------------------------------------------------------
(* What the calls do to the volume *)

\* Where the lookup of a path starts.  A path on the device starts at the volume's
\* root; one from the current directory or from the boot file system starts at the
\* vnode that cwd or bootfs holds, which is the root too, and sfs_getroot finds it
\* loaded; without one, the call fails and nothing has changed.
getdevice(s) == sfs_getroot(s)

vfs_lookparent(s) ==
    Then(getdevice(s), LAMBDA t, start :
         Finally(sfs_lookparent(t, start), LAMBDA u : vnode_decref(u, start)))

\* Op(...) on the directory, and the release of it.
WithParent(s, Op(_)) ==
    Then(vfs_lookparent(s), LAMBDA t, dir : Finally(Op(t), LAMBDA u : vnode_decref(u, dir)))

\* The path of a name, or NoName for the device alone.
NoName == ""
vfs_lookup(s, name) ==
    Then(getdevice(s), LAMBDA t, start :
         IF name = NoName THEN Ok(t, start)
         ELSE Finally(sfs_lookup(t, start, name), LAMBDA u : vnode_decref(u, start)))

vfs_close(s, ino) ==
    Finally(Finally(Ok(s, ino), LAMBDA t : vnode_decopen(t, ino)),
            LAMBDA t : vnode_decref(t, ino))

\* Op(...) with the reference dropped when it fails.
OrDrop(O, ino) ==
    UNION {IF o.r = "ok" THEN {o} ELSE Finally({o}, LAMBDA t : vnode_decref(t, ino)) : o \in O}

\* O_APPEND is refused only after O_CREAT has made the file.
vfs_open(s, name, flags) ==
    Then(IF "O_CREAT" \in flags
         THEN WithParent(s, LAMBDA t : sfs_creat(t, name, "O_EXCL" \in flags))
         ELSE vfs_lookup(s, name),
         LAMBDA t, ino :
            Then(OrDrop(sfs_open(t, ino, flags), ino), LAMBDA u, x :
                 UNION {IF o.r = "ok" THEN Ok(o.s, ino)
                        ELSE Finally({o}, LAMBDA w : vfs_close(w, ino))
                            : o \in CASE ~ ("O_TRUNC" \in flags) -> Ok(vnode_incopen(u, ino), 0)
                                      [] "O_TRUNC" \in flags /\ "O_WRONLY" \in flags ->
                                            sfs_truncate(vnode_incopen(u, ino), ino, 0)
                                      [] OTHER -> Fail(vnode_incopen(u, ino), "EINVAL")}))

vfs_remove(s, name) == WithParent(s, LAMBDA t : sfs_remove(t, name))

\* The two lookups of the one directory count as one.
vfs_rename(s, n1, n2) == WithParent(s, LAMBDA t : sfs_rename(t, n1, n2))

vfs_link(s, n1, n2) ==
    Then(vfs_lookup(s, n1), LAMBDA t, ino :
         Finally(WithParent(t, LAMBDA u : sfs_link(u, n2, ino)),
                 LAMBDA u : vnode_decref(u, ino)))

\* What SFS does not have fails after the lookup.
vfs_symlink(s) == WithParent(s, sfs_unimp)
vfs_mkdir(s) == WithParent(s, sfs_unimp)
vfs_rmdir(s) == WithParent(s, sfs_unimp)
vfs_readlink(s, name) == Then(vfs_lookup(s, name), LAMBDA t, ino : OrDrop(sfs_unimp(t), ino))

\* The directory gets a reference of its own before the old one, if there is
\* one, loses its; the caller keeps the one from the lookup.
vfs_setcurdir(s, ino, had) ==
    Then(sfs_gettype(s, ino), LAMBDA t, type :
         IF type # Dir THEN Fail(t, "ENOTDIR")
         ELSE IF had THEN vnode_decref(vnode_incref(t, ino), RootLocation)
              ELSE Ok(vnode_incref(t, ino), 0))

vfs_chdir(s, name, had) ==
    Then(vfs_lookup(s, name), LAMBDA t, ino :
         Finally(vfs_setcurdir(t, ino, had), LAMBDA u : vnode_decref(u, ino)))

vfs_getcurdir(s) == Ok(vnode_incref(s, RootLocation), RootLocation)

vfs_getcwd(s) ==
    Then(vfs_getcurdir(s), LAMBDA t, ino :
         Finally(sfs_namefile(t, ino), LAMBDA u : vnode_decref(u, ino)))

\* The boot file system becomes the caller's current directory as well.  A name with
\* a colon is refused, also one with the colon at its end, which the code means to
\* accept; cmd_bootfs has cut it off.
vfs_setbootfs(s, had, hadboot) ==
    Then(vfs_chdir(s, NoName, had), LAMBDA t, x :
         Then(vfs_getcurdir(t), LAMBDA u, ino :
              IF hadboot THEN vnode_decref(u, ino) ELSE Ok(u, 0)))

--------------------------------------------------------------------------------
(* Steps *)

Up == mounted /\ fs.down = ""

Total(h) == MapThenSumSet(LAMBDA b : h[b], Blocks)

Open(name, flags) ==
    /\ Up /\ Total(handles) < MaxOpen
    /\ \E o \in vfs_open(fs, name, flags) :
          /\ fs' = o.s
          /\ handles' = IF o.r = "ok" THEN [handles EXCEPT ![o.v] = @ + 1] ELSE handles
    /\ UNCHANGED <<mounted, cwd, bootfs>>

Close(ino) ==
    /\ Up /\ handles[ino] > 0
    /\ \E o \in vfs_close(fs, ino) : fs' = o.s
    /\ handles' = [handles EXCEPT ![ino] = @ - 1]
    /\ UNCHANGED <<mounted, cwd, bootfs>>

\* A call that opens and closes nothing.
Call(O) ==
    /\ \E o \in O : fs' = o.s
    /\ UNCHANGED <<mounted, cwd, bootfs, handles>>

RemoveFile(name) == Up /\ Call(vfs_remove(fs, name))
Rename(n1, n2) == Up /\ Call(vfs_rename(fs, n1, n2))
Link(n1, n2) == Up /\ Call(vfs_link(fs, n1, n2))

Readlink(name) == Up /\ Call(vfs_readlink(fs, name))
Unsupported == Up /\ Call(vfs_symlink(fs) \cup vfs_mkdir(fs) \cup vfs_rmdir(fs))

\* VOP_READ, VOP_WRITE, VOP_TRUNCATE and VOP_FSYNC on an open file.
Data(ino) == [ino |-> ino, name |-> ""]
Read(ino, off, len) ==
    Up /\ handles[ino] > 0 /\ Call(Then(FileOp(fs, ino), LAMBDA s, x : sfs_read(s, ino, off, len)))
Write(ino, off, len) ==
    /\ Up /\ handles[ino] > 0
    /\ Call(Then(FileOp(fs, ino), LAMBDA s, x : sfs_write(s, ino, off, [k \in 1 .. len |-> Data(ino)])))
Truncate(ino, len) ==
    Up /\ handles[ino] > 0 /\ Call(Then(FileOp(fs, ino), LAMBDA s, x : sfs_truncate(s, ino, len)))
Fsync(ino) ==
    Up /\ handles[ino] > 0 /\ Call(Then(vnode_check(fs, ino), LAMBDA s, x : sfs_sync_inode(s, ino)))
Sync == Up /\ Call(Ok(sfs_sync(fs), 0) \cup SyncCut(fs))

Chdir(name) ==
    /\ Up
    /\ \E o \in vfs_chdir(fs, name, cwd) : fs' = o.s /\ cwd' = (cwd \/ o.r = "ok")
    /\ UNCHANGED <<mounted, bootfs, handles>>

Getcwd == Up /\ cwd /\ Call(vfs_getcwd(fs))

\* vfs_clearcurdir, and vfs_clearbootfs at shutdown.
ClearCurdir ==
    /\ Up /\ cwd
    /\ \E o \in vnode_decref(fs, RootLocation) : fs' = o.s
    /\ cwd' = FALSE
    /\ UNCHANGED <<mounted, bootfs, handles>>

SetBootfs ==
    /\ Up
    /\ \E o \in vfs_setbootfs(fs, cwd, bootfs) :
          /\ fs' = o.s
          /\ cwd' = (cwd \/ o.r = "ok")
          /\ bootfs' = (bootfs \/ o.r = "ok")
    /\ UNCHANGED <<mounted, handles>>

ClearBootfs ==
    /\ Up /\ bootfs
    /\ \E o \in vnode_decref(fs, RootLocation) : fs' = o.s
    /\ bootfs' = FALSE
    /\ UNCHANGED <<mounted, cwd, handles>>

Mount ==
    /\ ~mounted
    /\ \E o \in sfs_domount(fs) : fs' = o.s /\ mounted' = (o.r = "ok")
    /\ UNCHANGED <<cwd, bootfs, handles>>

\* A volume in use stays mounted, but synced.
Unmount ==
    /\ Up
    /\ \E o \in sfs_unmount(sfs_sync(fs)) \cup SyncCut(fs) : fs' = o.s /\ mounted' = (o.r # "ok")
    /\ UNCHANGED <<cwd, bootfs, handles>>

Flags == {{}, {"O_WRONLY", "O_TRUNC"}, {"O_CREAT"}, {"O_CREAT", "O_EXCL"}, {"O_CREAT", "O_APPEND"}}
DirFlags == {{}, {"O_TRUNC"}, {"O_WRONLY"}}

Next ==
    \/ \E n \in Names, f \in Flags : Open(n, f)
    \/ \E f \in DirFlags : Open(NoName, f)
    \/ \E n \in Names : RemoveFile(n) \/ Readlink(n)
    \/ \E n1, n2 \in Names : Rename(n1, n2)
    \/ \E n1, n2 \in Names : Link(n1, n2)
    \/ \E ino \in Blocks : Close(ino)
    \/ \E ino \in Blocks, e \in Extents : Write(ino, e[1], e[2]) \/ Read(ino, e[1], e[2])
    \/ \E ino \in Blocks, len \in Lengths : Truncate(ino, len)
    \/ \E ino \in Blocks : Fsync(ino)
    \/ \E n \in Names \cup {NoName} : Chdir(n)
    \/ Sync \/ Getcwd \/ ClearCurdir \/ SetBootfs \/ ClearBootfs \/ Unsupported \/ Mount \/ Unmount

Spec == Init /\ [][Next]_vars

--------------------------------------------------------------------------------
(* The volume as a reader of memory and disk together sees it *)

Decode(x, kind) == IF x.kind = kind THEN x.val ELSE ZeroAs(kind)

\* The directory and every file that is loaded or has a name.
InodeOf(ino) == IF ino \in DOMAIN fs.vn THEN fs.vn[ino].i ELSE Decode(fs.disk[ino], "inode")

\* The block with number k of a file.
Pointer(ino, k) ==
    LET i == InodeOf(ino)
    IN  CASE k < NDirect -> i.direct[k]
          [] k >= NDirect /\ i.ind = 0 -> 0
          [] OTHER -> Decode(fs.disk[i.ind], "idb")[k - NDirect]

CellAt(ino, pos) ==
    LET b == Pointer(ino, pos \div Units)
    IN  IF b = 0 THEN NoEntry ELSE Decode(fs.disk[b], "data")[pos % Units]

Slots == {k \in 0 .. InodeOf(RootLocation).size - 1 : CellAt(RootLocation, k).ino # NoIno}
Named == {CellAt(RootLocation, k).ino : k \in Slots}
Inodes == {RootLocation} \cup Named \cup DOMAIN fs.vn

\* Each use of a block, as data, indirect block or inode.
Held(ino) ==
    [k \in 0 .. NDirect + DbPerIdb + 1 |->
        CASE k < NDirect + DbPerIdb -> Pointer(ino, k)
          [] k = NDirect + DbPerIdb -> InodeOf(ino).ind
          [] OTHER                  -> ino]
Uses == UNION {LET h == Held(ino) IN {<<ino, k, h[k]>> : k \in {j \in DOMAIN h : h[j] # 0}} : ino \in Inodes}

Used == {u[3] : u \in Uses} \cup {SuperLocation, MapLocation}
InUse == IF mounted THEN fs.map ELSE Decode(fs.disk[MapLocation], "map")

--------------------------------------------------------------------------------
(* Properties *)

\* No block is used twice, by two files or by one, and none that is used is
\* marked free (sfs_balloc, sfs_bfree), through any sequence of calls and read
\* errors; a volume that is not mounted is like that on its disk.
BlocksHaveOneUse ==
    fs.down = "" =>
      LET uses == Uses
      IN  /\ \A u, w \in uses : u[3] = w[3] => u = w
          /\ Used \subseteq InUse

\* As long as no read has failed, every block marked in use is used: what
\* creates, writes, truncates and removes leave behind is nothing.
NoBlockIsLost == fs.down = "" /\ fs.errs = 0 => InUse \subseteq Used

\* The free block map and the files agree on every block, both ways: none has two uses,
\* none in use is marked free, and none marked in use is lost.
BlocksAreAccounted == BlocksHaveOneUse /\ NoBlockIsLost

\* The link count of a file is the number of its names, after every call, failed
\* ones included, and no name occurs twice (sfs_dir_link, sfs_rename).
LinksAreNames ==
    fs.down = "" =>
      LET entries == [k \in Slots |-> CellAt(RootLocation, k)]
      IN  /\ \A ino \in Inodes \ {RootLocation} :
                InodeOf(ino).links = Cardinality({k \in DOMAIN entries : entries[k].ino = ino})
          /\ \A j, k \in DOMAIN entries : entries[j].name = entries[k].name => j = k

\* An open file keeps its vnode and its blocks, also when it has lost its last
\* name, and nothing else keeps a vnode in memory, so that a volume nobody uses can
\* be unmounted.  One kind of vnode is never given up: that of a file without
\* names whose indirect block could not be read when it was to be erased, since
\* vnode_decref forgets the error of sfs_reclaim.
VnodesAreHeld ==
    fs.down = "" =>
      /\ \A ino \in Blocks : handles[ino] > 0 =>
            ino \in DOMAIN fs.vn /\ fs.vn[ino].open = handles[ino]
      /\ \A ino \in DOMAIN fs.vn :
            LET held == handles[ino] + Cardinality({p \in {"cwd", "bootfs"} :
                            /\ ino = RootLocation
                            /\ IF p = "cwd" THEN cwd ELSE bootfs})
            IN  \/ fs.vn[ino].ref = held
                \/ /\ held = 0 /\ fs.vn[ino].ref = 1 /\ fs.errs > 0
                   /\ fs.vn[ino].i.links = 0 /\ fs.vn[ino].i.ind # 0

\* The assertions and consistency checks of sfs_vnode.c, bitmap.c and vnode.c hold;
\* the system stops only where an error of the disk leaves it no choice.
AssertionsHold == fs.down \in {"", "getroot", "rename"}

\* man/syscall/ftruncate.html: what a file was cut off is gone, so that it reads
\* as zeros when the file grows again.
NothingPastEof ==
    fs.down = "" /\ fs.errs = 0 =>
      \A ino \in Inodes \ {RootLocation} :
         \A pos \in InodeOf(ino).size .. (NDirect + DbPerIdb) * Units - 1 :
            CellAt(ino, pos) = NoEntry
================================================================================
