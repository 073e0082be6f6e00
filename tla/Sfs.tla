---------------------------------- MODULE Sfs ----------------------------------
(***************************************************************************)
(* The SFS file system (fs/sfs/) as functions on the state of one volume:  *)
(* what is on the disk, and the free block map and the vnodes in memory.   *)
(*                                                                         *)
(* A C function that does I/O can end in several ways, so it is a set of   *)
(* outcomes: the volume it leaves (s), the error it returns or "ok" (r),   *)
(* and what it hands back (v).  A read of the disk can fail for good, after*)
(* its retries; a failing write is reported as a success (sfs_rwblock      *)
(* retries it with a uio that is used up), so no write returns an error,   *)
(* and here every write reaches the disk.                                  *)
(*                                                                         *)
(* Positions in a file are counted in directory entries, Units of which    *)
(* make a block.                                                           *)
(***************************************************************************)
EXTENDS Naturals, FiniteSets, Sequences, FiniteSetsExt, SequencesExt

CONSTANTS NBlocks,      \* blocks of the volume, sp_nblocks
          NDirect,      \* SFS_NDIRECT
          DbPerIdb,     \* SFS_DBPERIDB
          Units,        \* directory entries per block
          Names,        \* file names
          MaxErrors,    \* bound on the reads that fail
          PowerFails    \* whether the power may fail after any write

ASSUME SfsAssumption ==
    /\ NBlocks \in Nat /\ NBlocks > 3
    /\ {NDirect, DbPerIdb, Units} \subseteq Nat \ {0}
    /\ MaxErrors \in Nat
    /\ PowerFails \in BOOLEAN

Blocks == 0 .. NBlocks - 1
SuperLocation == 0
RootLocation == 1
MapLocation == 2

NoIno == 0      \* SFS_NOINO, and no block in a block pointer
Inval == 0      \* SFS_TYPE_INVAL
File == 1       \* SFS_TYPE_FILE
Dir == 2        \* SFS_TYPE_DIR

DirectSlots == 0 .. NDirect - 1
IndirectSlots == 0 .. DbPerIdb - 1
Cells == 0 .. Units - 1
Entry == [ino : Blocks, name : Names \cup {""}]
NoEntry == [ino |-> NoIno, name |-> ""]

InodeType == [size : Nat, type : {Inval, File, Dir}, links : Nat,
              direct : [DirectSlots -> Blocks], ind : Blocks]

\* A block that holds zeros reads as an inode of no type, as an indirect
\* block without pointers or as data without entries.
ZeroBlock == [kind |-> "zero"]
ZeroAs(kind) ==
    CASE kind = "inode" -> [size |-> 0, type |-> Inval, links |-> 0,
                            direct |-> [k \in DirectSlots |-> 0], ind |-> 0]
      [] kind = "idb"   -> [k \in IndirectSlots |-> 0]
      [] kind = "data"  -> [k \in Cells |-> NoEntry]

\* An empty volume as mksfs leaves it: the root directory has no entries.
mksfs ==
    [b \in Blocks |->
        CASE b = RootLocation -> [kind |-> "inode", val |->
                                     [ZeroAs("inode") EXCEPT !.type = Dir, !.links = 1]]
          [] b = MapLocation  -> [kind |-> "map", val |-> {SuperLocation, RootLocation, MapLocation}]
          [] OTHER            -> ZeroBlock]

--------------------------------------------------------------------------------
(* Outcomes *)

Ok(s, v) == {[s |-> s, r |-> "ok", v |-> v]}
Fail(s, e) == {[s |-> s, r |-> e, v |-> 0]}

\* panic() or a failed KASSERT: nothing happens any more.
Panic(s, why) == Fail([s EXCEPT !.down = why], "panic")

\* if (result) return result; F(...)
Then(O, F(_, _)) == UNION {IF o.r = "ok" THEN F(o.s, o.v) ELSE {o} : o \in O}

\* D(...) whatever the result was, which is still what is returned.
Finally(O, D(_)) ==
    UNION {IF o.s.down # "" THEN {o}
           ELSE {IF d.s.down # "" THEN d ELSE [o EXCEPT !.s = d.s] : d \in D(o.s)} : o \in O}

--------------------------------------------------------------------------------
(* Blocks *)

sfs_rblock(s, b) ==
    Ok(s, s.disk[b])
    \cup IF s.errs < MaxErrors THEN Fail([s EXCEPT !.errs = @ + 1], "EIO") ELSE {}

\* The power fails after a write: what is on the disk stays.
Cut(s) == IF PowerFails THEN Panic(s, "power") ELSE {}

sfs_wblock(s, b, kind, val) ==
    LET t == [s EXCEPT !.disk[b] = [kind |-> kind, val |-> val]] IN Ok(t, 0) \cup Cut(t)

\* What the code does with a block of another kind is undefined.
ReadAs(s, b, kind) ==
    Then(sfs_rblock(s, b), LAMBDA t, x :
         CASE x.kind = kind   -> Ok(t, x.val)
           [] x.kind = "zero" -> Ok(t, ZeroAs(kind))
           [] OTHER           -> Panic(t, "undefined"))

\* The lowest bit that is clear is set.
bitmap_alloc(s) ==
    IF Blocks \subseteq s.map THEN Fail(s, "ENOSPC")
    ELSE LET b == Min(Blocks \ s.map) IN Ok([s EXCEPT !.map = @ \cup {b}], b)

\* Each of the bits must be set.
bitmap_unmark(s, B) ==
    [s EXCEPT !.map = @ \ B, !.down = IF B \subseteq s.map THEN @ ELSE "unmark"]

\* Takes a free block and clears it.
sfs_balloc(s) ==
    Then(bitmap_alloc(s), LAMBDA t, b :
         LET u == [t EXCEPT !.mapdirty = TRUE, !.disk[b] = ZeroBlock] IN Ok(u, b) \cup Cut(u))

\* Frees a set of blocks.
sfs_bfree(s, B) == IF B = {} THEN s ELSE [bitmap_unmark(s, B) EXCEPT !.mapdirty = TRUE]

--------------------------------------------------------------------------------
(* Inodes in memory *)

Inode(s, ino) == s.vn[ino].i
SetInode(s, ino, i) == [s EXCEPT !.vn[ino].i = i, !.vn[ino].dirty = TRUE]

sfs_sync_inode(s, ino) ==
    IF s.vn[ino].dirty
    THEN sfs_wblock([s EXCEPT !.vn[ino].dirty = FALSE], ino, "inode", Inode(s, ino))
    ELSE Ok(s, 0)

\* Hands back a mapped block, which must be marked in use.
Mapped(s, b) == IF b # 0 /\ b \notin s.map THEN Panic(s, "marked free") ELSE Ok(s, b)

\* The indirect block of an inode: its number and its pointers.
Indirect(s, ino) ==
    LET i == Inode(s, ino)
    IN  IF i.ind = 0
        THEN Then(sfs_balloc(s), LAMBDA t, b :
                  Ok(SetInode(t, ino, [i EXCEPT !.ind = b]), [b |-> b, ptr |-> ZeroAs("idb")]))
        ELSE Then(ReadAs(s, i.ind, "idb"), LAMBDA t, x : Ok(t, [b |-> i.ind, ptr |-> x]))

sfs_bmap(s, ino, fileblock, doalloc) ==
    LET i == Inode(s, ino)
        k == fileblock - NDirect
    IN  CASE fileblock < NDirect ->
               IF i.direct[fileblock] = 0 /\ doalloc
               THEN Then(sfs_balloc(s), LAMBDA t, b :
                         Ok(SetInode(t, ino, [i EXCEPT !.direct[fileblock] = b]), b))
               ELSE Mapped(s, i.direct[fileblock])
          [] fileblock >= NDirect + DbPerIdb -> Fail(s, "EFBIG")
          [] fileblock \in NDirect .. NDirect + DbPerIdb - 1 /\ i.ind = 0 /\ ~doalloc -> Ok(s, 0)
          [] OTHER ->
               Then(Indirect(s, ino), LAMBDA t, id :
                    IF id.ptr[k] = 0 /\ doalloc
                    THEN Then(sfs_balloc(t), LAMBDA u, b :
                              Then(sfs_wblock(u, id.b, "idb", [id.ptr EXCEPT ![k] = b]),
                                   LAMBDA w, x : Ok(w, b)))
                    ELSE Mapped(t, id.ptr[k]))

--------------------------------------------------------------------------------
(* File contents *)

\* One pass of sfs_partialio or sfs_blockio: the cells of data that fall in
\* one block, at position pos.  Only a partial write reads the block first.
WriteBlock(s, ino, pos, data) ==
    LET at == pos % Units
        new(old) == [c \in Cells |-> IF c \in at .. at + Len(data) - 1
                                     THEN data[c - at + 1] ELSE old[c]]
    IN  Then(sfs_bmap(s, ino, pos \div Units, TRUE), LAMBDA t, b :
             IF Len(data) = Units
             THEN sfs_wblock(t, b, "data", new(ZeroAs("data")))
             ELSE Then(ReadAs(t, b, "data"), LAMBDA u, old :
                       sfs_wblock(u, b, "data", new(old))))

\* sfs_io for a write: block after block until one fails; the size follows
\* what was done.
sfs_write(s, ino, off, data) ==
    LET end == off + Len(data)
        first == off \div Units
        starts == [j \in 1 .. (end - 1) \div Units - first + 1 |->
                      IF j = 1 THEN off ELSE (first + j - 1) * Units]
        piece(p) == LET n == Min({end - p, Units - (p % Units)})
                    IN  SubSeq(data, p - off + 1, p - off + n)
        step(O, p) == Then(O, LAMBDA t, x :
                           {[o EXCEPT !.v = IF o.r = "ok" THEN p + Len(piece(p)) ELSE p]
                                : o \in WriteBlock(t, ino, p, piece(p))})
        grow(t, pos) == IF pos > Inode(t, ino).size
                        THEN SetInode(t, ino, [Inode(t, ino) EXCEPT !.size = pos]) ELSE t
    IN  {[o EXCEPT !.s = grow(o.s, o.v)] : o \in FoldLeft(step, Ok(s, off), starts)}

\* sfs_io for a read: the blocks up to the end of the file; one that was never
\* written reads as zeros.
sfs_read(s, ino, off, len) ==
    LET end == Min({off + len, Inode(s, ino).size})
        block(O, k) == Then(O, LAMBDA t, x :
                            Then(sfs_bmap(t, ino, k, FALSE), LAMBDA u, b :
                                 IF b = 0 THEN Ok(u, 0) ELSE ReadAs(u, b, "data")))
    IN  IF off >= Inode(s, ino).size THEN Ok(s, 0)
        ELSE FoldLeft(block, Ok(s, 0),
                      [j \in 1 .. (end - 1) \div Units - off \div Units + 1 |-> off \div Units + j - 1])

\* The blocks that stay when a file is cut to len.
BlockLen(len) == (len + Units - 1) \div Units

\* Faulty variant: the blocks are left to the next truncate.
DiscardNone(keep, ptr) == {}

\* Pointers of the indirect block that sfs_truncate discards.
Discarded(keep, ptr) == {k \in IndirectSlots : keep < NDirect + k /\ ptr[k] # 0}

TruncateIndirect(s, ino, keep) ==
    LET ind == Inode(s, ino).ind
    IN  Then(ReadAs(s, ind, "idb"), LAMBDA t, ptr :
             LET past == Discarded(keep, ptr)
                 left == [k \in IndirectSlots |-> IF k \in past THEN 0 ELSE ptr[k]]
                 freed == sfs_bfree(t, {ptr[k] : k \in past})
             IN  CASE left = ZeroAs("idb") ->
                        Ok(sfs_bfree(SetInode(freed, ino, [Inode(t, ino) EXCEPT !.ind = 0]), {ind}), 0)
                   [] left # ZeroAs("idb") /\ past # {} -> sfs_wblock(freed, ind, "idb", left)
                   [] OTHER -> Ok(freed, 0))

\* Faulty variant: the pointers to the freed direct blocks stay in the inode.
TruncateKeepsPointers(s, ino, len) ==
    LET i == Inode(s, ino)
        keep == BlockLen(len)
        past == {i.direct[k] : k \in {j \in DirectSlots : j >= keep}} \ {0}
    IN  Ok(SetInode(sfs_bfree(s, past), ino, [i EXCEPT !.size = len]), 0)

sfs_truncate(s, ino, len) ==
    LET i == Inode(s, ino)
        keep == BlockLen(len)
        past == {k \in DirectSlots : k >= keep /\ i.direct[k] # 0}
        cut == [i EXCEPT !.direct = [k \in DirectSlots |-> IF k \in past THEN 0 ELSE @[k]]]
        direct == IF past = {} THEN s
                  ELSE SetInode(sfs_bfree(s, {i.direct[k] : k \in past}), ino, cut)
    IN  Then(IF keep < NDirect + DbPerIdb - 1 /\ i.ind # 0
             THEN TruncateIndirect(direct, ino, keep) ELSE Ok(direct, 0),
             LAMBDA t, x : Ok(SetInode(t, ino, [Inode(t, ino) EXCEPT !.size = len]), 0))

--------------------------------------------------------------------------------
(* Vnodes *)

vnode_incref(s, ino) == [s EXCEPT !.vn[ino].ref = @ + 1]

\* vnode_check, before each operation: the caller's vnode is still there.
vnode_check(s, ino) == IF ino \in DOMAIN s.vn THEN Ok(s, ino) ELSE Panic(s, "vnode_check")

\* Brings the inode in block ino into memory, or finds it there.
sfs_loadvnode(s, ino, forcetype) ==
    CASE ~ (DOMAIN s.vn \cup {ino} \subseteq s.map) -> Panic(s, "unallocated")
      [] ino \in DOMAIN s.vn /\ ino \in s.map ->
            IF forcetype # Inval THEN Panic(s, "loaded twice")
            ELSE Ok(vnode_incref(s, ino), ino)
      [] OTHER ->
            Then(ReadAs(s, ino, "inode"), LAMBDA t, i :
                 IF (forcetype = Inval) # (i.type # Inval) THEN Panic(t, "inode type")
                 ELSE Ok([t EXCEPT !.vn = [j \in DOMAIN @ \cup {ino} |->
                              IF j # ino THEN @[j]
                              ELSE [i     |-> IF forcetype = Inval THEN i
                                              ELSE [i EXCEPT !.type = forcetype],
                                    dirty |-> forcetype # Inval, ref |-> 1, open |-> 0]]], ino))

\* No name leads to the file.
NoLinks(s, ino) == Inode(s, ino).links = 0

\* The vnode is dropped, with its last reference and closed.
vnode_cleanup(s, ino) ==
    IF s.vn[ino].ref # 1 \/ s.vn[ino].open # 0 THEN Panic(s, "cleanup")
    ELSE Ok([s EXCEPT !.vn = [j \in DOMAIN @ \ {ino} |-> @[j]]], 0)

\* The last reference is gone: a file without names is erased, the vnode is
\* written back and dropped.  When something fails the vnode stays as it is.
sfs_reclaim(s, ino) ==
    Then(IF NoLinks(s, ino) THEN sfs_truncate(s, ino, 0) ELSE Ok(s, 0), LAMBDA t, x :
         Then(sfs_sync_inode(t, ino), LAMBDA u, y :
              vnode_cleanup(IF NoLinks(u, ino) THEN sfs_bfree(u, {ino}) ELSE u, ino)))

\* Errors of VOP_RECLAIM are printed and forgotten.
vnode_decref(s, ino) ==
    IF s.vn[ino].ref > 1 THEN Ok([s EXCEPT !.vn[ino].ref = @ - 1], 0)
    ELSE sfs_reclaim(s, ino)

vnode_incopen(s, ino) == [s EXCEPT !.vn[ino].open = @ + 1]

\* sfs_close, at the last close, writes the inode back.
sfs_close(s, ino) == sfs_sync_inode(s, ino)
vnode_decopen(s, ino) ==
    LET t == [s EXCEPT !.vn[ino].open = @ - 1]
    IN  IF t.vn[ino].open > 0 THEN Ok(t, 0) ELSE sfs_close(t, ino)

\* Cannot fail: the system stops instead.
sfs_getroot(s) ==
    UNION {IF o.r \in {"ok", "panic"} THEN {o} ELSE Panic(o.s, "getroot")
               : o \in sfs_loadvnode(s, RootLocation, Inval)}

--------------------------------------------------------------------------------
(* The directory *)

sfs_readdir(s, slot) ==
    Then(sfs_bmap(s, RootLocation, slot \div Units, FALSE), LAMBDA t, b :
         IF b = 0 THEN Ok(t, NoEntry)
         ELSE Then(ReadAs(t, b, "data"), LAMBDA u, d : Ok(u, d[slot % Units])))

\* All the slots, read one after the other.
Listing(s) ==
    FoldLeft(LAMBDA O, slot : Then(O, LAMBDA t, l :
                              Then(sfs_readdir(t, slot), LAMBDA u, e : Ok(u, Append(l, e)))),
             Ok(s, <<>>),
             [j \in 1 .. Inode(s, RootLocation).size |-> j - 1])

\* The slot of the name, and the last empty slot or else the one after the
\* end; there may be one slot with a name.
sfs_dir_findname(s, name) ==
    Then(Listing(s), LAMBDA t, l :
         LET with(n) == {k \in 1 .. Len(l) : l[k].ino # NoIno /\ l[k].name = n}
             empty == {k \in 1 .. Len(l) : l[k].ino = NoIno}
         IN  CASE Cardinality(with(name)) > 1 -> Panic(t, "name twice")
               [] with(name) = {} ->
                     Ok(t, [found |-> FALSE, slot |-> (IF empty = {} THEN Len(l) + 1 ELSE Max(empty)) - 1])
               [] OTHER -> LET k == CHOOSE j \in with(name) : TRUE
                           IN  Ok(t, [found |-> TRUE, slot |-> k - 1, ino |-> l[k].ino]))

sfs_writedir(s, slot, e) == sfs_write(s, RootLocation, slot, <<e>>)

sfs_dir_link(s, name, ino) ==
    Then(sfs_dir_findname(s, name), LAMBDA t, f :
         IF f.found THEN Fail(t, "EEXIST")
         ELSE Then(sfs_writedir(t, f.slot, [ino |-> ino, name |-> name]),
                   LAMBDA u, x : Ok(u, f.slot)))

sfs_dir_unlink(s, slot) == sfs_writedir(s, slot, NoEntry)

\* The file with a name, referenced, and its slot.
sfs_lookonce(s, name) ==
    Then(sfs_dir_findname(s, name), LAMBDA t, f :
         IF ~ f.found THEN Fail(t, "ENOENT")
         ELSE Then(sfs_loadvnode(t, f.ino, Inval), LAMBDA u, ino :
                   IF NoLinks(u, ino) THEN Panic(u, "link count")
                   ELSE Ok(u, [ino |-> ino, slot |-> f.slot])))

\* The directory and what is in it; there are no subdirectories.
IsDir(s, ino) == Inode(s, ino).type = Dir

sfs_lookup(s, dir, name) ==
    IF ~ IsDir(s, dir) THEN Fail(s, "ENOTDIR")
    ELSE Then(sfs_lookonce(s, name), LAMBDA t, f : Ok(t, f.ino))

\* The parent of every name is the directory, with another reference.
sfs_lookparent(s, dir) ==
    IF ~ IsDir(s, dir) THEN Fail(s, "ENOTDIR") ELSE Ok(vnode_incref(s, dir), dir)

sfs_namefile(s, ino) == IF ino # RootLocation THEN Panic(s, "namefile") ELSE Ok(s, 0)

--------------------------------------------------------------------------------
(* The tables of operations *)

\* sfs_open and sfs_opendir: the directory is open for reading only.
sfs_open(s, ino, flags) ==
    CASE "O_APPEND" \in flags                    -> Fail(s, "EUNIMP")
      [] IsDir(s, ino) /\ "O_WRONLY" \in flags   -> Fail(s, "EISDIR")
      [] OTHER                                   -> Ok(s, ino)

sfs_gettype(s, ino) ==
    IF Inode(s, ino).type \in {File, Dir} THEN Ok(s, Inode(s, ino).type) ELSE Panic(s, "gettype")

\* An operation that sfs_fileops has and sfs_dirops refuses, and one that both refuse.
FileOp(s, ino) ==
    Then(vnode_check(s, ino), LAMBDA t, x : IF IsDir(t, ino) THEN Fail(t, "EISDIR") ELSE Ok(t, ino))
sfs_unimp(s) == Fail(s, "EUNIMP")

--------------------------------------------------------------------------------
(* Operations on the directory *)

AddLinks(s, ino, n) == SetInode(s, ino, [Inode(s, ino) EXCEPT !.links = @ + n])
DropLink(s, ino) == SetInode(s, ino, [Inode(s, ino) EXCEPT !.links = @ - 1])

\* An inode is a block; it is not given back when its vnode cannot be loaded.
sfs_makeobj(s) == Then(sfs_balloc(s), LAMBDA t, ino : sfs_loadvnode(t, ino, File))

\* Faulty variant: a file that gets no name keeps its reference.
CreatKeepsVnode(s, name, excl) ==
    Then(sfs_dir_findname(s, name), LAMBDA t, f :
         IF f.found THEN (IF excl THEN Fail(t, "EEXIST") ELSE sfs_loadvnode(t, f.ino, Inval))
         ELSE Then(sfs_makeobj(t), LAMBDA u, ino :
                   Then(sfs_dir_link(u, name, ino), LAMBDA w, x : Ok(AddLinks(w, ino, 1), ino))))

\* The file under a name, made if there is none.  A new file that gets no name
\* is dropped, and with it its inode.
sfs_creat(s, name, excl) ==
    Then(sfs_dir_findname(s, name), LAMBDA t, f :
         CASE f.found /\ excl  -> Fail(t, "EEXIST")
           [] f.found /\ ~excl -> sfs_loadvnode(t, f.ino, Inval)
           [] OTHER ->
                Then(sfs_makeobj(t), LAMBDA u, ino :
                     UNION {IF o.r = "ok" THEN Ok(AddLinks(o.s, ino, 1), ino)
                            ELSE Finally({o}, LAMBDA w : vnode_decref(w, ino))
                                : o \in sfs_dir_link(u, name, ino)}))

sfs_link(s, name, ino) ==
    Then(sfs_dir_link(s, name, ino), LAMBDA t, x : Ok(AddLinks(t, ino, 1), 0))

\* Faulty variant: the link count drops even when the entry could not be erased.
RemoveDropsAnyway(s, name) ==
    Then(sfs_lookonce(s, name), LAMBDA t, f :
         Finally(sfs_dir_unlink(DropLink(t, f.ino), f.slot), LAMBDA u : vnode_decref(u, f.ino)))

sfs_remove(s, name) ==
    Then(sfs_lookonce(s, name), LAMBDA t, f :
         Finally(Then(sfs_dir_unlink(t, f.slot), LAMBDA u, x : Ok(DropLink(u, f.ino), 0)),
                 LAMBDA u : vnode_decref(u, f.ino)))

\* Faulty variant: the link count is not put back.
UnrenameKeepsLink(s, ino, slot, e) ==
    UNION {IF o.r = "ok" THEN Fail(o.s, e) ELSE Panic(o.s, "rename")
               : o \in sfs_dir_unlink(s, slot)}

\* The new name is added, then the old one removed; when that fails the new one
\* is removed again, and a failure of that is fatal.
Unrename(s, ino, slot, e) ==
    UNION {IF o.r = "ok" THEN Fail(DropLink(o.s, ino), e) ELSE Panic(o.s, "rename")
               : o \in sfs_dir_unlink(s, slot)}

sfs_rename(s, n1, n2) ==
    Then(sfs_lookonce(s, n1), LAMBDA t, f :
         Finally(Then(sfs_dir_link(t, n2, f.ino), LAMBDA u, slot2 :
                      UNION {IF o.r = "ok" THEN Ok(DropLink(o.s, f.ino), 0)
                             ELSE Unrename(o.s, f.ino, slot2, o.r)
                                 : o \in sfs_dir_unlink(AddLinks(u, f.ino, 1), f.slot)}),
                 LAMBDA u : vnode_decref(u, f.ino)))

--------------------------------------------------------------------------------
(* The volume *)

\* Every vnode, then the map; the power may fail with some of the vnodes written.
SyncSome(s, B) ==
    [s EXCEPT !.disk = [b \in Blocks |-> IF b \in B THEN [kind |-> "inode", val |-> Inode(s, b)] ELSE @[b]]]
SyncCut(s) == UNION {Cut(SyncSome(s, B)) : B \in SUBSET {b \in DOMAIN s.vn : s.vn[b].dirty}}
sfs_sync(s) ==
    [s EXCEPT !.disk = [b \in Blocks |->
                          CASE b \in DOMAIN s.vn /\ s.vn[b].dirty -> [kind |-> "inode", val |-> Inode(s, b)]
                            [] b = MapLocation /\ s.mapdirty -> [kind |-> "map", val |-> s.map]
                            [] OTHER -> @[b]],
              !.vn = [j \in DOMAIN @ |-> [@[j] EXCEPT !.dirty = FALSE]],
              !.mapdirty = FALSE]

sfs_unmount(s) == IF DOMAIN s.vn # {} THEN Fail(s, "EBUSY")
                  ELSE IF s.mapdirty THEN Panic(s, "unmount") ELSE Ok([s EXCEPT !.map = {}], 0)

\* The superblock and the map are read; nothing else is in memory.
sfs_domount(s) ==
    Then(sfs_rblock(s, SuperLocation), LAMBDA t, x :
         Then(ReadAs(t, MapLocation, "map"), LAMBDA u, m :
              Ok([u EXCEPT !.map = m, !.mapdirty = FALSE, !.vn = [j \in {} |-> 0]], 0)))
================================================================================
