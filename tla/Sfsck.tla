--------------------------------- MODULE Sfsck ---------------------------------
(***************************************************************************)
(* The file system checker (user/sbin/sfsck/sfsck.c) and what it is for:   *)
(* the power fails, at any write of any call, the volume is checked and    *)
(* repaired, and is mounted again.                                         *)
(*                                                                         *)
(* The checker is a function from the disk it finds to the disk it leaves  *)
(* and the worst it has to report.  It reads a block that is not of the    *)
(* kind it expects as whatever is there; that is left undefined.           *)
(***************************************************************************)
EXTENDS Vfs

CONSTANTS MaxCrashes,   \* bound on the power failures
          MaxCalls      \* bound on the calls

VARIABLES
    crashes,    \* power failures so far
    calls,      \* calls so far
    verdict,    \* of the last check: "none" before the first, "crashed" when one is
                \* needed, "clean", "recov" (repaired), "unrecov" (not repaired), "undefined"
    kept        \* history: blocks past the end of a file that a check has freed in
                \* the map and left in the inode

ckVars == <<crashes, calls, verdict, kept>>

--------------------------------------------------------------------------------
(* The checker's memory: disk, found and tofree (bitmapdata, tofreedata), bad; and kept *)

Rank(how) == CHOOSE n \in 1 .. 4 : <<"clean", "recov", "unrecov", "undefined">>[n] = how
setbadness(k, how) == IF Rank(k.bad) < Rank(how) THEN [k EXCEPT !.bad = how] ELSE k

\* bitmap_mark, for a block in use and for a block to free.
MarkUsed(k, b) ==
    LET t == [k EXCEPT !.found = @ \cup {b}, !.tofree = @ \ {b}]
    IN  IF b \in k.found THEN setbadness(t, "unrecov") ELSE t
MarkToFree(k, b) == IF b \in k.found THEN k ELSE [k EXCEPT !.tofree = @ \cup {b}]

\* diskread of a block that should hold an inode, pointers, entries or the map.
diskread(k, b, kind) == IF k.disk[b].kind = kind THEN k.disk[b].val ELSE ZeroAs(kind)
Expect(k, b, kind) == IF k.disk[b].kind \in {kind, "zero"} THEN k ELSE setbadness(k, "undefined")
diskwrite(k, b, kind, val) == [k EXCEPT !.disk[b] = [kind |-> kind, val |-> val]]

\* The pointers that are set, marked in use.
MarkSeq(k, bs) == FoldLeft(MarkUsed, k, SelectSeq(bs, LAMBDA b : b # 0))

--------------------------------------------------------------------------------
(* The blocks of an inode *)

\* Faulty variant: the last block of the file counts as past its end.
PastEarly(n, ptr) == {j \in IndirectSlots : NDirect + j >= n - 1 /\ ptr[j] # 0}

PastEnd(n, ptr) == {j \in IndirectSlots : NDirect + j >= n /\ ptr[j] # 0}

\* All pointers that are set have been marked in use, those past the end are erased.
\* An indirect block left empty is to be freed, but was marked first and so counts
\* as in use.
EraseIndirect(k, i, ptr, past, bad) ==
    LET left == [j \in IndirectSlots |-> IF j \in past THEN 0 ELSE ptr[j]]
    IN  CASE left = ZeroAs("idb") /\ i.ind # 0 ->
               [k |-> MarkToFree(k, i.ind), i |-> [i EXCEPT !.ind = 0], changed |-> TRUE]
          [] left # ZeroAs("idb") /\ (bad \/ past # {}) ->
               [k |-> diskwrite(k, i.ind, "idb", left), i |-> i, changed |-> TRUE]
          [] OTHER -> [k |-> k, i |-> i, changed |-> bad]

check_indirect_block(k, i, n, bad) ==
    IF i.ind = 0 THEN EraseIndirect(k, i, ZeroAs("idb"), {}, bad)
    ELSE LET ptr == diskread(k, i.ind, "idb")
         IN  EraseIndirect(MarkSeq(Expect(k, i.ind, "idb"), <<i.ind>> \o [j \in 1 .. DbPerIdb |-> ptr[j - 1]]),
                           i, ptr, PastEnd(n, ptr), bad)

\* Direct blocks past the end are freed in the map, their pointers stay.
check_inode_blocks(k, i) ==
    LET n == BlockLen(i.size)
        past == {j \in DirectSlots : j >= n /\ i.direct[j] # 0}
        direct == MarkSeq(k, [j \in 1 .. NDirect |-> IF j - 1 \in past THEN 0 ELSE i.direct[j - 1]])
        freed == [FoldFunctionOnSet(LAMBDA b, t : MarkToFree(t, b), direct, i.direct, past)
                     EXCEPT !.kept = @ \cup {i.direct[j] : j \in past}]
        report(r) == IF r.changed THEN [r EXCEPT !.k = setbadness(@, "recov")] ELSE r
    IN  report(check_indirect_block(freed, i, n, past # {}))

--------------------------------------------------------------------------------
(* The root directory, the only one: r.d is its contents, r.i its inode *)

dobmap(k, i, fileblock) ==
    CASE fileblock < NDirect -> i.direct[fileblock]
      [] fileblock >= NDirect /\ i.ind = 0 -> 0
      [] OTHER -> diskread(k, i.ind, "idb")[fileblock - NDirect]

dirread(k, i) ==
    [p \in 1 .. i.size |->
        LET b == dobmap(k, i, (p - 1) \div Units)
        IN  IF b = 0 THEN NoEntry ELSE diskread(k, b, "data")[(p - 1) % Units]]

\* A block that is missing is not added: its entries are lost.
dirwrite(k, i, d) ==
    LET cells(fb) == [c \in Cells |-> IF fb * Units + c < Len(d) THEN d[fb * Units + c + 1] ELSE NoEntry]
        write(t, fb) == LET b == dobmap(t, i, fb)
                        IN  CASE b # 0 -> diskwrite(t, b, "data", cells(fb))
                              [] b = 0 /\ cells(fb) # ZeroAs("data") -> setbadness(t, "unrecov")
                              [] OTHER -> t
    IN  FoldLeft(write, k, [j \in 1 .. BlockLen(Len(d)) |-> j - 1])

\* check_dir_entry, and of two entries with one name the first goes if they lead to
\* the same file and gets a new name (one of many) if not.
EntryFixed(d, p) ==
    LET later == {q \in p + 1 .. Len(d) : d[q].ino # NoIno /\ d[q].name = d[p].name}
    IN  CASE d[p].ino = NoIno -> NoEntry
          [] d[p].ino # NoIno /\ d[p].name = "" -> [d[p] EXCEPT !.name = "FSCK"]
          [] d[p].ino # NoIno /\ d[p].name # "" /\ \E q \in later : d[q].ino = d[p].ino -> NoEntry
          [] d[p].ino # NoIno /\ d[p].name # "" /\ later # {} /\ \A q \in later : d[q].ino # d[p].ino ->
                [d[p] EXCEPT !.name = "FSCK"]
          [] OTHER -> d[p]
Fixed(r) ==
    LET d == [p \in DOMAIN r.d |-> EntryFixed(r.d, p)]
    IN  [r EXCEPT !.d = d, !.k = IF d = r.d THEN @ ELSE setbadness(@, "recov")]

\* dir_tryadd: the first free slot, or a new one if the last block has room.
tryadd(d, e) ==
    LET free == {p \in DOMAIN d : d[p].ino = NoIno}
    IN  CASE free # {} -> [d |-> [d EXCEPT ![Min(free)] = e], ok |-> TRUE]
          [] free = {} /\ Len(d) % Units # 0 -> [d |-> Append(d, e), ok |-> TRUE]
          [] OTHER -> [d |-> d, ok |-> FALSE]

\* `.' and `..' must be there and lead to the root.
DotEntry(r, name) ==
    LET at == {p \in DOMAIN r.d : r.d[p].name = name}
        e == [ino |-> RootLocation, name |-> name]
        new == tryadd(r.d, e)
    IN  CASE at = {} -> [r EXCEPT !.d = new.d, !.k = setbadness(@, IF new.ok THEN "recov" ELSE "unrecov")]
          [] \E p \in at : r.d[p].ino # RootLocation ->
                [r EXCEPT !.d = [p \in DOMAIN @ |-> IF p \in at THEN e ELSE @[p]], !.k = setbadness(@, "recov")]
          [] OTHER -> r

\* One entry: a file's blocks are checked and its inode marked (observe_filelink), at
\* every name anew since addmemory never counts what it remembers; an object of no
\* type loses its name.
check_entry(r, p) ==
    LET ino == r.d[p].ino
        i == diskread(r.k, ino, "inode")
        written(c) == MarkUsed(IF c.changed THEN diskwrite(c.k, ino, "inode", c.i) ELSE c.k, ino)
    IN  CASE ino = NoIno \/ r.d[p].name \in {".", ".."} -> r
          [] ino # NoIno /\ r.d[p].name \notin {".", ".."} /\ i.type = File ->
                [r EXCEPT !.k = written(check_inode_blocks(Expect(r.k, ino, "inode"), i))]
          [] ino # NoIno /\ r.d[p].name \notin {".", ".."} /\ i.type = Inval ->
                [r EXCEPT !.d[p] = NoEntry, !.k = setbadness(Expect(r.k, ino, "inode"), "recov")]
          [] OTHER -> [r EXCEPT !.k = setbadness(@, "undefined")]
check_entries(r) == FoldLeft(check_entry, r, [p \in DOMAIN r.d |-> p])

\* The directory has two links, and one for each subdirectory; what changed is
\* written: first the entries, then the inode.
WriteBack(r, old, i) ==
    LET linked == IF i.links = 2 THEN r.k ELSE setbadness(r.k, "recov")
        root == [r.i EXCEPT !.size = Len(r.d), !.links = 2]
        inode(k) == IF root = i THEN k ELSE diskwrite(k, RootLocation, "inode", root)
    IN  inode(IF r.d = old THEN linked ELSE dirwrite(linked, r.i, r.d))

check_dir(k) ==
    LET i == diskread(k, RootLocation, "inode")
        read(c) == [k |-> c.k, i |-> c.i, d |-> dirread(c.k, c.i)]
        rest(r) == WriteBack(check_entries(DotEntry(DotEntry(Fixed(r), "."), "..")), r.d, i)
    IN  rest(read(check_inode_blocks(MarkUsed(k, RootLocation), i)))

\* The root is a directory, whatever its inode says.
check_root_dir(k) ==
    LET i == diskread(k, RootLocation, "inode")
    IN  check_dir(IF i.type = Dir THEN k
                  ELSE diskwrite(setbadness(k, "recov"), RootLocation, "inode", [i EXCEPT !.type = Dir]))

\* Faulty variant: blocks that nobody uses are freed, missing ones are not marked.
OnlyFrees(k) == diskwrite(k, MapLocation, "map", k.disk[MapLocation].val \cap k.found)

\* The map becomes what was found; blocks that were to be freed are no error.
check_bitmap(k) ==
    IF k.disk[MapLocation].val \ k.tofree = k.found THEN diskwrite(k, MapLocation, "map", k.found)
    ELSE diskwrite(setbadness(k, "recov"), MapLocation, "map", k.found)

\* adjust_filelinks has nothing to do: ninodes is always 0.
adjust_filelinks(k) == k

\* check_sb: magic number and volume name are always those of mksfs, which the kernel
\* reads and writes back as they are, so what is left is to mark the blocks.
check_sb(disk) ==
    FoldLeft(MarkUsed, [disk |-> disk, found |-> {}, tofree |-> {}, kept |-> {}, bad |-> "clean"],
             <<SuperLocation, MapLocation>>)

sfsck(disk) == adjust_filelinks(check_bitmap(check_root_dir(check_sb(disk))))

--------------------------------------------------------------------------------
(* Steps *)

ckInit == Init /\ crashes = 0 /\ calls = 0 /\ verdict = "none" /\ kept = {}

NoMemory(disk) == [disk |-> disk, map |-> {}, mapdirty |-> FALSE, vn |-> [j \in {} |-> 0], down |-> "", errs |-> fs.errs]

\* The power fails, or has failed in the middle of a call.
Crash ==
    /\ mounted
    /\ fs.down \in {"", "power"}
    /\ crashes < MaxCrashes
    /\ crashes' = crashes + 1
    /\ fs' = NoMemory(fs.disk)
    /\ mounted' = FALSE
    /\ cwd' = FALSE /\ bootfs' = FALSE
    /\ handles' = [b \in Blocks |-> 0]
    /\ verdict' = "crashed"
    /\ UNCHANGED <<calls, kept>>

Check ==
    /\ ~mounted
    /\ verdict # "undefined"
    /\ LET k == sfsck(fs.disk)
       IN  /\ fs' = NoMemory(k.disk)
           /\ verdict' = k.bad
           /\ kept' = kept \cup k.kept
    /\ UNCHANGED <<mounted, cwd, bootfs, handles, crashes, calls>>

\* A volume that was not repaired is not used.
ckNext ==
    \/ Crash \/ Check
    \/ /\ verdict \in {"none", "clean", "recov"}
       /\ calls < MaxCalls
       /\ calls' = calls + 1
       /\ Next
       /\ UNCHANGED <<crashes, verdict, kept>>

ckSpec == ckInit /\ [][ckNext]_<<vars, ckVars>>

--------------------------------------------------------------------------------
(* Properties *)

\* A volume that sfsck has repaired is as good as one that was unmounted: no block
\* is used twice or marked free while in use, then and after any further calls, and
\* the kernel runs into none of its own assertions on it that it does not meet anyway.
\* One damage is excepted, that check_inode_blocks reports as repaired and does not
\* repair: a direct block past the end of its file, which a write leaves whose read
\* failed, is freed in the map and stays in the inode.
RepairedIsSound ==
    verdict \in {"clean", "recov"} /\ kept = {} =>
        /\ BlocksHaveOneUse
        /\ fs.down \in {"", "getroot", "rename", "power"}

\* The names on the disk that lead to a file, and what is in it.
FilesOn(disk) ==
    LET k == [disk |-> disk]
        files(d) == {p \in DOMAIN d : d[p].ino # NoIno /\ diskread(k, d[p].ino, "inode").type = File}
        list(d) == {[name |-> d[p].name, data |-> dirread(k, diskread(k, d[p].ino, "inode"))] : p \in files(d)}
    IN  list(dirread(k, diskread(k, RootLocation, "inode")))

\* sfsck takes no file away, and nothing of its contents.
FilesSurvive ==
    [][Check /\ verdict' \in {"clean", "recov"} => FilesOn(fs.disk) \subseteq FilesOn(fs'.disk)]_<<vars, ckVars>>
================================================================================
