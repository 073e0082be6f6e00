--------------------------------- MODULE MCVfs ---------------------------------
EXTENDS Vfs, TLC

\* The names are interchangeable.
Symmetry == Permutations(Names)

\* One write: a part of the direct block, two whole blocks, and one block too many.
ExtentsValue == {<<1, 6>>}

\* Bound: a read fails only as long as there is no boot file system; the call that
\* sets it may fail.
vfsNext == Next /\ (bootfs' => fs'.errs = 0)
vfsSpec == Init /\ [][vfsNext]_vars

\* States that differ in what the disk holds where nobody will read it are
\* explored once: a free block is cleared before it is used, and an inode or the
\* map that is dirty in memory is written before it is read.
Unread(b) ==
    /\ mounted
    /\ \/ b \notin fs.map
       \/ b \in DOMAIN fs.vn /\ fs.vn[b].dirty
       \/ b = MapLocation /\ fs.mapdirty
View == <<[fs EXCEPT !.disk = [b \in Blocks |-> IF Unread(b) THEN ZeroBlock ELSE @[b]]],
          mounted, cwd, bootfs, handles>>
================================================================================
