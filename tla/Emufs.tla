------------------------------- MODULE Emufs -------------------------------
(***************************************************************************)
(* The emulator file system (kern/dev/lamebus/emu.c): files of the host    *)
(* behind handles that the emulator gives out and that vnodes stand for.   *)
(* A file has a handle from the lookup on, not from open; the handle is    *)
(* given back when the vnode is reclaimed.  The emulator's answer to a     *)
(* handle it does not know stops the kernel (translate_err).               *)
(*                                                                         *)
(* A call is one step: e_lock and vfs_biglock are to exclude each other's  *)
(* callers.  They are empty stubs in this source, so what is shown here    *)
(* holds for callers that do not overlap.  What files contain is left out. *)
(***************************************************************************)
EXTENDS Naturals, FiniteSetsExt

CONSTANTS EmuName,      \* names of files in the host's directory
          EmuHandle,    \* the handles the emulator has
          RootHandle,   \* EMU_ROOTHANDLE
          MaxHeld       \* bound on the references of the callers

ASSUME EmuAssumption == RootHandle \in EmuHandle

VARIABLES
  hostFiles,    \* external: the files that exist
  hostOpen,     \* external: handles that are open, and the file of each
  ef_vnodes,    \* vnodes in memory: handle to isdir and refcount
  held,         \* references the callers have: handle to number
  depth,        \* vfs_biglock_depth
  oom,          \* history: loads that ran out of memory
  lost,         \* history: handles that could not be closed
  fatal         \* the emulator has said EMU_RES_BADHANDLE

emuVars == <<hostFiles, hostOpen, ef_vnodes, held, depth, oom, lost, fatal>>

NoName == "directory"

\* config_emu and emufs_addtovfs: the root is loaded and stays.
emuInit ==
  /\ hostFiles \in SUBSET EmuName
  /\ hostOpen = [h \in {RootHandle} |-> NoName]
  /\ ef_vnodes = [h \in {RootHandle} |-> [isdir |-> TRUE, ref |-> 1]]
  /\ held = [h \in EmuHandle |-> 0]
  /\ depth = 0
  /\ oom = 0
  /\ lost = {}
  /\ fatal = FALSE

Without(f, h) == [k \in DOMAIN f \ {h} |-> f[k]]
With(f, h, v) == [k \in DOMAIN f \cup {h} |-> IF k = h THEN v ELSE f[k]]
HeldNow == MapThenSumSet(LAMBDA h : held[h], EmuHandle)

\* EMU_OP_OPEN, EMU_OP_CREATE and EMU_OP_EXCLCREATE, when they succeed: a handle that
\* is free, or the one the file has already.
HostGives(name, create, excl, h) ==
  /\ name \in hostFiles \/ create
  /\ ~ (excl /\ name \in hostFiles)
  /\ h \in DOMAIN hostOpen => hostOpen[h] = name

\* emu_open, when it succeeds.
emu_open(name, create, excl, h) ==
  /\ HostGives(name, create, excl, h)
  /\ hostFiles' = hostFiles \cup {name}

\* translate_err panics on EMU_RES_BADHANDLE.
translate_err(h) == h \notin DOMAIN hostOpen

\* emu_close: an I/O error is tried again 10 times, then the handle stays open.
emu_close(h) ==
  /\ fatal' = (fatal \/ translate_err(h))
  /\ \/ hostOpen' = Without(hostOpen, h) /\ lost' = lost \ {h}
     \/ lost' = lost \cup {h} /\ UNCHANGED hostOpen

\* emufs_loadvnode: the vnode of the handle, or a new one.
LoadVnode(h) ==
  /\ ef_vnodes' = IF h \in DOMAIN ef_vnodes THEN [ef_vnodes EXCEPT ![h].ref = @ + 1]
                  ELSE With(ef_vnodes, h, [isdir |-> FALSE, ref |-> 1])
  /\ held' = [held EXCEPT ![h] = @ + 1]
  /\ UNCHANGED <<depth, oom>>

\* Without memory nothing is loaded: kmalloc has none for the vnode, and vfs_biglock is
\* not released (bound: once), or vnodearray_add has none for the table, and it is.
LoadFails(h) ==
  /\ h \notin DOMAIN ef_vnodes
  /\ \/ oom = 0 /\ oom' = oom + 1 /\ depth' = depth + 1
     \/ UNCHANGED <<depth, oom>>
  /\ UNCHANGED <<ef_vnodes, held>>

\* Faulty variant: the handle of a vnode that could not be loaded is forgotten.
LookupForgets(name, create, excl) ==
  /\ HeldNow < MaxHeld
  /\ \E h \in EmuHandle :
       /\ emu_open(name, create, excl, h)
       /\ hostOpen' = With(hostOpen, h, name)
       /\ LoadVnode(h) \/ LoadFails(h)
       /\ UNCHANGED <<lost, fatal>>

\* emufs_lookup and emufs_creat on the root directory, over emu_open.  A failing
\* emu_open changes nothing.
emufs_lookup(name, create, excl) ==
  /\ HeldNow < MaxHeld
  /\ \E h \in EmuHandle :
       /\ emu_open(name, create, excl, h)
       /\ \/ /\ LoadVnode(h)
             /\ hostOpen' = With(hostOpen, h, name)
             /\ UNCHANGED <<lost, fatal>>
          \/ /\ LoadFails(h)
             /\ fatal' = fatal
             /\ \/ hostOpen' = Without(hostOpen, h) /\ lost' = lost \ {h}
                \/ hostOpen' = With(hostOpen, h, name) /\ lost' = lost \cup {h}

\* emufs_getroot and emufs_lookparent of a name without a directory part.
emufs_getroot ==
  /\ HeldNow < MaxHeld
  /\ ef_vnodes' = [ef_vnodes EXCEPT ![RootHandle].ref = @ + 1]
  /\ held' = [held EXCEPT ![RootHandle] = @ + 1]
  /\ UNCHANGED <<hostFiles, hostOpen, depth, oom, lost, fatal>>

\* VOP_DECREF, and emufs_reclaim at the last one: a handle that cannot be closed keeps
\* its vnode, which nobody holds any more.
emufs_reclaim(h) ==
  /\ held[h] > 0
  /\ held' = [held EXCEPT ![h] = @ - 1]
  /\ IF ef_vnodes[h].ref > 1
     THEN /\ ef_vnodes' = [ef_vnodes EXCEPT ![h].ref = @ - 1]
          /\ UNCHANGED <<hostOpen, lost, fatal>>
     ELSE /\ emu_close(h)
          /\ ef_vnodes' = IF hostOpen' = hostOpen THEN ef_vnodes ELSE Without(ef_vnodes, h)
  /\ UNCHANGED <<hostFiles, depth, oom>>

\* What the tables of functions of files and of directories have; all the rest fails
\* at once.
FileOps == {"open", "read", "write", "stat", "gettype", "tryseek", "fsync", "truncate"}
DirOps == {"open", "getdirentry", "stat", "gettype", "namefile", "lookparent"}
OpsOf(h) == IF ef_vnodes[h].isdir THEN DirOps ELSE FileOps

\* emu_read, emu_readdir, emu_write, emu_getsize, emu_trunc: the handle goes to the
\* emulator, which must know it.
NeedsHandle == {"getdirentry", "read", "write", "stat", "truncate"}

\* emufs_read, emufs_write, emufs_getdirentry, emufs_stat, emufs_truncate
UseHandle(h, op) ==
  /\ held[h] > 0
  /\ op \in OpsOf(h) \cap NeedsHandle
  /\ fatal' = (fatal \/ translate_err(h))
  /\ UNCHANGED <<hostFiles, hostOpen, ef_vnodes, held, depth, oom, lost>>

\* emufs_open, emufs_opendir and emufs_close: nothing is asked of the emulator, so a
\* close leaves the handle open.
OpenClose(h) ==
  /\ held[h] > 0
  /\ UNCHANGED emuVars

emuNext ==
  /\ ~fatal
  /\ \/ \E name \in EmuName, create, excl \in BOOLEAN : emufs_lookup(name, create, excl)
     \/ emufs_getroot
     \/ \E h \in EmuHandle : emufs_reclaim(h)
     \/ \E h \in EmuHandle : OpenClose(h) \/ \E op \in NeedsHandle : UseHandle(h, op)

emuSpec == emuInit /\ [][emuNext]_emuVars

-----------------------------------------------------------------------------
(* Properties *)

\* Handles of the host and vnodes go together through every order of lookups,
\* creates and releases, and through failing closes and loads: a vnode's handle is
\* open, so that the emulator is never given one it does not know; an open handle
\* has a vnode, or was lost when it could not be closed; a vnode has one reference
\* for every holder, and the root one more; and vfs_biglock is released except by a
\* load without memory for the vnode.
HandlesAreKept ==
  /\ ~fatal
  /\ DOMAIN ef_vnodes \subseteq DOMAIN hostOpen
  /\ DOMAIN hostOpen \subseteq DOMAIN ef_vnodes \cup lost
  /\ \A h \in DOMAIN ef_vnodes :
       ef_vnodes[h].ref = held[h] + (IF h = RootHandle \/ (h \in lost /\ ef_vnodes[h].ref # held[h]) THEN 1 ELSE 0)
  /\ depth = oom
=============================================================================
