----------------------------- MODULE Knowndevs -----------------------------
(***************************************************************************)
(* The table of devices and file systems (kern/vfs/vfslist.c) and the      *)
(* vnodes of devices (kern/vfs/device.c, kern/vfs/devnull.c).              *)
(*                                                                         *)
(* A device has a name; one that a volume can be mounted on has a raw name *)
(* as well, and a mounted volume may have a name of its own.  A file       *)
(* system without a device (emu0) is entered with its root.  A call is one *)
(* step, see Vfs.                                                          *)
(***************************************************************************)
EXTENDS Naturals, Sequences

CONSTANTS DevName,      \* names
          RawOf,        \* mkrawname: a function from names to names
          MaxDevs,      \* bound on the devices
          MaxRefs       \* bound on the references to one device's vnode

NULL == "NULL"

VARIABLES
  knowndevs,    \* the table: name, rawname, device (dev is not NULL), vol (of kd_fs; NoFs, or
                \* the volume name, which may be NULL), busy (the volume is in use), ref and
                \* opens (of kd_vnode)
  users,        \* references to kd_vnode that callers have, in the order of the table
  opened        \* of these, how many are open files

kdVars == <<knowndevs, users, opened>>

NoFs == "NoFs"
Entry(name, raw, dev, vol) ==
  [name |-> name, rawname |-> raw, device |-> dev, vol |-> vol, busy |-> FALSE, ref |-> 1, opens |-> 0]

Index == DOMAIN knowndevs

\* devnull_create
kdInit ==
  /\ knowndevs = <<Entry("null", NULL, TRUE, NoFs)>>
  /\ users = <<0>>
  /\ opened = <<0>>

-----------------------------------------------------------------------------
(* Adding and mounting *)

VolNames(kd) == IF kd.vol = NoFs THEN {} ELSE {kd.vol}
NamesOf(kd) == ({kd.name, kd.rawname} \cup VolNames(kd)) \ {NULL}

\* Faulty variant: raw names are not looked at.
badNamesOnly(names) == \E i \in Index : knowndevs[i].name \in names

badnames(names) == \E i \in Index : NamesOf(knowndevs[i]) \cap names # {}

\* vfs_doadd: vfs_adddev for a device, vfs_addfs for a file system.  What was
\* allocated for a name that exists already is not freed.
vfs_doadd(name, mountable, dev, vol) ==
  LET kd == Entry(name, IF mountable THEN RawOf[name] ELSE NULL, dev, vol)
  IN  /\ Len(knowndevs) < MaxDevs
      /\ ~ badnames(NamesOf(kd))
      /\ knowndevs' = Append(knowndevs, kd)
      /\ users' = Append(users, 0)
      /\ opened' = Append(opened, 0)

\* findmount: a mountable device of this name.
findmount(i, name) == knowndevs[i].rawname # NULL /\ knowndevs[i].name = name

\* vfs_mount: mountfunc reads the volume name, which may be any; a device holds one
\* volume.
vfs_mount(i, name, vol) ==
  /\ findmount(i, name)
  /\ knowndevs[i].vol = NoFs
  /\ knowndevs' = [knowndevs EXCEPT ![i].vol = vol]
  /\ UNCHANGED <<users, opened>>

\* vfs_unmount and, for every device, vfs_unmountall: a volume in use stays.
vfs_unmount(i, name) ==
  /\ findmount(i, name)
  /\ knowndevs[i].vol # NoFs
  /\ ~ knowndevs[i].busy
  /\ knowndevs' = [knowndevs EXCEPT ![i].vol = NoFs]
  /\ UNCHANGED <<users, opened>>

\* So do those that fail to sync twice, or to unmount; the others go all the same.
vfs_unmountall ==
  /\ \E failing \in SUBSET Index :
       knowndevs' = [i \in Index |->
                      IF knowndevs[i].rawname # NULL /\ ~ knowndevs[i].busy /\ i \notin failing
                      THEN [knowndevs[i] EXCEPT !.vol = NoFs] ELSE knowndevs[i]]
  /\ UNCHANGED <<users, opened>>

\* A file of the volume is opened, or the last one is closed.
UseVolume(i) ==
  /\ knowndevs[i].vol # NoFs
  /\ knowndevs' = [knowndevs EXCEPT ![i].busy = ~ @]
  /\ UNCHANGED <<users, opened>>

-----------------------------------------------------------------------------
(* Lookup *)

\* What entry i says to a name: the root of its file system, that nothing is mounted,
\* the device, or nothing.
Answer(i, n) ==
  LET kd == knowndevs[i]
  IN  CASE kd.vol # NoFs /\ n \in {kd.name, kd.vol} \ {NULL} -> "root"
        [] kd.vol = NoFs /\ kd.rawname # NULL /\ kd.name = n -> "ENXIO"
        [] kd.vol = NoFs /\ kd.rawname = NULL /\ kd.name = n -> "device"
        [] kd.rawname = n -> "device"
        [] OTHER -> "next"

\* vfs_getroot: the first entry that has an answer; 0 for ENODEV.
vfs_getroot(n) ==
  LET has == {i \in Index : Answer(i, n) # "next"}
  IN  IF has = {} THEN 0 ELSE CHOOSE i \in has : \A j \in has : i <= j

\* vfs_open of `name:' for a device, without O_CREAT, O_EXCL, O_TRUNC and O_APPEND
\* (dev_open refuses these): dev_lookup, VOP_OPEN, VOP_INCOPEN.
OpenDevice(n) ==
  LET i == vfs_getroot(n)
  IN  /\ i # 0
      /\ Answer(i, n) = "device"
      /\ users[i] < MaxRefs
      /\ knowndevs' = [knowndevs EXCEPT ![i].ref = @ + 1, ![i].opens = @ + 1]
      /\ users' = [users EXCEPT ![i] = @ + 1]
      /\ opened' = [opened EXCEPT ![i] = @ + 1]

\* vnode_decref: dev_reclaim does nothing, so that the count of a vnode stays at one.
Decref(i) == IF knowndevs[i].ref > 1 THEN [knowndevs EXCEPT ![i].ref = @ - 1] ELSE knowndevs

\* d_open refuses, as for writing to a device that cannot be written: the
\* reference the lookup took is given back.
OpenRefused(n) ==
  LET i == vfs_getroot(n)
  IN  /\ i # 0
      /\ Answer(i, n) = "device"
      /\ UNCHANGED kdVars

\* vfs_close
CloseDevice(i) ==
  /\ opened[i] > 0
  /\ knowndevs' = [Decref(i) EXCEPT ![i].opens = @ - 1]
  /\ users' = [users EXCEPT ![i] = @ - 1]
  /\ opened' = [opened EXCEPT ![i] = @ - 1]

kdNext ==
  \/ \E n \in DevName, m \in BOOLEAN : vfs_doadd(n, m, TRUE, NoFs)
  \/ \E n \in DevName : vfs_doadd(n, FALSE, FALSE, NULL)
  \/ \E i \in Index, n \in DevName, v \in DevName \cup {NULL} : vfs_mount(i, n, v)
  \/ \E i \in Index, n \in DevName : vfs_unmount(i, n)
  \/ vfs_unmountall
  \/ \E i \in Index : UseVolume(i) \/ CloseDevice(i)
  \/ \E n \in DevName : OpenDevice(n) \/ OpenRefused(n)

kdSpec == kdInit /\ [][kdNext]_kdVars

-----------------------------------------------------------------------------
(* Properties *)

\* A device is found under its own names whatever is added and mounted, or is hidden
\* by a volume that was given this name, which vfs_mount does not refuse; a volume in
\* use is never dropped; and the vnode of a device outlives all its users, with
\* the table's reference left.
DevicesAreFound ==
  \A i \in Index :
    LET kd == knowndevs[i]
    IN  /\ \A n \in {kd.name, kd.rawname} \ {NULL} :
             \/ vfs_getroot(n) = i
             \/ knowndevs[vfs_getroot(n)].vol = n
        /\ kd.busy => kd.vol # NoFs
        /\ kd.ref = 1 + users[i]
        /\ kd.opens = opened[i]
=============================================================================
