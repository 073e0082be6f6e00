-------------------------------- MODULE Lhd --------------------------------
(***************************************************************************)
(* The disk driver (kern/dev/lamebus/lhd.c) between its callers, which may *)
(* be several threads at once since vfs_biglock is an empty stub, and the  *)
(* disk: one buffer and two registers on the card, an interrupt when an    *)
(* operation ends, the semaphores lh_clear (the card is free) and lh_done  *)
(* (the operation has ended).  A caller is a program that reads or writes  *)
(* the raw device, or SFS through sfs_rwblock (kern/fs/sfs/sfs_io.c),      *)
(* which tries again after a media error.                                  *)
(***************************************************************************)
EXTENDS Integers, Sequences

CONSTANTS Thread,
          SfsUser,     \* the threads that use the disk through SFS; the others are programs
          Sectors,     \* number of sectors of the disk (d_blocks)
          Value,       \* contents of a sector
          Blank,       \* the contents it starts with
          MaxLen,      \* bound: sectors in one request
          MaxTries,    \* tries of sfs_rwblock after the first (10 in the code)
          BUSY         \* result of a call that has not returned

ASSUME LhdAssumption ==
  /\ Sectors \in Nat \ {0} /\ MaxTries \in Nat \ {0} /\ MaxLen \in Nat
  /\ SfsUser \subseteq Thread
  /\ Blank \in Value
  /\ BUSY \notin {"OK", "EIO", "EFAULT", "EINVAL"}

VARIABLES
  lpc,        \* where thread t is in lhd_io: "out", "P_clear", "move_in", "sect", "start",
              \* "P_done", "result", "V_clear", "return", "sfs" (back in sfs_rwblock)
  io,         \* the call: rw, first sector, sectors asked for, loop index i, result
  uio,        \* its uio: sectors left to move (uio_resid), and the caller's buffer
  tries,      \* tries in sfs_rwblock
  lh_clear,   \* count of the semaphore lh_clear
  lh_done,    \* count of the semaphore lh_done
  lh_result,  \* lh_result
  lh_buf,     \* the buffer on the card
  reg_sect,   \* LHD_REG_SECT
  reg_stat,   \* LHD_REG_STAT: "idle", "read", "write" (working), "ok", "media"
  irq,        \* the handler: "no", or the status it is delivering
  saved,      \* the handler has saved lh_result
  platter,    \* contents of the disk
  moved       \* history: sectors the disk has moved for the current call of lhd_io

lhdVars == <<lpc, io, uio, tries, lh_clear, lh_done, lh_result, lh_buf, reg_sect, reg_stat,
             irq, saved, platter, moved>>
threadVars == <<lpc, io, uio, tries>>
card == <<lh_result, lh_buf, reg_sect, reg_stat, irq, saved, platter>>

\* Out of lhd_io only the result of the last call matters.
NoCall(err) == [rw |-> "read", sector |-> 0, len |-> 0, i |-> 0, err |-> err]
NoUio == [left |-> 0, data |-> << >>]

lhdInit ==
  /\ lpc = [t \in Thread |-> "out"]
  /\ io = [t \in Thread |-> NoCall("OK")]
  /\ uio = [t \in Thread |-> NoUio]
  /\ tries = [t \in Thread |-> 0]
  /\ lh_clear = 1
  /\ lh_done = 0
  /\ lh_result = "OK"
  /\ lh_buf = Blank
  /\ reg_sect = 0
  /\ reg_stat = "idle"
  /\ irq = "no"
  /\ saved = FALSE
  /\ platter = [s \in 0 .. Sectors - 1 |-> Blank]
  /\ moved = [t \in Thread |-> 0]

lhdGoto(t, label) == lpc' = [lpc EXCEPT ![t] = label]

-----------------------------------------------------------------------------
(* lhd_io *)

\* The checks at the head of lhd_io: nothing past the end of the disk, and with
\* nothing to move the loop is not entered.  What is left of the uio is what is
\* asked for.
Enter(t, rw, sector, left, data) ==
  /\ io' = [io EXCEPT ![t] = [rw |-> rw, sector |-> sector, len |-> left, i |-> 0,
                              err |-> IF sector + left > Sectors THEN "EINVAL" ELSE BUSY]]
  /\ uio' = [uio EXCEPT ![t] = [left |-> left, data |-> data]]
  /\ moved' = [moved EXCEPT ![t] = 0]
  /\ lhdGoto(t, IF sector + left > Sectors \/ left = 0 THEN "return" ELSE "P_clear")

\* What the caller's buffer holds, where it matters.
Buffers(rw, n) == [1 .. n -> IF rw = "write" THEN Value ELSE {Blank}]

\* A program reads or writes the raw device; the uio may ask for any sectors.
RawIo(t) ==
  /\ lpc[t] = "out"
  /\ t \notin SfsUser
  /\ \E rw \in {"read", "write"}, sector \in 0 .. Sectors - 1, n \in 1 .. MaxLen :
       \E data \in Buffers(rw, n) : Enter(t, rw, sector, n, data)
  /\ UNCHANGED <<tries, lh_clear, lh_done, card>>

\* sfs_rblock and sfs_wblock ask sfs_rwblock for one block of the volume.
sfs_rwblock(t) ==
  /\ lpc[t] = "out"
  /\ t \in SfsUser
  /\ \E rw \in {"read", "write"}, sector \in 0 .. Sectors - 1 :
       \E data \in Buffers(rw, 1) : Enter(t, rw, sector, 1, data)
  /\ tries' = [tries EXCEPT ![t] = 0]
  /\ UNCHANGED <<lh_clear, lh_done, card>>

\* P(lh_clear): wait until nobody else is using the device.
P_clear(t) ==
  /\ lpc[t] = "P_clear"
  /\ lh_clear > 0
  /\ lh_clear' = lh_clear - 1
  /\ lhdGoto(t, IF io[t].rw = "write" THEN "move_in" ELSE "sect")
  /\ UNCHANGED <<io, uio, tries, lh_done, card, moved>>

\* uiomove of the data to write to the card: the uio is one sector shorter.
MoveIn(t) ==
  /\ lpc[t] = "move_in"
  /\ lh_buf' = uio[t].data[io[t].i + 1]
  /\ uio' = [uio EXCEPT ![t].left = @ - 1]
  /\ lhdGoto(t, "sect")
  /\ UNCHANGED <<io, tries, lh_clear, lh_done, lh_result, reg_sect, reg_stat, irq, saved, platter, moved>>

\* uiomove fails on a bad address of the program.
MoveInFails(t) ==
  /\ lpc[t] = "move_in"
  /\ t \notin SfsUser
  /\ io' = [io EXCEPT ![t].err = "EFAULT"]
  /\ lh_clear' = lh_clear + 1
  /\ lhdGoto(t, "return")
  /\ UNCHANGED <<uio, tries, lh_done, card, moved>>

\* Tell the card the sector, then start it.
SetSector(t) ==
  /\ lpc[t] = "sect"
  /\ reg_sect' = io[t].sector + io[t].i
  /\ lhdGoto(t, "start")
  /\ UNCHANGED <<io, uio, tries, lh_clear, lh_done, lh_result, lh_buf, reg_stat, irq, saved, platter, moved>>

Start(t) ==
  /\ lpc[t] = "start"
  /\ reg_stat' = io[t].rw
  /\ lhdGoto(t, "P_done")
  /\ UNCHANGED <<io, uio, tries, lh_clear, lh_done, lh_result, lh_buf, reg_sect, irq, saved, platter, moved>>

\* P(lh_done): wait for the interrupt handler.
P_done(t) ==
  /\ lpc[t] = "P_done"
  /\ lh_done > 0
  /\ lh_done' = lh_done - 1
  /\ lhdGoto(t, "result")
  /\ UNCHANGED <<io, uio, tries, lh_clear, card, moved>>

\* Take the result and, after a read that went well, move the data out.
Result(t) ==
  /\ lpc[t] = "result"
  /\ IF lh_result = "OK" /\ io[t].rw = "read"
     THEN \/ /\ uio' = [uio EXCEPT ![t].left = @ - 1, ![t].data[io[t].i + 1] = lh_buf]
             /\ moved' = [moved EXCEPT ![t] = @ + 1]
             /\ UNCHANGED io
          \/ /\ t \notin SfsUser
             /\ io' = [io EXCEPT ![t].err = "EFAULT"]
             /\ UNCHANGED <<uio, moved>>
     ELSE /\ io' = [io EXCEPT ![t].err = IF lh_result = "OK" THEN BUSY ELSE lh_result]
          /\ UNCHANGED <<uio, moved>>
  /\ lhdGoto(t, "V_clear")
  /\ UNCHANGED <<tries, lh_clear, lh_done, card>>

\* Let another thread go ahead; then the next sector, or back to the caller.
V_clear(t) ==
  LET last == io[t].err # BUSY \/ io[t].i + 1 = io[t].len
  IN  /\ lpc[t] = "V_clear"
      /\ lh_clear' = lh_clear + 1
      /\ io' = [io EXCEPT ![t].i = IF last THEN @ ELSE @ + 1]
      /\ lhdGoto(t, IF last THEN "return" ELSE "P_clear")
      /\ UNCHANGED <<uio, tries, lh_done, card, moved>>

\* lhd_io returns 0 ("OK") or its error, to the program or to sfs_rwblock.
Return(t) ==
  /\ lpc[t] = "return"
  /\ LET err == IF io[t].err = BUSY THEN "OK" ELSE io[t].err
     IN  \/ /\ t \notin SfsUser
            /\ io' = [io EXCEPT ![t] = NoCall(err)]
            /\ uio' = [uio EXCEPT ![t] = NoUio]
            /\ moved' = [moved EXCEPT ![t] = 0]
            /\ lhdGoto(t, "out")
         \/ /\ t \in SfsUser
            /\ io' = [io EXCEPT ![t].err = err]
            /\ lhdGoto(t, "sfs")
            /\ UNCHANGED <<uio, moved>>
  /\ UNCHANGED <<tries, lh_clear, lh_done, card>>

\* sfs_rwblock after EIO: try again, with the uio as lhd_io left it.
Again(t) == io[t].err = "EIO" /\ tries[t] < MaxTries

Retry(t) ==
  /\ lpc[t] = "sfs"
  /\ Again(t)
  /\ tries' = [tries EXCEPT ![t] = @ + 1]
  /\ Enter(t, io[t].rw, io[t].sector, uio[t].left, uio[t].data)
  /\ UNCHANGED <<lh_clear, lh_done, card>>

SfsReturns(t) ==
  /\ lpc[t] = "sfs"
  /\ ~Again(t)
  /\ io' = [io EXCEPT ![t] = NoCall(io[t].err)]
  /\ uio' = [uio EXCEPT ![t] = NoUio]
  /\ moved' = [moved EXCEPT ![t] = 0]
  /\ lhdGoto(t, "out")
  /\ UNCHANGED <<tries, lh_clear, lh_done, card>>

-----------------------------------------------------------------------------
(* The card and its interrupt handler *)

\* The thread for which the card works.
Waiting == {t \in Thread : lpc[t] = "P_done"}

\* The disk finishes the operation it was told to do: the sector is moved, or
\* there is a media error.
DiskWorks ==
  /\ reg_stat \in {"read", "write"}
  /\ \/ /\ reg_stat' = "ok"
        /\ lh_buf' = IF reg_stat = "read" THEN platter[reg_sect] ELSE lh_buf
        /\ platter' = IF reg_stat = "write" THEN [platter EXCEPT ![reg_sect] = lh_buf] ELSE platter
        /\ moved' = [t \in Thread |-> IF t \in Waiting /\ reg_stat = "write"
                                       THEN moved[t] + 1 ELSE moved[t]]
     \/ /\ reg_stat' = "media"
        /\ UNCHANGED <<lh_buf, platter, moved>>
  /\ UNCHANGED <<threadVars, lh_clear, lh_done, lh_result, reg_sect, irq, saved>>

\* lhd_irq: read the status and clear it.
lhd_irq ==
  /\ irq = "no"
  /\ reg_stat \in {"ok", "media"}
  /\ irq' = reg_stat
  /\ reg_stat' = "idle"
  /\ UNCHANGED <<threadVars, lh_clear, lh_done, lh_result, lh_buf, reg_sect, saved, platter, moved>>

\* LHD_OK, LHD_INVSECT and LHD_MEDIA; lhd_io has checked the sector, so the card of
\* this model reports no invalid one.
lhd_code_to_errno(code) ==
  CASE code = "ok" -> "OK"
    [] code = "invsect" -> "EINVAL"
    [] code = "media" -> "EIO"
    [] OTHER -> "EAGAIN"

\* lhd_iodone: save the result, then V(lh_done).
SaveResult ==
  /\ irq # "no"
  /\ ~saved
  /\ lh_result' = lhd_code_to_errno(irq)
  /\ saved' = TRUE
  /\ UNCHANGED <<threadVars, lh_clear, lh_done, lh_buf, reg_sect, reg_stat, irq,
                 platter, moved>>

PostDone ==
  /\ irq # "no"
  /\ saved
  /\ lh_done' = lh_done + 1
  /\ irq' = "no"
  /\ saved' = FALSE
  /\ UNCHANGED <<threadVars, lh_clear, lh_result, lh_buf, reg_sect, reg_stat,
                 platter, moved>>

\* Faulty variant: V(lh_done) first, the result afterwards.
PostFirst ==
  /\ irq # "no"
  /\ ~saved
  /\ lh_done' = lh_done + 1
  /\ saved' = TRUE
  /\ UNCHANGED <<threadVars, lh_clear, lh_result, lh_buf, reg_sect, reg_stat, irq,
                 platter, moved>>
SaveLate ==
  /\ irq # "no"
  /\ saved
  /\ lh_result' = lhd_code_to_errno(irq)
  /\ irq' = "no"
  /\ saved' = FALSE
  /\ UNCHANGED <<threadVars, lh_clear, lh_done, lh_buf, reg_sect, reg_stat,
                 platter, moved>>
SwappedIodone == PostFirst \/ SaveLate

lhd_iodone == SaveResult \/ PostDone

-----------------------------------------------------------------------------

lhd_io(t) ==
  \/ P_clear(t) \/ MoveIn(t) \/ MoveInFails(t) \/ SetSector(t) \/ Start(t)
  \/ P_done(t) \/ Result(t) \/ V_clear(t) \/ Return(t) \/ Retry(t) \/ SfsReturns(t)

lhdNext ==
  \/ \E t \in Thread : RawIo(t) \/ sfs_rwblock(t) \/ lhd_io(t)
  \/ DiskWorks \/ lhd_irq \/ lhd_iodone

lhdSpec == lhdInit /\ [][lhdNext]_lhdVars

-----------------------------------------------------------------------------
(* Properties *)

\* The calls of d_io, as Disk sees them.
NoTransfer(err) == [rw |-> "read", sector |-> 0, data |-> << >>, moved |-> 0, err |-> err]
AbstractCall ==
  [t \in Thread |->
     IF lpc[t] \in {"out", "sfs"} THEN NoTransfer(io[t].err)
     ELSE [rw |-> io[t].rw, sector |-> io[t].sector, data |-> SubSeq(uio[t].data, 1, io[t].len),
           moved |-> moved[t], err |-> BUSY]]

D == INSTANCE Disk WITH call <- AbstractCall

\* lhd_io keeps the promise of d_io: with the buffer, the registers and the result
\* on the card shared by all callers and released between sectors, every sector is
\* moved once, in order, with the data of the right caller, and success is never
\* reported for a sector that was not moved.
ImplementsDisk == D!Spec

\* A write that sfs_rwblock reports as done has been written to the disk.
DoneMeansWritten ==
  \A t \in Thread :
     lpc[t] = "sfs" /\ io[t].rw = "write" /\ io[t].err = "OK" => moved[t] = 1
=============================================================================
