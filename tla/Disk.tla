-------------------------------- MODULE Disk --------------------------------
(***************************************************************************)
(* What a disk driver promises to the callers of d_io (kern/include/       *)
(* device.h): a call moves its sectors one by one and in order, each in    *)
(* one step between call and return; it succeeds only when all of them    *)
(* have been moved, and a sector is written by nobody else.                *)
(***************************************************************************)
EXTENDS Integers, Sequences

CONSTANTS Thread, Sectors, Value, BUSY

VARIABLES
  platter,   \* contents of the sectors, numbered from 0
  call       \* of each thread: rw, first sector, data, sectors moved, result

\* A thread that is not in d_io, and the result of its last call.
Idle(err) == [rw |-> "read", sector |-> 0, data |-> << >>, moved |-> 0, err |-> err]

\* A call for any sectors, and with any data to write.
Request == [rw : {"read", "write"}, sector : Nat, data : Seq(Value), moved : {0}, err : {BUSY}]

Call(t) ==
  /\ call[t].err # BUSY
  /\ call'[t] \in Request
  /\ call' = [call EXCEPT ![t] = call'[t]]
  /\ UNCHANGED platter

\* Move the next sector.
Move(t) ==
  LET c == call[t]
      s == c.sector + c.moved
  IN  /\ c.err = BUSY
      /\ c.moved < Len(c.data)
      /\ s < Sectors
      /\ \/ /\ c.rw = "write"
            /\ platter' = [platter EXCEPT ![s] = c.data[c.moved + 1]]
            /\ call' = [call EXCEPT ![t].moved = @ + 1]
         \/ /\ c.rw = "read"
            /\ call' = [call EXCEPT ![t].moved = @ + 1, ![t].data[c.moved + 1] = platter[s]]
            /\ UNCHANGED platter

\* Success means that everything was moved; a call may fail at any time.
Return(t) ==
  /\ call[t].err = BUSY
  /\ \E e \in {"OK", "EIO", "EFAULT", "EINVAL"} :
        /\ e = "OK" => call[t].moved = Len(call[t].data)
        /\ call' = [call EXCEPT ![t] = Idle(e)]
  /\ UNCHANGED platter

Init ==
  /\ platter \in [0 .. Sectors - 1 -> Value]
  /\ call = [t \in Thread |-> Idle("OK")]

Next ==
  \E t \in Thread : Call(t) \/ Move(t) \/ Return(t)

Spec == Init /\ [][Next]_<<platter, call>>
=============================================================================
