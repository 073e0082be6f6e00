-------------------------------- MODULE Clock --------------------------------
(***************************************************************************)
(* The time of day: ltimer_gettime of kern/dev/lamebus/ltimer.c behind     *)
(* gettime of the generic rtclock, for __time and for the menu, which      *)
(* times a command with getinterval.                                       *)
(*                                                                         *)
(* The timer card shows the time in two registers that are read one after  *)
(* the other while it runs.  Interrupts are off on the reader's cpu, which *)
(* bounds by Latency how long the reads take.                              *)
(***************************************************************************)
EXTENDS Naturals

CONSTANTS Second,       \* ticks in a second
          Small,        \* below this the later seconds are taken (5000000 ns)
          Latency,      \* ticks the three reads of one call take at most
          MaxTime       \* bound on the time

ASSUME ClockAssumption ==
  /\ {Second, Small, Latency, MaxTime} \subseteq Nat /\ Second > 0
  /\ Latency <= Small /\ Small + Latency <= Second

VARIABLES
  now,          \* the card's clock
  gpc,          \* "idle", or the read that is next: "secs1", "nsecs", "secs2"
  reg,          \* what the call under way has read
  asked,        \* when the call under way began
  before,       \* the answer of the last call, and from when to when it was under way
  took          \* the interval computed last, with its bounds

clockVars == <<now, gpc, reg, asked, before, took>>

NoReads == [secs1 |-> 0, nsecs |-> 0]
NoAnswer == [secs |-> 0, nsecs |-> 0, from |-> 0, to |-> 0, some |-> FALSE]
NoInterval == [secs |-> 0, nsecs |-> 0, least |-> 0, most |-> 0]

clockInit ==
  /\ now = 0
  /\ gpc = "idle"
  /\ reg = NoReads
  /\ asked = 0
  /\ before = NoAnswer
  /\ took = NoInterval

\* The card's registers.
SEC == now \div Second
NSEC == now % Second

\* The card's clock; a call ends in time.
Tick ==
  /\ now < MaxTime
  /\ gpc # "idle" => now < asked + Latency
  /\ now' = now + 1
  /\ UNCHANGED <<gpc, reg, asked, before, took>>

\* gettime, splhigh.
gettime ==
  /\ gpc = "idle"
  /\ gpc' = "secs1"
  /\ asked' = now
  /\ took' = NoInterval
  /\ UNCHANGED <<now, reg, before>>

ReadSecs1 ==
  /\ gpc = "secs1"
  /\ reg' = [reg EXCEPT !.secs1 = SEC]
  /\ gpc' = "nsecs"
  /\ UNCHANGED <<now, asked, before, took>>

ReadNsecs ==
  /\ gpc = "nsecs"
  /\ reg' = [reg EXCEPT !.nsecs = NSEC]
  /\ gpc' = "secs2"
  /\ UNCHANGED <<now, asked, before, took>>

\* Faulty variant: the seconds that were read first.
FirstSecs == reg.secs1

\* With small nanoseconds the later seconds, which are being read.
SecsOf == IF reg.nsecs < Small THEN SEC ELSE reg.secs1

\* From a to b.
getinterval(a, b) ==
  IF b.nsecs < a.nsecs
  THEN [secs |-> b.secs - 1 - a.secs, nsecs |-> b.nsecs + Second - a.nsecs]
  ELSE [secs |-> b.secs - a.secs, nsecs |-> b.nsecs - a.nsecs]

\* The third read, splx, and the call returns; the menu subtracts the answer before.
ReadSecs2 ==
  LET answer == [secs |-> SecsOf, nsecs |-> reg.nsecs, from |-> asked, to |-> now, some |-> TRUE]
      i == getinterval(before, answer)
  IN  /\ gpc = "secs2"
      /\ gpc' = "idle"
      /\ reg' = NoReads
      /\ asked' = 0
      /\ before' = answer
      /\ took' = IF before.some
                 THEN [secs |-> i.secs, nsecs |-> i.nsecs,
                       least |-> asked - before.to, most |-> now - before.from]
                 ELSE took
      /\ UNCHANGED now

clockNext == Tick \/ gettime \/ ReadSecs1 \/ ReadNsecs \/ ReadSecs2

clockSpec == clockInit /\ [][clockNext]_clockVars

-----------------------------------------------------------------------------
(* Properties *)

Ticks(t) == t.secs * Second + t.nsecs

\* The time answered is one the card's clock had during the call, across the turn of a
\* second too, so that time never goes back from one call to the next; and what a
\* command took lies between the shortest and the longest it can have taken, with less
\* than a second of nanoseconds.
TimeIsRight ==
  /\ before.from <= Ticks(before) /\ Ticks(before) <= before.to
  /\ took.nsecs < Second
  /\ took.least <= Ticks(took) /\ Ticks(took) <= took.most
=============================================================================
