---------------------------- MODULE DeviceProofs ----------------------------
(***************************************************************************)
(* The handlers of interrupts, for every size of their tables.             *)
(* Interprocessor interrupts: the invariant that makes a lost interrupt    *)
(* harmless to an idle cpu, and the one behind the shootdown table's       *)
(* overflow.  The disk driver keeps the promise of d_io: Lhd implements    *)
(* Disk.  The console loses nothing, however many threads write:           *)
(* OutputIsKept; and InputIsKept for one reader.                           *)
(***************************************************************************)
EXTENDS Ipi, Lhd, Console, SequenceTheorems, TLAPS

-----------------------------------------------------------------------------
(* Interprocessor interrupts *)

\* A cpu in the idle loop says so in c_isidle, which thread_make_runnable reads.
IdleIsKnown == \A c \in CPU : pc[c] \in {"idle", "recheck"} => c_isidle[c]

\* Up to its limit the table holds what was asked for; one request more is a flush.
TableIsExact ==
  \A c \in CPU :
     /\ asked[c] <= TLBSHOOTDOWN_MAX =>
           /\ c_numshootdown[c] = asked[c]
           /\ \A m \in owed[c] : \E i \in Slot : i < asked[c] /\ c_shootdown[c][i] = m
     /\ asked[c] = TLBSHOOTDOWN_MAX + 1 => c_numshootdown[c] = TLBSHOOTDOWN_ALL

\* What is being sent is an interrupt.
SendsCode == \A c \in CPU : pc[c] = "send" => code[c] \in Code

IInv == TypeOK /\ SendsCode /\ IdleIsKnown /\ NoSleepWithWork /\ TableIsExact

-----------------------------------------------------------------------------

LEMMA ResumeLabel ==
  ASSUME TypeOK, NEW c \in CPU
  PROVE  /\ Resume(c) \in {"recheck", "thread"}
         /\ Resume(c) = "recheck" => c_isidle[c]
  BY DEF Resume, TypeOK

LEMMA FlagSet ==
  ASSUME NEW f \in [CPU -> BOOLEAN], NEW c \in CPU, NEW b \in BOOLEAN
  PROVE  [f EXCEPT ![c] = b] \in [CPU -> BOOLEAN]
  OBVIOUS

LEMMA TypeInit == Init => TypeOK
  BY IpiAssumption DEF Init, TypeOK, Code, Slot

\* The shootdown counter stays between TLBSHOOTDOWN_ALL and the table's size.
LEMMA ShootdownsRange ==
  ASSUME NEW n \in -1 .. TLBSHOOTDOWN_MAX
  PROVE  Shootdowns(n) \in -1 .. TLBSHOOTDOWN_MAX
  BY IpiAssumption DEF Shootdowns, TLBSHOOTDOWN_ALL

LEMMA TypeStep == TypeOK /\ SendsCode /\ [Next]_vars => TypeOK'
<1> SUFFICES ASSUME TypeOK, SendsCode, [Next]_vars PROVE TypeOK'
  OBVIOUS
<1> USE DEF Goto, sendVars, idleVars, tlbVars, Code
<1>1. ASSUME NEW c \in CPU, KernelStep(c) PROVE TypeOK'
  <2>1. CASE Recheck(c)
    <3>1. c_isidle' \in [CPU -> BOOLEAN]
      BY <2>1, FlagSet DEF TypeOK, Recheck
    <3>3. work' \in [CPU -> BOOLEAN]
      <4>1. CASE work' = work
        BY <4>1 DEF TypeOK
      <4>2. ASSUME NEW more \in BOOLEAN, work' = [work EXCEPT ![c] = more]
            PROVE  work' \in [CPU -> BOOLEAN]
        BY <4>2, FlagSet DEF TypeOK
      <4> QED
        BY <2>1, <4>1, <4>2 DEF Recheck
    <3>2. pc' \in [CPU -> {"thread", "idle", "recheck", "send", "offline", "clear", "halted", "down"}]
      BY <2>1 DEF TypeOK, Recheck
    <3> QED
      BY <2>1, <3>1, <3>2, <3>3 DEF TypeOK, Recheck
  <2>2. CASE OfflineHalts(c)
    BY <2>2 DEF TypeOK, OfflineHalts
  <2>3. CASE lamebus_clear_ipi(c)
    BY <2>3, ResumeLabel DEF TypeOK, lamebus_clear_ipi
  <2>4. CASE Sent(c)
    <3>1. rq_lock' \in [CPU -> CPU \cup Mapping \cup {NONE}]
      BY <2>4 DEF TypeOK, Sent
    <3> QED
      BY <2>4, <3>1, ResumeLabel DEF TypeOK, Sent
  <2>5. CASE ReleaseFails(c)
    BY <2>5 DEF TypeOK, ReleaseFails, panic
  <2>6. ASSUME NEW d \in CPU, ipi_send(c, d) PROVE TypeOK'
    <3>1. code[c] \in Code
      BY <2>6 DEF SendsCode, ipi_send
    <3> QED
      BY <2>6, <3>1 DEF TypeOK, ipi_send
  <2> QED
    BY <1>1, <2>1, <2>2, <2>3, <2>4, <2>5, <2>6 DEF KernelStep
<1>2. ASSUME NEW c \in CPU, Handler(c) PROVE TypeOK'
  <2>1. CASE IpiPanic(c)
    BY <2>1 DEF TypeOK, IpiPanic
  <2>2. CASE IpiOffline(c)
    BY <2>2 DEF TypeOK, IpiOffline
  <2>3. CASE IpiShootdown(c)
    BY <2>3 DEF TypeOK, IpiShootdown, panic
  <2>4. CASE interprocessor_interrupt(c)
    BY <2>4 DEF TypeOK, interprocessor_interrupt
  <2> QED
    BY <1>2, <2>1, <2>2, <2>3, <2>4 DEF Handler
<1>3. ASSUME NEW c \in CPU, GoIdle(c) \/ hardclock(c) PROVE TypeOK'
  BY <1>3, FlagSet DEF TypeOK, GoIdle, hardclock
<1>4. ASSUME NEW c \in CPU, NEW what \in Stop, ipi_broadcast(c, what) PROVE TypeOK'
  BY <1>4, IpiAssumption DEF TypeOK, ipi_broadcast
<1>5. ASSUME NEW c \in CPU, NEW d \in CPU, thread_make_runnable(c, d) PROVE TypeOK'
  <2>1. work' \in [CPU -> BOOLEAN]
    BY <1>5, FlagSet DEF TypeOK, thread_make_runnable
  <2>2. /\ pc' = [pc EXCEPT ![c] = "send"] \/ pc' = [pc EXCEPT ![c] = Resume(c)]
        /\ code' = [code EXCEPT ![c] = "unidle"] \/ code' = code
        /\ targets' = [targets EXCEPT ![c] = {d}] \/ targets' = targets
        /\ rq_lock' = [rq_lock EXCEPT ![d] = c] \/ rq_lock' = rq_lock
        /\ UNCHANGED <<c_isidle, ipi_lock, c_ipi_pending, line, tlbVars, stopped>>
    BY <1>5 DEF thread_make_runnable
  <2>3. pc' \in [CPU -> {"thread", "idle", "recheck", "send", "offline", "clear", "halted", "down"}]
    BY <2>2, ResumeLabel DEF TypeOK
  <2>4. code' \in [CPU -> Code \cup {NONE}] /\ targets' \in [CPU -> SUBSET CPU]
    <3>1. /\ [code EXCEPT ![c] = "unidle"] \in [CPU -> Code \cup {NONE}]
          /\ [targets EXCEPT ![c] = {d}] \in [CPU -> SUBSET CPU]
          /\ code \in [CPU -> Code \cup {NONE}] /\ targets \in [CPU -> SUBSET CPU]
      BY DEF TypeOK
    <3> QED
      BY <2>2, <3>1
  <2>5. rq_lock' \in [CPU -> CPU \cup Mapping \cup {NONE}]
    <3>1. /\ [rq_lock EXCEPT ![d] = c] \in [CPU -> CPU \cup Mapping \cup {NONE}]
          /\ rq_lock \in [CPU -> CPU \cup Mapping \cup {NONE}]
      BY DEF TypeOK
    <3> QED
      BY <2>2, <3>1
  <2> QED
    BY <2>1, <2>2, <2>3, <2>4, <2>5 DEF TypeOK
<1>6. ASSUME NEW c \in CPU, NEW d \in CPU, NEW m \in Mapping, ipi_tlbshootdown(c, d, m)
      PROVE  TypeOK'
  <2>1. c_numshootdown' \in [CPU -> -1 .. TLBSHOOTDOWN_MAX]
    BY <1>6, ShootdownsRange DEF TypeOK, ipi_tlbshootdown
  <2>2. c_shootdown' \in [CPU -> [Slot -> Mapping \cup {NONE}]]
    BY <1>6 DEF TypeOK, ipi_tlbshootdown
  <2>3. asked' \in [CPU -> Nat] /\ owed' \in [CPU -> SUBSET Mapping]
    BY <1>6 DEF TypeOK, ipi_tlbshootdown
  <2>4. c_ipi_pending' \in [CPU -> SUBSET Code]
    <3>1. PICK rest \in SUBSET Code :
             c_ipi_pending' = [c_ipi_pending EXCEPT ![d] = rest \cup {"tlbshootdown"}]
      BY <1>6 DEF TypeOK, ipi_tlbshootdown
    <3> QED
      BY <3>1 DEF TypeOK
  <2>5. rq_lock' \in [CPU -> CPU \cup Mapping \cup {NONE}] /\ line' \in [CPU -> BOOLEAN]
    BY <1>6, FlagSet DEF TypeOK, ipi_tlbshootdown
  <2> QED
    BY <1>6, <2>1, <2>2, <2>3, <2>4, <2>5 DEF TypeOK, ipi_tlbshootdown
<1>7. CASE UNCHANGED vars
  BY <1>7 DEF TypeOK, vars
<1> QED
  BY <1>1, <1>2, <1>3, <1>4, <1>5, <1>6, <1>7 DEF Next

-----------------------------------------------------------------------------
(* Idling *)

\* What a step does to the cpu that takes it, as far as idling goes.
LEMMA IdleStep ==
  ASSUME TypeOK, SendsCode, IdleIsKnown, NoSleepWithWork, [Next]_vars
  PROVE  SendsCode' /\ IdleIsKnown' /\ NoSleepWithWork'
<1> DEFINE Idling == SendsCode /\ IdleIsKnown /\ NoSleepWithWork
<1> USE DEF Goto, sendVars, idleVars
<1>1. ASSUME NEW c \in CPU, Recheck(c) PROVE Idling'
  <2>1. CASE ~work[c]
    BY <1>1, <2>1 DEF TypeOK, SendsCode, IdleIsKnown, NoSleepWithWork, Recheck
  <2>2. CASE work[c]
    <3>1. /\ \A d \in CPU : d # c => work'[d] = work[d] /\ c_isidle'[d] = c_isidle[d]
          /\ pc' = [pc EXCEPT ![c] = "thread"]
          /\ UNCHANGED <<code, targets, line>>
      BY <1>1, <2>2 DEF TypeOK, Recheck
    <3> QED
      BY <1>1, <3>1 DEF TypeOK, SendsCode, IdleIsKnown, NoSleepWithWork, Recheck
  <2> QED
    BY <2>1, <2>2
<1>2. ASSUME NEW c \in CPU, OfflineHalts(c) PROVE Idling'
  BY <1>2 DEF TypeOK, SendsCode, IdleIsKnown, NoSleepWithWork, OfflineHalts
<1>3. ASSUME NEW c \in CPU, lamebus_clear_ipi(c) PROVE Idling'
  BY <1>3, ResumeLabel DEF TypeOK, SendsCode, IdleIsKnown, NoSleepWithWork, lamebus_clear_ipi
<1>4. ASSUME NEW c \in CPU, Sent(c) PROVE Idling'
  BY <1>4, ResumeLabel DEF TypeOK, SendsCode, IdleIsKnown, NoSleepWithWork, Sent
<1>5. ASSUME NEW c \in CPU, ReleaseFails(c) PROVE Idling'
  BY <1>5 DEF TypeOK, SendsCode, IdleIsKnown, NoSleepWithWork, ReleaseFails, panic, Code
<1>6. ASSUME NEW c \in CPU, NEW d \in CPU, ipi_send(c, d)
      PROVE  Idling'
  BY <1>6 DEF TypeOK, SendsCode, IdleIsKnown, NoSleepWithWork, ipi_send
<1>7. ASSUME NEW c \in CPU, Handler(c) PROVE Idling'
  <2>1. CASE IpiPanic(c)
    BY <2>1 DEF TypeOK, SendsCode, IdleIsKnown, NoSleepWithWork, IpiPanic, Interrupted, InterruptsOn
  <2>2. CASE IpiOffline(c)
    BY <2>2 DEF TypeOK, SendsCode, IdleIsKnown, NoSleepWithWork, IpiOffline, Interrupted, InterruptsOn
  <2>3. CASE IpiShootdown(c)
    BY <2>3 DEF TypeOK, SendsCode, IdleIsKnown, NoSleepWithWork, IpiShootdown, panic, Code,
                Interrupted, InterruptsOn
  <2>4. CASE interprocessor_interrupt(c)
    BY <2>4 DEF TypeOK, SendsCode, IdleIsKnown, NoSleepWithWork, interprocessor_interrupt,
                Interrupted, InterruptsOn
  <2> QED
    BY <1>7, <2>1, <2>2, <2>3, <2>4 DEF Handler
<1>8. ASSUME NEW c \in CPU, GoIdle(c) PROVE Idling'
  BY <1>8 DEF TypeOK, SendsCode, IdleIsKnown, NoSleepWithWork, GoIdle
<1>9. ASSUME NEW c \in CPU, hardclock(c) PROVE Idling'
  BY <1>9 DEF TypeOK, SendsCode, IdleIsKnown, NoSleepWithWork, hardclock
<1>10. ASSUME NEW c \in CPU, NEW what \in Stop, ipi_broadcast(c, what)
       PROVE  Idling'
  BY <1>10, IpiAssumption DEF TypeOK, SendsCode, IdleIsKnown, NoSleepWithWork, ipi_broadcast, Code
<1>11. ASSUME NEW c \in CPU, NEW d \in CPU, thread_make_runnable(c, d)
       PROVE  Idling'
  <2>1. /\ pc[c] # "send"
        /\ \A e \in CPU : e # d => work'[e] = work[e]
        /\ UNCHANGED <<c_isidle, line>>
    BY <1>11 DEF TypeOK, thread_make_runnable, InterruptsOn
  <2>2. CASE c_isidle[d]
    <3>1. /\ code' = [code EXCEPT ![c] = "unidle"] /\ targets' = [targets EXCEPT ![c] = {d}]
          /\ pc' = [pc EXCEPT ![c] = "send"]
      BY <1>11, <2>2 DEF thread_make_runnable
    <3> QED
      BY <2>1, <3>1 DEF TypeOK, SendsCode, IdleIsKnown, NoSleepWithWork, Code
  <2>3. CASE ~c_isidle[d]
    <3>1. UNCHANGED <<code, targets>> /\ pc' = [pc EXCEPT ![c] = Resume(c)]
      BY <1>11, <2>3 DEF thread_make_runnable
    <3> QED
      BY <2>1, <2>3, <3>1, ResumeLabel DEF TypeOK, SendsCode, IdleIsKnown, NoSleepWithWork
  <2> QED
    BY <2>2, <2>3
<1>12. ASSUME NEW c \in CPU, NEW d \in CPU, NEW m \in Mapping, ipi_tlbshootdown(c, d, m)
       PROVE  Idling'
  BY <1>12 DEF TypeOK, SendsCode, IdleIsKnown, NoSleepWithWork, ipi_tlbshootdown
<1>13. CASE UNCHANGED vars
  BY <1>13 DEF SendsCode, IdleIsKnown, NoSleepWithWork, vars
<1> QED
  BY <1>1, <1>2, <1>3, <1>4, <1>5, <1>6, <1>7, <1>8, <1>9, <1>10, <1>11, <1>12, <1>13
     DEF Next, KernelStep

-----------------------------------------------------------------------------
(* Shootdowns *)

LEMMA TableStep ==
  ASSUME TypeOK, TableIsExact, [Next]_vars
  PROVE  TableIsExact'
<1>1. CASE UNCHANGED tlbVars
  BY <1>1 DEF TableIsExact, tlbVars
<1>2. ASSUME NEW c \in CPU, NEW d \in CPU, NEW m \in Mapping, ipi_tlbshootdown(c, d, m)
      PROVE  TableIsExact'
  <2> DEFINE n == c_numshootdown[d]
             k == asked[d]
  <2>1. /\ n \in -1 .. TLBSHOOTDOWN_MAX /\ k \in Nat /\ TLBSHOOTDOWN_MAX \in Nat
        /\ asked' = [asked EXCEPT ![d] = k + 1]
        /\ owed' = [owed EXCEPT ![d] = owed[d] \cup {m}]
        /\ c_numshootdown' = [c_numshootdown EXCEPT ![d] = Shootdowns(n)]
        /\ c_shootdown' = IF n \in Slot THEN [c_shootdown EXCEPT ![d][n] = m] ELSE c_shootdown
    BY <1>2, IpiAssumption DEF ipi_tlbshootdown, TypeOK
  <2>2. ASSUME NEW e \in CPU, e # d
        PROVE  /\ asked'[e] = asked[e] /\ owed'[e] = owed[e]
               /\ c_numshootdown'[e] = c_numshootdown[e] /\ c_shootdown'[e] = c_shootdown[e]
    BY <2>1, <2>2 DEF TypeOK
  <2>3. /\ asked'[d] = k + 1 /\ owed'[d] = owed[d] \cup {m}
        /\ c_numshootdown'[d] = Shootdowns(n)
        /\ n \in Slot => /\ c_shootdown'[d][n] = m
                         /\ \A i \in Slot : i # n => c_shootdown'[d][i] = c_shootdown[d][i]
    BY <2>1 DEF TypeOK
  <2>4. CASE k < TLBSHOOTDOWN_MAX
    <3>1. n = k /\ n \in Slot /\ Shootdowns(n) = k + 1
      BY <2>1, <2>4 DEF TableIsExact, Slot, Shootdowns
    <3>2. \A x \in owed'[d] : \E i \in Slot : i < k + 1 /\ c_shootdown'[d][i] = x
      <4> SUFFICES ASSUME NEW x \in owed'[d]
                   PROVE  \E i \in Slot : i < k + 1 /\ c_shootdown'[d][i] = x
        OBVIOUS
      <4>1. CASE x = m
        BY <2>1, <2>3, <3>1, <4>1
      <4>2. CASE x \in owed[d]
        <5>1. PICK i \in Slot : i < k /\ c_shootdown[d][i] = x
          BY <2>1, <2>4, <4>2 DEF TableIsExact
        <5>2. i # n /\ i < k + 1
          BY <2>1, <3>1, <5>1 DEF Slot
        <5> QED
          BY <2>3, <3>1, <5>1, <5>2
      <4> QED
        BY <2>3, <4>1, <4>2
    <3>3. k + 1 # TLBSHOOTDOWN_MAX + 1
      BY <2>1, <2>4
    <3> QED
      BY <2>2, <2>3, <3>1, <3>2, <3>3 DEF TableIsExact
  <2>5. CASE k = TLBSHOOTDOWN_MAX
    <3>1. n = TLBSHOOTDOWN_MAX /\ Shootdowns(n) = TLBSHOOTDOWN_ALL
      BY <2>1, <2>5 DEF TableIsExact, Shootdowns
    <3>2. ~(k + 1 <= TLBSHOOTDOWN_MAX)
      BY <2>1, <2>5
    <3> QED
      BY <2>2, <2>3, <3>1, <3>2 DEF TableIsExact
  <2>6. CASE k > TLBSHOOTDOWN_MAX
    <3>1. ~(k + 1 <= TLBSHOOTDOWN_MAX) /\ k + 1 # TLBSHOOTDOWN_MAX + 1
      BY <2>1, <2>6
    <3> QED
      BY <2>2, <2>3, <3>1 DEF TableIsExact
  <2> QED
    BY <2>1, <2>4, <2>5, <2>6
<1>3. ASSUME Next PROVE \/ UNCHANGED tlbVars
                        \/ \E c, d \in CPU : \E m \in Mapping : ipi_tlbshootdown(c, d, m)
  BY <1>3 DEF Next, KernelStep, Handler, Recheck, OfflineHalts, lamebus_clear_ipi, Sent, ReleaseFails,
              ipi_send, IpiPanic, IpiOffline, IpiShootdown, interprocessor_interrupt, GoIdle, hardclock,
              ipi_broadcast, thread_make_runnable
<1> QED
  BY <1>1, <1>2, <1>3 DEF vars, tlbVars

LEMMA TableImplies == TypeOK /\ TableIsExact => OverflowFlushes
<1> SUFFICES ASSUME TypeOK, TableIsExact, NEW c \in CPU, asked[c] <= TLBSHOOTDOWN_MAX + 1,
                    NEW m \in owed[c]
             PROVE  m \in Invalidated(c)
  BY DEF OverflowFlushes
<1>1. asked[c] \in Nat /\ TLBSHOOTDOWN_MAX \in Nat /\ m \in Mapping
  BY IpiAssumption DEF TypeOK
<1>2. CASE asked[c] <= TLBSHOOTDOWN_MAX
  <2>1. c_numshootdown[c] = asked[c] /\ \E i \in Slot : i < asked[c] /\ c_shootdown[c][i] = m
    BY <1>2 DEF TableIsExact
  <2>2. c_numshootdown[c] # TLBSHOOTDOWN_ALL
    BY <1>1, <2>1 DEF TLBSHOOTDOWN_ALL
  <2> QED
    BY <2>1, <2>2 DEF Invalidated
<1>3. CASE asked[c] = TLBSHOOTDOWN_MAX + 1
  BY <1>1, <1>3 DEF TableIsExact, Invalidated
<1> QED
  BY <1>1, <1>2, <1>3

-----------------------------------------------------------------------------

\* IInv is an invariant of the interrupt code for any number of cpus and mappings and
\* any size of c_shootdown.
THEOREM Inductive == Spec => []IInv
<1>1. Init => IInv
  <2> SUFFICES ASSUME Init PROVE IInv
    OBVIOUS
  <2>1. TypeOK
    BY TypeInit
  <2>2. SendsCode /\ IdleIsKnown /\ NoSleepWithWork
    BY DEF Init, SendsCode, IdleIsKnown, NoSleepWithWork
  <2>3. TableIsExact
    BY IpiAssumption DEF Init, TableIsExact
  <2> QED
    BY <2>1, <2>2, <2>3 DEF IInv
<1>2. IInv /\ [Next]_vars => IInv'
  BY TypeStep, IdleStep, TableStep DEF IInv
<1> QED
  BY <1>1, <1>2, PTL DEF Spec

\* A cpu never sleeps in cpu_idle() with a thread on its run queue unless its line is
\* up or is about to be raised (thread_make_runnable, thread_switch), although
\* mainbus_interrupt can lower the line over an interrupt that nobody has handled.
THEOREM IdleCpusAreWoken == Spec => []NoSleepWithWork
  BY Inductive, PTL DEF IInv

\* Whatever the size of c_shootdown, the request that no longer fits makes
\* interprocessor_interrupt flush everything, and no mapping asked for before is lost.
THEOREM OverflowLosesNothing == Spec => []OverflowFlushes
<1>1. IInv => OverflowFlushes
  BY TableImplies DEF IInv
<1> QED
  BY <1>1, Inductive, PTL

-----------------------------------------------------------------------------
(* The disk driver *)

Err == {"OK", "EIO", "EFAULT", "EINVAL", BUSY}
Place == {"out", "P_clear", "move_in", "sect", "start", "P_done", "result", "V_clear",
          "return", "sfs"}
Holding == {"move_in", "sect", "start", "P_done", "result", "V_clear"}
Loop == Holding \cup {"P_clear"}
Io == [rw : {"read", "write"}, sector : Nat, len : Nat, i : Nat, err : Err]
Uio == [left : Nat, data : Seq(Value)]
Disc == 0 .. Sectors - 1

lhdType ==
  /\ lpc \in [Thread -> Place]
  /\ io \in [Thread -> Io]
  /\ uio \in [Thread -> Uio]
  /\ tries \in [Thread -> Nat]
  /\ lh_clear \in {0, 1}
  /\ lh_done \in {0, 1}
  /\ lh_result \in {"OK", "EIO"}
  /\ lh_buf \in Value
  /\ reg_sect \in Nat
  /\ reg_stat \in {"idle", "read", "write", "ok", "media"}
  /\ irq \in {"no", "ok", "media"}
  /\ saved \in BOOLEAN
  /\ platter \in [Disc -> Value]
  /\ moved \in [Thread -> Nat]

\* lh_clear is a lock: at most one thread is between P(lh_clear) and V(lh_clear).
Mutex ==
  /\ \A t \in Thread : lpc[t] \in Holding => lh_clear = 0
  /\ \A t, u \in Thread : lpc[t] \in Holding /\ lpc[u] \in Holding => t = u

\* What is left of the uio once the data to write is on the card.
LeftToMove(t) == IF io[t].rw = "write" THEN io[t].len - io[t].i - 1 ELSE io[t].len - io[t].i

\* What thread t knows of its own call.
Own(t) ==
  /\ lpc[t] \in {"out", "sfs"} => io[t].err # BUSY
  /\ lpc[t] \in Loop => /\ io[t].sector + io[t].len <= Sectors
                        /\ io[t].i < io[t].len
                        /\ io[t].len <= Len(uio[t].data)
                        /\ lpc[t] # "V_clear" => io[t].err = BUSY
  /\ lpc[t] = "move_in" => io[t].rw = "write"
  /\ lpc[t] \in {"P_clear", "move_in"} => uio[t].left = io[t].len - io[t].i
  /\ lpc[t] \in {"P_clear", "move_in", "sect", "start"} => moved[t] = io[t].i
  /\ lpc[t] \in {"sect", "start", "P_done", "result"} => uio[t].left = LeftToMove(t)
  /\ lpc[t] = "V_clear" => /\ uio[t].left <= io[t].len
                           /\ io[t].err \in {BUSY, "EIO", "EFAULT"}
                           /\ io[t].err = BUSY => /\ moved[t] = io[t].i + 1
                                                  /\ uio[t].left = io[t].len - io[t].i - 1
  /\ lpc[t] \in {"return", "sfs"} => /\ uio[t].left <= Len(uio[t].data)
                                     /\ io[t].len <= Len(uio[t].data)
  /\ lpc[t] = "return" => /\ io[t].err # "OK"
                          /\ io[t].err = BUSY => moved[t] = io[t].len

\* The disk has moved the sector thread t is at; data that was read is still on
\* the card.
Moved(t) == IF io[t].rw = "write" THEN moved[t] = io[t].i + 1
            ELSE moved[t] = io[t].i /\ lh_buf = platter[reg_sect]

NotMoved(t) == moved[t] = io[t].i

Outcome(t, answer) == IF answer = "ok" THEN Moved(t) ELSE NotMoved(t)

OutgoingData(t) == io[t].rw = "write" => lh_buf = uio[t].data[io[t].i + 1]

\* The operation of a thread that waits for the card: under way, ended, seen by
\* the handler, and reported.
Phase(t) ==
  \/ /\ reg_stat = io[t].rw /\ irq = "no" /\ ~saved /\ lh_done = 0
     /\ NotMoved(t) /\ OutgoingData(t)
  \/ /\ reg_stat \in {"ok", "media"} /\ irq = "no" /\ ~saved /\ lh_done = 0
     /\ Outcome(t, reg_stat)
  \/ /\ reg_stat = "idle" /\ irq \in {"ok", "media"} /\ lh_done = 0
     /\ Outcome(t, irq)
     /\ saved => lh_result = lhd_code_to_errno(irq)
  \/ /\ reg_stat = "idle" /\ irq = "no" /\ ~saved /\ lh_done = 1
     /\ IF lh_result = "OK" THEN Moved(t) ELSE NotMoved(t)

\* What the thread that has the card knows of it.
Card(t) ==
  /\ lpc[t] \in {"sect", "start"} => OutgoingData(t)
  /\ lpc[t] \in {"start", "P_done", "result"} => reg_sect = io[t].sector + io[t].i
  /\ lpc[t] = "P_done" => Phase(t)
  /\ lpc[t] = "result" => IF lh_result = "OK" THEN Moved(t) ELSE NotMoved(t)

\* No operation is under way, and no end of one is left to be waited for.
Quiet == reg_stat = "idle" /\ irq = "no" /\ ~saved /\ lh_done = 0

LInv ==
  /\ lhdType
  /\ Mutex
  /\ \A t \in Thread : Own(t)
  /\ \A t \in Thread : Card(t)
  /\ (\A t \in Thread : lpc[t] # "P_done") => Quiet

-----------------------------------------------------------------------------
(* Prefixes of the caller's buffer *)

LEMMA Prefix ==
  ASSUME NEW T, NEW d \in Seq(T), NEW n \in Nat, n <= Len(d)
  PROVE  /\ SubSeq(d, 1, n) \in Seq(T)
         /\ Len(SubSeq(d, 1, n)) = n
         /\ \A k \in 1 .. n : SubSeq(d, 1, n)[k] = d[k]
<1>1. Len(d) \in Nat
  OBVIOUS
<1>2. \A k \in 1 .. n : k \in 1 .. Len(d)
  BY <1>1
<1>3. SubSeq(d, 1, n) \in Seq(T)
  BY <1>2, SubSeqProperties
<1>4. /\ Len(SubSeq(d, 1, n)) = IF 1 <= n THEN n - 1 + 1 ELSE 0
      /\ \A k \in 1 .. n - 1 + 1 : SubSeq(d, 1, n)[k] = d[1 + k - 1]
  BY <1>2, SubSeqProperties
<1>5. n - 1 + 1 = n /\ \A k \in 1 .. n : 1 + k - 1 = k
  OBVIOUS
<1>6. Len(SubSeq(d, 1, n)) = n
  BY <1>4
<1>7. \A k \in 1 .. n : SubSeq(d, 1, n)[k] = d[k]
  BY <1>4, <1>5
<1> QED
  BY <1>3, <1>6, <1>7

\* A sector arrives in the buffer.
LEMMA PrefixUpdate ==
  ASSUME NEW T, NEW d \in Seq(T), NEW n \in Nat, n <= Len(d), NEW k \in 1 .. n, NEW v \in T
  PROVE  /\ [d EXCEPT ![k] = v] \in Seq(T)
         /\ Len([d EXCEPT ![k] = v]) = Len(d)
         /\ SubSeq([d EXCEPT ![k] = v], 1, n) = [SubSeq(d, 1, n) EXCEPT ![k] = v]
<1> DEFINE e == [d EXCEPT ![k] = v]
           a == SubSeq(d, 1, n)
           b == SubSeq(e, 1, n)
<1>1. e \in Seq(T) /\ Len(e) = Len(d)
  OBVIOUS
<1>2. /\ a \in Seq(T) /\ Len(a) = n /\ \A j \in 1 .. n : a[j] = d[j]
      /\ b \in Seq(T) /\ Len(b) = n /\ \A j \in 1 .. n : b[j] = e[j]
  BY <1>1, Prefix
<1>3. \A j \in 1 .. n : j \in 1 .. Len(d) /\ e[j] = IF j = k THEN v ELSE d[j]
  OBVIOUS
<1> HIDE DEF a, b, e
<1>4. \A j \in 1 .. n : b[j] = [a EXCEPT ![k] = v][j]
  BY <1>2, <1>3
<1>5. b = [a EXCEPT ![k] = v]
  BY <1>2, <1>4
<1> QED
  BY <1>1, <1>5 DEF a, b, e

-----------------------------------------------------------------------------
(* Frames *)

\* Nothing of the calls of the threads other than t changes.
OthersStay(t) ==
  \A u \in Thread : u # t => /\ lpc'[u] = lpc[u] /\ io'[u] = io[u]
                             /\ uio'[u] = uio[u] /\ moved'[u] = moved[u]

LEMMA OwnFrame ==
  ASSUME NEW u \in Thread, Own(u), lpc'[u] = lpc[u], io'[u] = io[u], uio'[u] = uio[u],
         moved'[u] = moved[u]
  PROVE  Own(u)'
  BY DEF Own, LeftToMove

\* A step of thread t while it does not have the card.
LEMMA Outside ==
  ASSUME LInv, lhdType', NEW t \in Thread, OthersStay(t), Own(t)',
         lpc[t] \notin Holding, lpc'[t] \notin Holding,
         UNCHANGED <<lh_clear, lh_done, card>>
  PROVE  LInv'
<1>1. Mutex'
  BY DEF LInv, Mutex, OthersStay, card
<1>2. ASSUME NEW u \in Thread PROVE Own(u)' /\ Card(u)'
  <2>1. CASE u = t
    BY <2>1 DEF Card, Holding
  <2>2. CASE u # t
    <3>1. Own(u) /\ Card(u)
      BY DEF LInv
    <3>2. Own(u)'
      BY <2>2, <3>1, OwnFrame DEF OthersStay
    <3>3. Card(u)'
      BY <2>2, <3>1 DEF OthersStay, Card, Phase, OutgoingData, Moved, NotMoved, Outcome, card
    <3> QED
      BY <3>2, <3>3
  <2> QED
    BY <2>1, <2>2
<1>3. (\A u \in Thread : lpc'[u] # "P_done") => Quiet'
  <2>1. lpc[t] # "P_done"
    BY DEF Holding
  <2> QED
    BY <2>1 DEF LInv, OthersStay, Quiet, card
<1> QED
  BY <1>1, <1>2, <1>3 DEF LInv

\* A step of thread t, or for it, while nobody else has the card.
LEMMA Inside ==
  ASSUME LInv, lhdType', NEW t \in Thread, OthersStay(t), Own(t)', Card(t)',
         \A u \in Thread : u # t => lpc[u] \notin Holding,
         lpc'[t] \in Holding => lh_clear' = 0,
         lpc'[t] # "P_done" => Quiet'
  PROVE  LInv'
<1>1. Mutex'
  BY DEF Mutex, OthersStay
<1>2. ASSUME NEW u \in Thread PROVE Own(u)' /\ Card(u)'
  <2>1. CASE u # t
    <3>1. Own(u)'
      BY <2>1, OwnFrame DEF OthersStay, LInv
    <3>2. Card(u)'
      BY <2>1 DEF OthersStay, Card, Holding
    <3> QED
      BY <3>1, <3>2
  <2> QED
    BY <2>1
<1> QED
  BY <1>1, <1>2 DEF LInv

\* The other calls, as Disk sees them.
LEMMA AbstractFrame ==
  ASSUME NEW t \in Thread, OthersStay(t)
  PROVE  AbstractCall' = [AbstractCall EXCEPT ![t] = AbstractCall'[t]]
  BY DEF AbstractCall, OthersStay

LEMMA Stutter ==
  ASSUME NEW t \in Thread, OthersStay(t), AbstractCall'[t] = AbstractCall[t]
  PROVE  AbstractCall' = AbstractCall
  BY AbstractFrame DEF AbstractCall

\* A step of Disk, or none.
Refines == D!Next \/ UNCHANGED <<platter, AbstractCall>>

LEMMA TypeFacts ==
  ASSUME LInv, NEW t \in Thread
  PROVE  /\ io[t] \in Io /\ uio[t] \in Uio /\ moved[t] \in Nat /\ lpc[t] \in Place
         /\ io[t].rw \in {"read", "write"} /\ io[t].sector \in Nat /\ io[t].len \in Nat
         /\ io[t].i \in Nat /\ io[t].err \in Err
         /\ uio[t].left \in Nat /\ uio[t].data \in Seq(Value) /\ Len(uio[t].data) \in Nat
         /\ Own(t) /\ Card(t) /\ Sectors \in Nat
<1>1. io[t] \in Io /\ uio[t] \in Uio /\ moved[t] \in Nat /\ lpc[t] \in Place
  BY DEF LInv, lhdType
<1>2. uio[t].data \in Seq(Value)
  BY <1>1 DEF Uio
<1> QED
  BY <1>1, <1>2, LhdAssumption DEF Io, Uio, LInv

-----------------------------------------------------------------------------
(* Calls *)

LEMMA EnterStep ==
  ASSUME LInv, NEW t \in Thread, lpc[t] \in {"out", "sfs"},
         NEW rw \in {"read", "write"}, NEW sector \in Nat, NEW n \in Nat,
         NEW data \in Seq(Value), n <= Len(data),
         Enter(t, rw, sector, n, data),
         tries' \in [Thread -> Nat],
         UNCHANGED <<lh_clear, lh_done, card>>
  PROVE  LInv' /\ Refines
<1> DEFINE far == sector + n > Sectors
           err == IF far THEN "EINVAL" ELSE BUSY
           label == IF far \/ n = 0 THEN "return" ELSE "P_clear"
           c == [rw |-> rw, sector |-> sector, len |-> n, i |-> 0, err |-> err]
           b == [left |-> n, data |-> data]
<1>1. /\ io' = [io EXCEPT ![t] = c]
      /\ uio' = [uio EXCEPT ![t] = b]
      /\ moved' = [moved EXCEPT ![t] = 0]
      /\ lpc' = [lpc EXCEPT ![t] = label]
  BY DEF Enter, lhdGoto
<1>2. c \in Io /\ b \in Uio /\ label \in Place /\ lhdType
  BY DEF Io, Uio, Err, Place, LInv
<1>3. lhdType'
  BY <1>1, <1>2 DEF lhdType, card
<1>4. OthersStay(t) /\ io'[t] = c /\ uio'[t] = b /\ moved'[t] = 0 /\ lpc'[t] = label
  BY <1>1, <1>2 DEF lhdType, OthersStay
<1>5. Own(t)'
  <2>1. Len(data) \in Nat /\ Sectors \in Nat
    BY LhdAssumption
  <2>2. CASE label = "return"
    BY <1>4, <2>1, <2>2, LhdAssumption DEF Own, Loop, Holding
  <2>3. CASE label = "P_clear"
    BY <1>4, <2>1, <2>3, LhdAssumption DEF Own, Loop, Holding
  <2> QED
    BY <2>2, <2>3
<1>6. LInv'
  BY <1>3, <1>4, <1>5, Outside DEF Holding
<1>7. D!Call(t)
  <2>1. AbstractCall[t].err # BUSY
    BY TypeFacts DEF AbstractCall, NoTransfer, Own
  <2>2. AbstractCall'[t] = [rw |-> rw, sector |-> sector, data |-> SubSeq(data, 1, n),
                            moved |-> 0, err |-> BUSY]
    <3>1. /\ lpc'[t] \notin {"out", "sfs"} /\ io'[t].rw = rw /\ io'[t].sector = sector
          /\ io'[t].len = n /\ uio'[t].data = data /\ moved'[t] = 0
      BY <1>4
    <3> QED
      BY <3>1 DEF AbstractCall
  <2>3. SubSeq(data, 1, n) \in Seq(Value)
    BY Prefix
  <2>4. AbstractCall'[t] \in D!Request
    BY <2>2, <2>3 DEF D!Request
  <2>5. AbstractCall' = [AbstractCall EXCEPT ![t] = AbstractCall'[t]]
    BY <1>4, AbstractFrame
  <2> QED
    BY <2>1, <2>4, <2>5 DEF D!Call, card, AbstractCall
<1> QED
  BY <1>6, <1>7 DEF Refines, D!Next

LEMMA BufferFacts ==
  ASSUME NEW rw \in {"read", "write"}, NEW n \in Nat, NEW data \in Buffers(rw, n)
  PROVE  data \in Seq(Value) /\ Len(data) = n
<1>1. data \in [1 .. n -> Value]
  BY LhdAssumption DEF Buffers
<1> QED
  BY <1>1

LEMMA RawIoStep ==
  ASSUME LInv, NEW t \in Thread, RawIo(t)
  PROVE  LInv' /\ Refines
<1>1. PICK rw \in {"read", "write"}, sector \in 0 .. Sectors - 1, n \in 1 .. MaxLen :
         \E data \in Buffers(rw, n) : Enter(t, rw, sector, n, data)
  BY DEF RawIo
<1>2. PICK data \in Buffers(rw, n) : Enter(t, rw, sector, n, data)
  BY <1>1
<1>3. sector \in Nat /\ n \in Nat /\ n <= n
  BY LhdAssumption
<1>4. data \in Seq(Value) /\ Len(data) = n
  BY <1>3, BufferFacts
<1>5. lpc[t] = "out" /\ UNCHANGED <<tries, lh_clear, lh_done, card>>
  BY DEF RawIo
<1> QED
  BY <1>2, <1>3, <1>4, <1>5, EnterStep DEF LInv, lhdType

LEMMA SfsRwblockStep ==
  ASSUME LInv, NEW t \in Thread, sfs_rwblock(t)
  PROVE  LInv' /\ Refines
<1>0. PICK n \in Nat : n = 1
  OBVIOUS
<1>1. PICK rw \in {"read", "write"}, sector \in 0 .. Sectors - 1 :
         \E data \in Buffers(rw, n) : Enter(t, rw, sector, n, data)
  BY <1>0 DEF sfs_rwblock
<1>2. PICK data \in Buffers(rw, n) : Enter(t, rw, sector, n, data)
  BY <1>1
<1>3. sector \in Nat /\ n <= n
  BY LhdAssumption
<1>4. data \in Seq(Value) /\ Len(data) = n
  BY <1>3, BufferFacts
<1>5. /\ lpc[t] = "out" /\ UNCHANGED <<lh_clear, lh_done, card>>
      /\ tries' = [tries EXCEPT ![t] = 0]
  BY DEF sfs_rwblock
<1>6. tries' \in [Thread -> Nat]
  BY <1>5 DEF LInv, lhdType
<1> QED
  BY <1>2, <1>3, <1>4, <1>5, <1>6, EnterStep

LEMMA RetryStep ==
  ASSUME LInv, NEW t \in Thread, Retry(t)
  PROVE  LInv' /\ Refines
<1>1. /\ lpc[t] = "sfs" /\ tries' = [tries EXCEPT ![t] = @ + 1]
      /\ Enter(t, io[t].rw, io[t].sector, uio[t].left, uio[t].data)
      /\ UNCHANGED <<lh_clear, lh_done, card>>
  BY DEF Retry
<1>2. uio[t].left <= Len(uio[t].data)
  BY <1>1, TypeFacts DEF Own
<1>3. tries' \in [Thread -> Nat]
  BY <1>1 DEF LInv, lhdType
<1> QED
  <2>1. /\ io[t].rw \in {"read", "write"} /\ io[t].sector \in Nat
        /\ uio[t].left \in Nat /\ uio[t].data \in Seq(Value)
    BY TypeFacts
  <2> QED
    BY <1>1, <1>2, <1>3, <2>1, EnterStep

\* lhd_io returns; the caller is a program or sfs_rwblock.
LEMMA ReturnStep ==
  ASSUME LInv, NEW t \in Thread, Return(t)
  PROVE  LInv' /\ Refines
<1> DEFINE err == IF io[t].err = BUSY THEN "OK" ELSE io[t].err
<1>1. /\ lpc[t] = "return"
      /\ \/ /\ io' = [io EXCEPT ![t] = NoCall(err)]
            /\ uio' = [uio EXCEPT ![t] = NoUio]
            /\ moved' = [moved EXCEPT ![t] = 0]
            /\ lpc' = [lpc EXCEPT ![t] = "out"]
         \/ /\ io' = [io EXCEPT ![t].err = err]
            /\ lpc' = [lpc EXCEPT ![t] = "sfs"]
            /\ UNCHANGED <<uio, moved>>
      /\ UNCHANGED <<tries, lh_clear, lh_done, card>>
  BY DEF Return, lhdGoto
<1>2. /\ err \in {"OK", "EIO", "EFAULT", "EINVAL"} /\ err # BUSY
      /\ err = "OK" => moved[t] = io[t].len
  BY <1>1, TypeFacts, LhdAssumption DEF Own, Err
<1> HIDE DEF err
<1>3. NoCall(err) \in Io /\ NoUio \in Uio /\ lhdType
  BY <1>2 DEF NoCall, NoUio, Io, Uio, Err, LInv
<1>4. /\ lhdType' /\ OthersStay(t) /\ io'[t].err = err
      /\ \/ lpc'[t] = "out"
         \/ lpc'[t] = "sfs" /\ uio'[t] = uio[t] /\ io'[t].len = io[t].len
  <2>1. CASE /\ io' = [io EXCEPT ![t] = NoCall(err)]
             /\ uio' = [uio EXCEPT ![t] = NoUio]
             /\ moved' = [moved EXCEPT ![t] = 0]
             /\ lpc' = [lpc EXCEPT ![t] = "out"]
    <3>1. io'[t] = NoCall(err) /\ lpc'[t] = "out" /\ OthersStay(t)
      BY <1>3, <2>1 DEF lhdType, OthersStay
    <3>2. lhdType'
      BY <1>1, <1>3, <2>1 DEF lhdType, card, Place
    <3> QED
      BY <3>1, <3>2 DEF NoCall
  <2>2. CASE /\ io' = [io EXCEPT ![t].err = err]
             /\ lpc' = [lpc EXCEPT ![t] = "sfs"]
             /\ UNCHANGED <<uio, moved>>
    <3>1. io' \in [Thread -> Io]
      BY <1>2, <1>3, <2>2 DEF lhdType, Io, Err
    <3>2. io'[t].err = err /\ io'[t].len = io[t].len
      BY <1>3, <2>2, TypeFacts DEF lhdType, Io
    <3>3. lhdType' /\ OthersStay(t) /\ lpc'[t] = "sfs"
      BY <1>1, <1>3, <2>2, <3>1 DEF lhdType, card, Place, OthersStay
    <3> QED
      BY <2>2, <3>2, <3>3
  <2> QED
    BY <1>1, <2>1, <2>2
<1>5. Own(t)'
  BY <1>1, <1>2, <1>4, TypeFacts DEF Own, Loop, Holding
<1>6. LInv'
  BY <1>1, <1>4, <1>5, Outside DEF Holding
<1>7. D!Return(t)
  <2>1. /\ AbstractCall[t].err = BUSY
        /\ AbstractCall[t].moved = moved[t]
        /\ AbstractCall[t].data = SubSeq(uio[t].data, 1, io[t].len)
    BY <1>1 DEF AbstractCall
  <2>2. Len(AbstractCall[t].data) = io[t].len
    BY <1>1, <2>1, TypeFacts, Prefix DEF Own
  <2>3. AbstractCall'[t] = D!Idle(err)
    BY <1>4 DEF AbstractCall, NoTransfer, D!Idle
  <2>4. AbstractCall' = [AbstractCall EXCEPT ![t] = D!Idle(err)]
    BY <1>4, <2>3, AbstractFrame
  <2> QED
    BY <1>1, <1>2, <2>1, <2>2, <2>4 DEF D!Return, card
<1> QED
  BY <1>6, <1>7 DEF Refines, D!Next

LEMMA SfsReturnsStep ==
  ASSUME LInv, NEW t \in Thread, SfsReturns(t)
  PROVE  LInv' /\ Refines
<1>1. /\ lpc[t] = "sfs"
      /\ io' = [io EXCEPT ![t] = NoCall(io[t].err)]
      /\ uio' = [uio EXCEPT ![t] = NoUio]
      /\ moved' = [moved EXCEPT ![t] = 0]
      /\ lpc' = [lpc EXCEPT ![t] = "out"]
      /\ UNCHANGED <<tries, lh_clear, lh_done, card>>
  BY DEF SfsReturns, lhdGoto
<1>2. NoCall(io[t].err) \in Io /\ NoUio \in Uio /\ lhdType
  BY TypeFacts DEF NoCall, NoUio, Io, Uio, LInv
<1>3. lhdType'
  BY <1>1, <1>2 DEF lhdType, card, Place
<1>4. OthersStay(t) /\ io'[t] = NoCall(io[t].err) /\ lpc'[t] = "out"
  BY <1>1, <1>2 DEF lhdType, OthersStay
<1>5. io'[t].err = io[t].err
  BY <1>4 DEF NoCall
<1>6. Own(t)'
  BY <1>1, <1>4, <1>5, TypeFacts DEF Own, Loop, Holding
<1>7. LInv'
  BY <1>1, <1>3, <1>4, <1>6, Outside DEF Holding
<1>8. AbstractCall' = AbstractCall
  <2>1. AbstractCall'[t] = AbstractCall[t]
    BY <1>1, <1>4, <1>5 DEF AbstractCall
  <2> QED
    BY <1>4, <2>1, Stutter
<1> QED
  BY <1>1, <1>7, <1>8 DEF Refines, card

-----------------------------------------------------------------------------
(* With the card *)

\* Who has the card is alone, and knows it is quiet unless it waits for it.
LEMMA Alone ==
  ASSUME LInv, NEW t \in Thread, lpc[t] \in Holding
  PROVE  /\ lh_clear = 0
         /\ \A u \in Thread : u # t => lpc[u] \notin Holding
         /\ lpc[t] # "P_done" => Quiet
<1>1. /\ lh_clear = 0 /\ \A u \in Thread : u # t => lpc[u] \notin Holding
  BY DEF LInv, Mutex
<1>2. ASSUME lpc[t] # "P_done", NEW u \in Thread PROVE lpc[u] # "P_done"
  BY <1>1, <1>2 DEF Holding
<1> QED
  BY <1>1, <1>2 DEF LInv

LEMMA P_clearStep ==
  ASSUME LInv, NEW t \in Thread, P_clear(t)
  PROVE  LInv' /\ Refines
<1> DEFINE label == IF io[t].rw = "write" THEN "move_in" ELSE "sect"
<1>1. /\ lpc[t] = "P_clear" /\ lh_clear > 0 /\ lh_clear' = lh_clear - 1
      /\ lpc' = [lpc EXCEPT ![t] = label]
      /\ UNCHANGED <<io, uio, tries, lh_done, lh_result, lh_buf, reg_sect, reg_stat, irq,
                     saved, platter, moved>>
  BY DEF P_clear, lhdGoto, card
<1>2. lhdType /\ label \in Place /\ lh_clear = 1
  BY <1>1 DEF LInv, lhdType, Place
<1>3. lh_clear' = 0
  BY <1>1, <1>2
<1>4. lhdType'
  BY <1>1, <1>2, <1>3 DEF lhdType
<1>5. OthersStay(t) /\ lpc'[t] = label
  BY <1>1, <1>2 DEF lhdType, OthersStay
<1>6. \A u \in Thread : lpc[u] \notin Holding
  BY <1>2 DEF LInv, Mutex
<1>7. Own(t)'
  BY <1>1, <1>5, TypeFacts DEF Own, Loop, Holding, LeftToMove
<1>8. Card(t)'
  BY <1>1, <1>5, TypeFacts DEF Card, OutgoingData
<1>9. Quiet'
  BY <1>1, <1>6 DEF LInv, Quiet, Holding
<1>10. LInv'
  BY <1>3, <1>4, <1>5, <1>6, <1>7, <1>8, <1>9, Inside
<1>11. AbstractCall' = AbstractCall
  <2>1. AbstractCall'[t] = AbstractCall[t]
    BY <1>1, <1>5 DEF AbstractCall
  <2> QED
    BY <1>5, <2>1, Stutter
<1> QED
  BY <1>1, <1>10, <1>11 DEF Refines

LEMMA MoveInStep ==
  ASSUME LInv, NEW t \in Thread, MoveIn(t)
  PROVE  LInv' /\ Refines
<1>1. /\ lpc[t] = "move_in" /\ lh_buf' = uio[t].data[io[t].i + 1]
      /\ uio' = [uio EXCEPT ![t].left = @ - 1]
      /\ lpc' = [lpc EXCEPT ![t] = "sect"]
      /\ UNCHANGED <<io, tries, lh_clear, lh_done, lh_result, reg_sect, reg_stat, irq,
                     saved, platter, moved>>
  BY DEF MoveIn, lhdGoto
<1>2. lhdType
  BY DEF LInv
<1>3. /\ io[t].rw = "write" /\ uio[t].left = io[t].len - io[t].i /\ io[t].i < io[t].len
      /\ io[t].len <= Len(uio[t].data) /\ uio[t].left - 1 \in Nat
      /\ io[t].i + 1 \in 1 .. Len(uio[t].data)
  <2>1. /\ io[t].rw = "write" /\ uio[t].left = io[t].len - io[t].i /\ io[t].i < io[t].len
        /\ io[t].len <= Len(uio[t].data)
    BY <1>1, TypeFacts DEF Own, Loop, Holding
  <2>2. io[t].len \in Nat /\ io[t].i \in Nat /\ Len(uio[t].data) \in Nat
    BY TypeFacts
  <2> QED
    BY <2>1, <2>2
<1>4. uio' \in [Thread -> Uio] /\ uio'[t].left = uio[t].left - 1 /\ uio'[t].data = uio[t].data
  <2>1. uio' = [uio EXCEPT ![t] = [uio[t] EXCEPT !.left = uio[t].left - 1]]
    BY <1>1
  <2>2. /\ [uio[t] EXCEPT !.left = uio[t].left - 1] \in Uio
        /\ [uio[t] EXCEPT !.left = uio[t].left - 1].left = uio[t].left - 1
        /\ [uio[t] EXCEPT !.left = uio[t].left - 1].data = uio[t].data
    BY <1>3, TypeFacts DEF Uio
  <2> QED
    BY <1>2, <2>1, <2>2 DEF lhdType
<1>5. lh_buf' \in Value
  BY <1>1, <1>3, TypeFacts
<1>6. lhdType'
  BY <1>1, <1>2, <1>4, <1>5 DEF lhdType, Place
<1>7. OthersStay(t) /\ lpc'[t] = "sect"
  BY <1>1, <1>2 DEF lhdType, OthersStay
<1>8. Own(t)'
  BY <1>1, <1>3, <1>4, <1>7, TypeFacts DEF Own, Loop, Holding, LeftToMove
<1>9. Card(t)'
  BY <1>1, <1>4, <1>7 DEF Card, OutgoingData
<1>10. lh_clear' = 0 /\ Quiet' /\ \A u \in Thread : u # t => lpc[u] \notin Holding
  BY <1>1, Alone DEF Holding, Quiet
<1>11. LInv'
  BY <1>6, <1>7, <1>8, <1>9, <1>10, Inside
<1>12. AbstractCall' = AbstractCall
  <2>1. AbstractCall'[t] = AbstractCall[t]
    BY <1>1, <1>4, <1>7 DEF AbstractCall
  <2> QED
    BY <1>7, <2>1, Stutter
<1> QED
  BY <1>1, <1>11, <1>12 DEF Refines

LEMMA MoveInFailsStep ==
  ASSUME LInv, NEW t \in Thread, MoveInFails(t)
  PROVE  LInv' /\ Refines
<1>1. /\ lpc[t] = "move_in" /\ io' = [io EXCEPT ![t].err = "EFAULT"]
      /\ lh_clear' = lh_clear + 1
      /\ lpc' = [lpc EXCEPT ![t] = "return"]
      /\ UNCHANGED <<uio, tries, lh_done, lh_result, lh_buf, reg_sect, reg_stat, irq,
                     saved, platter, moved>>
  BY DEF MoveInFails, lhdGoto, card
<1>2. lhdType /\ lh_clear = 0 /\ Quiet /\ \A u \in Thread : u # t => lpc[u] \notin Holding
  BY <1>1, Alone DEF LInv, Holding
<1>3. io' \in [Thread -> Io]
  BY <1>1, <1>2 DEF lhdType, Io, Err
<1>4. io'[t].err = "EFAULT" /\ io'[t].len = io[t].len /\ io'[t].rw = io[t].rw
      /\ io'[t].sector = io[t].sector
  BY <1>1, <1>2, TypeFacts DEF lhdType, Io
<1>5. lhdType'
  BY <1>1, <1>2, <1>3 DEF lhdType, Place
<1>6. OthersStay(t) /\ lpc'[t] = "return"
  BY <1>1, <1>2 DEF lhdType, OthersStay
<1>7. Own(t)'
  <2>1. /\ uio[t].left = io[t].len - io[t].i /\ io[t].i < io[t].len
        /\ io[t].len <= Len(uio[t].data)
    BY <1>1, TypeFacts DEF Own, Loop, Holding
  <2> QED
    BY <1>1, <1>4, <1>6, <2>1, TypeFacts, LhdAssumption DEF Own, Loop, Holding
<1>8. Card(t)' /\ lpc'[t] \notin Holding
  BY <1>6 DEF Card, Holding
<1>9. Quiet'
  BY <1>1, <1>2 DEF Quiet
<1>10. LInv'
  BY <1>2, <1>5, <1>6, <1>7, <1>8, <1>9, Inside
<1>11. AbstractCall' = AbstractCall
  <2>1. AbstractCall'[t] = AbstractCall[t]
    BY <1>1, <1>4, <1>6 DEF AbstractCall
  <2> QED
    BY <1>6, <2>1, Stutter
<1> QED
  BY <1>1, <1>10, <1>11 DEF Refines

LEMMA SetSectorStep ==
  ASSUME LInv, NEW t \in Thread, SetSector(t)
  PROVE  LInv' /\ Refines
<1>1. /\ lpc[t] = "sect" /\ reg_sect' = io[t].sector + io[t].i
      /\ lpc' = [lpc EXCEPT ![t] = "start"]
      /\ UNCHANGED <<io, uio, tries, lh_clear, lh_done, lh_result, lh_buf, reg_stat, irq,
                     saved, platter, moved>>
  BY DEF SetSector, lhdGoto
<1>2. lhdType /\ lh_clear = 0 /\ Quiet /\ \A u \in Thread : u # t => lpc[u] \notin Holding
  BY <1>1, Alone DEF LInv, Holding
<1>3. reg_sect' \in Nat
  BY <1>1, TypeFacts
<1>4. lhdType'
  BY <1>1, <1>2, <1>3 DEF lhdType, Place
<1>5. OthersStay(t) /\ lpc'[t] = "start"
  BY <1>1, <1>2 DEF lhdType, OthersStay
<1>6. Own(t)'
  BY <1>1, <1>5, TypeFacts DEF Own, Loop, Holding, LeftToMove
<1>7. Card(t)' /\ Quiet'
  BY <1>1, <1>2, <1>5, TypeFacts DEF Card, OutgoingData, Quiet
<1>8. LInv'
  BY <1>1, <1>2, <1>4, <1>5, <1>6, <1>7, Inside
<1>9. AbstractCall' = AbstractCall
  <2>1. AbstractCall'[t] = AbstractCall[t]
    BY <1>1, <1>5 DEF AbstractCall
  <2> QED
    BY <1>5, <2>1, Stutter
<1> QED
  BY <1>1, <1>8, <1>9 DEF Refines

LEMMA StartStep ==
  ASSUME LInv, NEW t \in Thread, Start(t)
  PROVE  LInv' /\ Refines
<1>1. /\ lpc[t] = "start" /\ reg_stat' = io[t].rw
      /\ lpc' = [lpc EXCEPT ![t] = "P_done"]
      /\ UNCHANGED <<io, uio, tries, lh_clear, lh_done, lh_result, lh_buf, reg_sect, irq,
                     saved, platter, moved>>
  BY DEF Start, lhdGoto
<1>2. lhdType /\ lh_clear = 0 /\ Quiet /\ \A u \in Thread : u # t => lpc[u] \notin Holding
  BY <1>1, Alone DEF LInv, Holding
<1>3. reg_stat' \in {"read", "write"}
  BY <1>1, TypeFacts
<1>4. lhdType'
  BY <1>1, <1>2, <1>3 DEF lhdType, Place
<1>5. OthersStay(t) /\ lpc'[t] = "P_done"
  BY <1>1, <1>2 DEF lhdType, OthersStay
<1>6. Own(t)'
  BY <1>1, <1>5, TypeFacts DEF Own, Loop, Holding, LeftToMove
<1>7. Card(t)'
  <2>1. Phase(t)'
    BY <1>1, <1>2, TypeFacts DEF Card, Own, Phase, NotMoved, OutgoingData, Quiet
  <2> QED
    BY <1>1, <1>5, <2>1, TypeFacts DEF Card
<1>8. LInv'
  BY <1>1, <1>2, <1>4, <1>5, <1>6, <1>7, Inside
<1>9. AbstractCall' = AbstractCall
  <2>1. AbstractCall'[t] = AbstractCall[t]
    BY <1>1, <1>5 DEF AbstractCall
  <2> QED
    BY <1>5, <2>1, Stutter
<1> QED
  BY <1>1, <1>8, <1>9 DEF Refines

LEMMA P_doneStep ==
  ASSUME LInv, NEW t \in Thread, P_done(t)
  PROVE  LInv' /\ Refines
<1>1. /\ lpc[t] = "P_done" /\ lh_done > 0 /\ lh_done' = lh_done - 1
      /\ lpc' = [lpc EXCEPT ![t] = "result"]
      /\ UNCHANGED <<io, uio, tries, lh_clear, lh_result, lh_buf, reg_sect, reg_stat, irq,
                     saved, platter, moved>>
  BY DEF P_done, lhdGoto, card
<1>2. lhdType /\ lh_clear = 0 /\ \A u \in Thread : u # t => lpc[u] \notin Holding
  BY <1>1, Alone DEF LInv, Holding
<1>3. lh_done = 1 /\ lh_done' = 0
  BY <1>1, <1>2 DEF lhdType
<1>4. lhdType'
  BY <1>1, <1>2, <1>3 DEF lhdType, Place
<1>5. OthersStay(t) /\ lpc'[t] = "result"
  BY <1>1, <1>2 DEF lhdType, OthersStay
<1>6. Own(t)'
  BY <1>1, <1>5, TypeFacts DEF Own, Loop, Holding, LeftToMove
<1>7. Phase(t) /\ reg_sect = io[t].sector + io[t].i
  BY <1>1, TypeFacts DEF Card
<1>8. /\ reg_stat = "idle" /\ irq = "no" /\ ~saved
      /\ IF lh_result = "OK" THEN Moved(t) ELSE NotMoved(t)
  BY <1>3, <1>7 DEF Phase
<1>9. Card(t)' /\ Quiet'
  BY <1>1, <1>3, <1>5, <1>7, <1>8 DEF Card, Quiet, Moved, NotMoved
<1>10. LInv'
  BY <1>1, <1>2, <1>4, <1>5, <1>6, <1>9, Inside
<1>11. AbstractCall' = AbstractCall
  <2>1. AbstractCall'[t] = AbstractCall[t]
    BY <1>1, <1>5 DEF AbstractCall
  <2> QED
    BY <1>5, <2>1, Stutter
<1> QED
  BY <1>1, <1>10, <1>11 DEF Refines

LEMMA V_clearStep ==
  ASSUME LInv, NEW t \in Thread, V_clear(t)
  PROVE  LInv' /\ Refines
<1> DEFINE last == io[t].err # BUSY \/ io[t].i + 1 = io[t].len
           j == IF last THEN io[t].i ELSE io[t].i + 1
           label == IF last THEN "return" ELSE "P_clear"
<1>1. /\ lpc[t] = "V_clear" /\ lh_clear' = lh_clear + 1
      /\ io' = [io EXCEPT ![t].i = j]
      /\ lpc' = [lpc EXCEPT ![t] = label]
      /\ UNCHANGED <<uio, tries, lh_done, lh_result, lh_buf, reg_sect, reg_stat, irq,
                     saved, platter, moved>>
  BY DEF V_clear, lhdGoto, card
<1>2. lhdType /\ lh_clear = 0 /\ Quiet /\ \A u \in Thread : u # t => lpc[u] \notin Holding
  BY <1>1, Alone DEF LInv, Holding
<1>3. io' \in [Thread -> Io]
  <2>1. j \in Nat
    BY TypeFacts
  <2> QED
    BY <1>1, <1>2, <2>1 DEF lhdType, Io
<1>4. /\ io'[t].i = j /\ io'[t].len = io[t].len /\ io'[t].rw = io[t].rw
      /\ io'[t].sector = io[t].sector /\ io'[t].err = io[t].err
  BY <1>1, <1>2, TypeFacts DEF lhdType, Io
<1>5. lhdType'
  BY <1>1, <1>2, <1>3 DEF lhdType, Place
<1>6. OthersStay(t) /\ lpc'[t] = label
  BY <1>1, <1>2 DEF lhdType, OthersStay
<1>7. /\ io[t].sector + io[t].len <= Sectors /\ io[t].i < io[t].len
      /\ io[t].len <= Len(uio[t].data) /\ uio[t].left <= io[t].len
      /\ io[t].err \in {BUSY, "EIO", "EFAULT"}
      /\ io[t].err = BUSY => moved[t] = io[t].i + 1 /\ uio[t].left = io[t].len - io[t].i - 1
  BY <1>1, TypeFacts DEF Own, Loop, Holding
<1>8. Own(t)'
  <2>1. CASE last
    BY <1>1, <1>4, <1>6, <1>7, <2>1, TypeFacts, LhdAssumption DEF Own, Loop, Holding
  <2>2. CASE ~last
    BY <1>1, <1>4, <1>6, <1>7, <2>2, TypeFacts, LhdAssumption DEF Own, Loop, Holding
  <2> QED
    BY <2>1, <2>2
<1>9. Card(t)' /\ lpc'[t] \notin Holding /\ Quiet'
  BY <1>1, <1>2, <1>6 DEF Card, Holding, Quiet
<1>10. LInv'
  BY <1>2, <1>5, <1>6, <1>8, <1>9, Inside
<1>11. AbstractCall' = AbstractCall
  <2>1. AbstractCall'[t] = AbstractCall[t]
    BY <1>1, <1>4, <1>6 DEF AbstractCall
  <2> QED
    BY <1>6, <2>1, Stutter
<1> QED
  BY <1>1, <1>10, <1>11 DEF Refines

\* A call moves one sector further, with and without data arriving.
Further(f, t) == [f EXCEPT ![t].moved = @ + 1]
FurtherWith(f, t, k, v) == [f EXCEPT ![t].moved = @ + 1, ![t].data[k] = v]

Transfer(rw, sector, data, m, err) ==
  [rw |-> rw, sector |-> sector, data |-> data, moved |-> m, err |-> err]

Put(s, k, v) == [s EXCEPT ![k] = v]

LEMMA FurtherCall ==
  ASSUME NEW f, NEW t \in DOMAIN f, NEW rw, NEW sector, NEW data, NEW m, NEW err,
         f[t] = Transfer(rw, sector, data, m, err)
  PROVE  Further(f, t) = [f EXCEPT ![t] = Transfer(rw, sector, data, m + 1, err)]
<1> DEFINE c == Transfer(rw, sector, data, m, err)
<1>1. [c EXCEPT !.moved = c.moved + 1] = Transfer(rw, sector, data, m + 1, err)
  BY DEF Transfer
<1> QED
  BY <1>1 DEF Further

LEMMA FurtherCallWith ==
  ASSUME NEW f, NEW t \in DOMAIN f, NEW rw, NEW sector, NEW data, NEW m, NEW err, NEW k, NEW v,
         NEW e, e = Put(data, k, v), f[t] = Transfer(rw, sector, data, m, err)
  PROVE  FurtherWith(f, t, k, v) = [f EXCEPT ![t] = Transfer(rw, sector, e, m + 1, err)]
<1> DEFINE c1 == Transfer(rw, sector, data, m + 1, err)
           c2 == Transfer(rw, sector, e, m + 1, err)
           g == [f EXCEPT ![t].moved = @ + 1]
<1>1. [c1 EXCEPT !.data = [c1.data EXCEPT ![k] = v]] = c2
  BY DEF Transfer, Put
<1>2. g = [f EXCEPT ![t] = c1]
  <2>1. Further(f, t) = [f EXCEPT ![t] = c1]
    BY FurtherCall
  <2> QED
    BY <2>1 DEF Further
<1>3. g[t] = c1 /\ t \in DOMAIN g
  BY <1>2
<1>4. [g EXCEPT ![t].data[k] = v] = [g EXCEPT ![t] = c2]
  <2> HIDE DEF g, c1, c2
  <2> QED
    BY <1>1, <1>3
<1>5. [g EXCEPT ![t] = c2] = [f EXCEPT ![t] = c2]
  <2> HIDE DEF c1, c2
  <2> QED
    BY <1>2
<1> QED
  BY <1>2, <1>4, <1>5 DEF FurtherWith

\* The result of the operation; a sector that was read goes to the caller, which
\* is the step that Disk calls moving it.
LEMMA ResultStep ==
  ASSUME LInv, NEW t \in Thread, Result(t)
  PROVE  LInv' /\ Refines
<1> DEFINE k == io[t].i + 1
<1>1. /\ lpc[t] = "result"
      /\ lpc' = [lpc EXCEPT ![t] = "V_clear"]
      /\ UNCHANGED <<tries, lh_clear, lh_done, lh_result, lh_buf, reg_sect, reg_stat, irq,
                     saved, platter>>
  BY DEF Result, lhdGoto, card
<1>2. lhdType /\ lh_clear = 0 /\ Quiet /\ \A u \in Thread : u # t => lpc[u] \notin Holding
  BY <1>1, Alone DEF LInv, Holding
<1>3. /\ io[t].sector + io[t].len <= Sectors /\ io[t].i < io[t].len
      /\ io[t].len <= Len(uio[t].data) /\ io[t].err = BUSY
      /\ uio[t].left = LeftToMove(t)
  BY <1>1, TypeFacts DEF Own, Loop, Holding
<1>4. /\ reg_sect = io[t].sector + io[t].i
      /\ IF lh_result = "OK" THEN Moved(t) ELSE NotMoved(t)
  BY <1>1, TypeFacts DEF Card
<1>5. lpc'[t] = "V_clear" /\ \A u \in Thread : u # t => lpc'[u] = lpc[u]
  BY <1>1, <1>2 DEF lhdType
<1>6. Card(t)' /\ Quiet' /\ lpc'[t] # "P_done" /\ lpc' \in [Thread -> Place] /\ lh_clear' = 0
  BY <1>1, <1>2, <1>5 DEF Card, Quiet, lhdType, Place
<1>7. CASE /\ lh_result = "OK" /\ io[t].rw = "read"
           /\ uio' = [uio EXCEPT ![t].left = @ - 1, ![t].data[k] = lh_buf]
           /\ moved' = [moved EXCEPT ![t] = @ + 1]
           /\ UNCHANGED io
  <2> DEFINE d == [uio[t].data EXCEPT ![k] = lh_buf]
             n == io[t].len
  <2>1. /\ k \in 1 .. n /\ n \in Nat /\ lh_buf \in Value /\ uio[t].data \in Seq(Value)
        /\ uio[t].left = n - io[t].i /\ uio[t].left - 1 \in Nat
        /\ moved[t] = io[t].i /\ lh_buf = platter[reg_sect]
    <3>1. uio[t].left = n - io[t].i /\ moved[t] = io[t].i /\ lh_buf = platter[reg_sect]
      BY <1>3, <1>4, <1>7 DEF LeftToMove, Moved
    <3>2. n \in Nat /\ io[t].i \in Nat /\ io[t].i < n
      BY <1>3, TypeFacts
    <3>3. k \in 1 .. n /\ uio[t].left - 1 \in Nat
      BY <3>1, <3>2
    <3> QED
      BY <1>2, <3>1, <3>2, <3>3, TypeFacts DEF lhdType
  <2>2. /\ d \in Seq(Value) /\ Len(d) = Len(uio[t].data)
        /\ SubSeq(d, 1, n) = [SubSeq(uio[t].data, 1, n) EXCEPT ![k] = lh_buf]
    <3>1. n <= Len(uio[t].data)
      BY <1>3
    <3> HIDE DEF n, k
    <3> QED
      BY <2>1, <3>1, PrefixUpdate
  <2>3. uio' \in [Thread -> Uio] /\ uio'[t].left = uio[t].left - 1 /\ uio'[t].data = d
        /\ \A u \in Thread : u # t => uio'[u] = uio[u]
    <3> DEFINE b == [uio[t] EXCEPT !.left = uio[t].left - 1, !.data = d]
    <3>1. uio' = [uio EXCEPT ![t] = b]
      BY <1>2, <1>7, TypeFacts DEF lhdType, Uio
    <3> HIDE DEF d
    <3>2. b \in Uio /\ b.left = uio[t].left - 1 /\ b.data = d
      BY <2>1, <2>2, TypeFacts DEF Uio
    <3> HIDE DEF b
    <3> QED
      BY <1>2, <3>1, <3>2 DEF lhdType
  <2> HIDE DEF d
  <2>4. /\ moved' \in [Thread -> Nat] /\ moved'[t] = moved[t] + 1
        /\ \A u \in Thread : u # t => moved'[u] = moved[u]
    BY <1>2, <1>7 DEF lhdType
  <2>5. lhdType'
    BY <1>1, <1>2, <1>6, <1>7, <2>3, <2>4 DEF lhdType
  <2>6. OthersStay(t)
    BY <1>5, <1>7, <2>3, <2>4 DEF OthersStay
  <2>7. Own(t)'
    <3>1. /\ io' = io /\ uio'[t].left = n - io[t].i - 1 /\ Len(uio'[t].data) = Len(uio[t].data)
          /\ moved'[t] = io[t].i + 1 /\ uio'[t].left <= n
      <4>1. n \in Nat /\ io[t].i \in Nat
        BY TypeFacts
      <4> HIDE DEF n
      <4> QED
        BY <1>7, <2>1, <2>2, <2>3, <2>4, <4>1
    <3> QED
      BY <1>3, <1>5, <3>1, LhdAssumption DEF Own, Loop, Holding
  <2>8. LInv'
    BY <1>2, <1>6, <2>5, <2>6, <2>7, Inside
  <2>9. D!Move(t)
    <3> DEFINE c == AbstractCall[t]
    <3>1. c = [rw |-> "read", sector |-> io[t].sector, data |-> SubSeq(uio[t].data, 1, n),
               moved |-> io[t].i, err |-> BUSY]
      BY <1>1, <1>7, <2>1 DEF AbstractCall
    <3>2. AbstractCall'[t] = [rw |-> "read", sector |-> io[t].sector, data |-> SubSeq(d, 1, n),
                              moved |-> io[t].i + 1, err |-> BUSY]
      BY <1>5, <1>7, <2>1, <2>3, <2>4 DEF AbstractCall
    <3>4. AbstractCall' = [AbstractCall EXCEPT ![t] = AbstractCall'[t]]
      BY <2>6, AbstractFrame
    <3>5. t \in DOMAIN AbstractCall
      BY DEF AbstractCall
    <3>6. AbstractCall' = [AbstractCall EXCEPT ![t].moved = @ + 1,
                                               ![t].data[c.moved + 1] = platter[c.sector + c.moved]]
      <4>1. c.moved = io[t].i /\ c.sector = io[t].sector
        BY <3>1
      <4>2. platter[c.sector + c.moved] = lh_buf
        BY <1>4, <2>1, <4>1
      <4>3. /\ AbstractCall[t] = Transfer("read", io[t].sector, SubSeq(uio[t].data, 1, n), io[t].i, BUSY)
            /\ AbstractCall'[t] = Transfer("read", io[t].sector, SubSeq(d, 1, n), io[t].i + 1, BUSY)
        BY <3>1, <3>2 DEF Transfer
      <4> HIDE DEF c, n, k, d
      <4>4. FurtherWith(AbstractCall, t, k, lh_buf)
             = [AbstractCall EXCEPT
                  ![t] = Transfer("read", io[t].sector, SubSeq(d, 1, n), io[t].i + 1, BUSY)]
        <5>1. SubSeq(d, 1, n) = Put(SubSeq(uio[t].data, 1, n), k, lh_buf)
          BY <2>2 DEF Put
        <5>2. AbstractCall[t] = Transfer("read", io[t].sector, SubSeq(uio[t].data, 1, n), io[t].i, BUSY)
          BY <4>3
        <5> DEFINE q == SubSeq(uio[t].data, 1, n)
                   e == SubSeq(d, 1, n)
                   f == AbstractCall
        <5> HIDE DEF q, e, f
        <5>3. /\ f[t] = Transfer("read", io[t].sector, q, io[t].i, BUSY)
              /\ e = Put(q, k, lh_buf) /\ t \in DOMAIN f
          BY <3>5, <5>1, <5>2 DEF q, e, f
        <5>4. FurtherWith(f, t, k, lh_buf)
                = [f EXCEPT ![t] = Transfer("read", io[t].sector, e, io[t].i + 1, BUSY)]
          BY <5>3, FurtherCallWith
        <5> QED
          BY <5>4 DEF f, e
      <4>5. k = c.moved + 1
        BY <4>1 DEF k
      <4>6. AbstractCall' = [AbstractCall EXCEPT ![t].moved = @ + 1, ![t].data[k] = lh_buf]
        BY <3>4, <4>3, <4>4 DEF FurtherWith
      <4> QED
        BY <4>2, <4>5, <4>6
    <3>7. Len(SubSeq(uio[t].data, 1, n)) = n
      BY <1>3, <2>1, Prefix
    <3>8. c.err = BUSY /\ c.moved < Len(c.data) /\ c.sector + c.moved < Sectors /\ c.rw = "read"
      BY <1>3, <3>1, <3>7, TypeFacts
    <3> QED
      BY <1>1, <3>6, <3>8 DEF D!Move
  <2> QED
    BY <2>8, <2>9 DEF Refines, D!Next
<1>8. ASSUME NEW e \in {BUSY, "EIO", "EFAULT"}, io' = [io EXCEPT ![t].err = e],
             UNCHANGED <<uio, moved>>, e = BUSY => lh_result = "OK" /\ io[t].rw = "write"
      PROVE  LInv' /\ Refines
  <2>1. io' \in [Thread -> Io]
    BY <1>2, <1>8 DEF lhdType, Io, Err
  <2>2. /\ io'[t].i = io[t].i /\ io'[t].len = io[t].len /\ io'[t].rw = io[t].rw
        /\ io'[t].sector = io[t].sector /\ io'[t].err = e
    BY <1>2, <1>8, TypeFacts DEF lhdType, Io
  <2>3. lhdType'
    BY <1>1, <1>2, <1>6, <1>8, <2>1 DEF lhdType
  <2>4. OthersStay(t)
    BY <1>2, <1>5, <1>8 DEF OthersStay, lhdType
  <2>5. uio[t].left <= io[t].len
    BY <1>3, TypeFacts DEF LeftToMove
  <2>6. e = BUSY => moved[t] = io[t].i + 1 /\ uio[t].left = io[t].len - io[t].i - 1
    BY <1>3, <1>4, <1>8 DEF Moved, LeftToMove
  <2>7. Own(t)'
    BY <1>3, <1>5, <1>8, <2>2, <2>5, <2>6, LhdAssumption DEF Own, Loop, Holding
  <2>8. LInv'
    BY <1>2, <1>6, <2>3, <2>4, <2>7, Inside
  <2>9. AbstractCall' = AbstractCall
    <3>1. AbstractCall'[t] = AbstractCall[t]
      BY <1>1, <1>5, <1>8, <2>2 DEF AbstractCall
    <3> QED
      BY <2>4, <3>1, Stutter
  <2> QED
    BY <1>1, <2>8, <2>9 DEF Refines
<1>9. CASE ~(lh_result = "OK" /\ io[t].rw = "read")
  <2> DEFINE e == IF lh_result = "OK" THEN BUSY ELSE lh_result
  <2>1. io' = [io EXCEPT ![t].err = e] /\ UNCHANGED <<uio, moved>>
    BY <1>9 DEF Result
  <2>2. e \in {BUSY, "EIO", "EFAULT"} /\ (e = BUSY => lh_result = "OK" /\ io[t].rw = "write")
    BY <1>2, <1>9, TypeFacts, LhdAssumption DEF lhdType
  <2> HIDE DEF e
  <2> QED
    BY <1>8, <2>1, <2>2
<1>10. CASE /\ io' = [io EXCEPT ![t].err = "EFAULT"]
            /\ UNCHANGED <<uio, moved>>
  BY <1>8, <1>10, LhdAssumption
<1> QED
  BY <1>7, <1>9, <1>10 DEF Result

-----------------------------------------------------------------------------
(* The disk and the interrupt handler *)

\* When the card is not quiet a thread waits for it.
LEMMA Waiter ==
  ASSUME LInv, ~Quiet
  PROVE  \E t \in Thread : /\ lpc[t] = "P_done" /\ lh_clear = 0 /\ Phase(t) /\ lhdType
                           /\ reg_sect = io[t].sector + io[t].i
                           /\ \A u \in Thread : u # t => lpc[u] \notin Holding
<1>1. PICK t \in Thread : lpc[t] = "P_done"
  BY DEF LInv
<1> QED
  BY <1>1, TypeFacts, Alone DEF Card, LInv, Holding

LEMMA DiskWorksStep ==
  ASSUME LInv, DiskWorks
  PROVE  LInv' /\ Refines
<1>1. /\ reg_stat \in {"read", "write"}
      /\ UNCHANGED <<lpc, io, uio, tries, lh_clear, lh_done, lh_result, reg_sect, irq, saved>>
  BY DEF DiskWorks, threadVars
<1>2. PICK t \in Thread : /\ lpc[t] = "P_done" /\ lh_clear = 0 /\ Phase(t) /\ lhdType
                          /\ reg_sect = io[t].sector + io[t].i
                          /\ \A u \in Thread : u # t => lpc[u] \notin Holding
  BY <1>1, Waiter DEF Quiet
<1>3. /\ reg_stat = io[t].rw /\ irq = "no" /\ ~saved /\ lh_done = 0
      /\ NotMoved(t) /\ OutgoingData(t)
  BY <1>1, <1>2 DEF Phase
<1>4. /\ io[t].sector + io[t].len <= Sectors /\ io[t].i < io[t].len
      /\ io[t].len <= Len(uio[t].data) /\ io[t].err = BUSY
      /\ uio[t].left = LeftToMove(t)
  BY <1>2, TypeFacts DEF Own, Loop, Holding
<1>5. reg_sect \in Disc /\ platter[reg_sect] \in Value
  <2>1. reg_sect \in Disc
    BY <1>2, <1>4, TypeFacts DEF Disc
  <2> QED
    BY <1>2, <2>1 DEF lhdType
<1>6. Waiting = {t}
  BY <1>2 DEF Waiting, Holding
<1>7. CASE reg_stat = "write" /\ reg_stat' = "ok"
  <2>1. /\ lh_buf' = lh_buf /\ platter' = [platter EXCEPT ![reg_sect] = lh_buf]
        /\ moved' = [u \in Thread |-> IF u = t THEN moved[u] + 1 ELSE moved[u]]
    BY <1>6, <1>7 DEF DiskWorks
  <2>2. lhdType'
    BY <1>1, <1>2, <1>5, <1>7, <2>1 DEF lhdType
  <2>3. OthersStay(t) /\ moved'[t] = moved[t] + 1
    BY <1>1, <2>1 DEF OthersStay
  <2>4. Own(t)'
    BY <1>1, <1>2, TypeFacts DEF Own, Loop, Holding, LeftToMove
  <2>5. Card(t)'
    BY <1>1, <1>2, <1>3, <1>7, <2>3 DEF Card, Phase, Outcome, Moved, NotMoved
  <2>6. LInv'
    BY <1>1, <1>2, <2>2, <2>3, <2>4, <2>5, Inside
  <2>7. D!Move(t)
    <3> DEFINE c == AbstractCall[t]
               n == io[t].len
    <3>1. c = [rw |-> "write", sector |-> io[t].sector, data |-> SubSeq(uio[t].data, 1, n),
               moved |-> io[t].i, err |-> BUSY]
      BY <1>2, <1>3, <1>7 DEF AbstractCall, NotMoved
    <3>2. AbstractCall'[t] = [rw |-> "write", sector |-> io[t].sector,
                              data |-> SubSeq(uio[t].data, 1, n), moved |-> io[t].i + 1, err |-> BUSY]
      BY <1>1, <1>2, <1>3, <1>7, <2>3 DEF AbstractCall, NotMoved
    <3>4. AbstractCall' = [AbstractCall EXCEPT ![t] = AbstractCall'[t]]
      BY <2>3, AbstractFrame
    <3>5. t \in DOMAIN AbstractCall
      BY DEF AbstractCall
    <3>6. AbstractCall' = [AbstractCall EXCEPT ![t].moved = @ + 1]
      <4>1. /\ AbstractCall[t] = Transfer("write", io[t].sector, SubSeq(uio[t].data, 1, n), io[t].i, BUSY)
            /\ AbstractCall'[t]
                = Transfer("write", io[t].sector, SubSeq(uio[t].data, 1, n), io[t].i + 1, BUSY)
        BY <3>1, <3>2 DEF Transfer
      <4> HIDE DEF c, n
      <4>2. Further(AbstractCall, t)
             = [AbstractCall EXCEPT
                  ![t] = Transfer("write", io[t].sector, SubSeq(uio[t].data, 1, n), io[t].i + 1, BUSY)]
        BY <3>5, <4>1, FurtherCall
      <4> QED
        BY <3>4, <4>1, <4>2 DEF Further
    <3>7. n \in Nat /\ io[t].i \in Nat /\ uio[t].data \in Seq(Value) /\ Len(uio[t].data) \in Nat
          /\ io[t].sector \in Nat
      BY TypeFacts
    <3>8. /\ Len(SubSeq(uio[t].data, 1, n)) = n
          /\ \A j \in 1 .. n : SubSeq(uio[t].data, 1, n)[j] = uio[t].data[j]
      BY <1>4, <3>7, Prefix
    <3>9. io[t].i + 1 \in 1 .. n
      BY <1>4, <3>7
    <3>10. c.data[c.moved + 1] = lh_buf
      <4>1. c.data = SubSeq(uio[t].data, 1, n) /\ c.moved = io[t].i
        <5> HIDE DEF c, n
        <5> QED
          BY <3>1
      <4>2. lh_buf = uio[t].data[io[t].i + 1]
        BY <1>3, <1>7 DEF OutgoingData
      <4>3. SubSeq(uio[t].data, 1, n)[io[t].i + 1] = uio[t].data[io[t].i + 1]
        BY <3>8, <3>9, Zenon
      <4> HIDE DEF c, n
      <4> QED
        BY <4>1, <4>2, <4>3, Zenon
    <3>11. /\ c.err = BUSY /\ c.moved < Len(c.data) /\ c.sector + c.moved < Sectors
           /\ c.rw = "write" /\ c.sector + c.moved = reg_sect
      BY <1>2, <1>4, <3>1, <3>7, <3>8, LhdAssumption
    <3> QED
      BY <2>1, <3>6, <3>10, <3>11 DEF D!Move
  <2> QED
    BY <2>6, <2>7 DEF Refines, D!Next
<1>8. CASE ~(reg_stat = "write" /\ reg_stat' = "ok")
  <2>1. /\ platter' = platter /\ reg_stat' \in {"ok", "media"}
        /\ lh_buf' = IF reg_stat' = "ok" THEN platter[reg_sect] ELSE lh_buf
        /\ \A u \in Thread : moved'[u] = moved[u]
        /\ moved' \in [Thread -> Nat]
        /\ reg_stat' = "ok" => reg_stat = "read"
    BY <1>1, <1>2, <1>8 DEF DiskWorks, lhdType
  <2>2. lhdType'
    BY <1>1, <1>2, <1>5, <2>1 DEF lhdType
  <2>3. OthersStay(t)
    BY <1>1, <2>1 DEF OthersStay
  <2>4. Own(t)'
    BY <1>1, <1>2, <2>1, TypeFacts, OwnFrame
  <2>5. Card(t)'
    BY <1>1, <1>2, <1>3, <2>1 DEF Card, Phase, Outcome, Moved, NotMoved
  <2>6. LInv'
    BY <1>1, <1>2, <2>2, <2>3, <2>4, <2>5, Inside
  <2>7. AbstractCall' = AbstractCall
    BY <1>1, <2>1 DEF AbstractCall
  <2> QED
    BY <2>1, <2>6, <2>7 DEF Refines
<1> QED
  BY <1>7, <1>8

LEMMA HandlerStep ==
  ASSUME LInv, lhd_irq \/ SaveResult \/ PostDone
  PROVE  LInv' /\ Refines
<1>1. UNCHANGED <<lpc, io, uio, tries, lh_clear, lh_buf, reg_sect, platter, moved>>
  BY DEF lhd_irq, SaveResult, PostDone, threadVars
<1>2. ~Quiet
  BY DEF lhd_irq, SaveResult, PostDone, Quiet
<1>3. PICK t \in Thread : /\ lpc[t] = "P_done" /\ lh_clear = 0 /\ Phase(t) /\ lhdType
                          /\ reg_sect = io[t].sector + io[t].i
                          /\ \A u \in Thread : u # t => lpc[u] \notin Holding
  BY <1>2, Waiter
<1>4. lhdType' /\ Phase(t)'
  <2>1. CASE lhd_irq
    <3>1. /\ irq = "no" /\ reg_stat \in {"ok", "media"} /\ irq' = reg_stat /\ reg_stat' = "idle"
          /\ UNCHANGED <<lh_done, lh_result, saved>>
      BY <2>1 DEF lhd_irq
    <3>2. ~saved /\ lh_done = 0 /\ Outcome(t, reg_stat)
      BY <1>3, <3>1, TypeFacts DEF Phase
    <3>3. lhdType'
      BY <1>1, <1>3, <3>1 DEF lhdType
    <3>4. Phase(t)'
      BY <1>1, <3>1, <3>2 DEF Phase, Outcome, Moved, NotMoved
    <3> QED
      BY <3>3, <3>4
  <2>2. CASE SaveResult
    <3>1. /\ irq # "no" /\ ~saved /\ lh_result' = lhd_code_to_errno(irq) /\ saved' = TRUE
          /\ UNCHANGED <<lh_done, reg_stat, irq>>
      BY <2>2 DEF SaveResult
    <3>2. reg_stat = "idle" /\ irq \in {"ok", "media"} /\ lh_done = 0 /\ Outcome(t, irq)
      BY <1>3, <3>1 DEF Phase
    <3>3. lh_result' \in {"OK", "EIO"}
      BY <3>1, <3>2 DEF lhd_code_to_errno
    <3>4. lhdType'
      BY <1>1, <1>3, <3>1, <3>3 DEF lhdType
    <3>5. Phase(t)'
      BY <1>1, <3>1, <3>2 DEF Phase, Outcome, Moved, NotMoved
    <3> QED
      BY <3>4, <3>5
  <2>3. CASE PostDone
    <3>1. /\ irq # "no" /\ saved /\ lh_done' = lh_done + 1 /\ irq' = "no" /\ saved' = FALSE
          /\ UNCHANGED <<lh_result, reg_stat>>
      BY <2>3 DEF PostDone
    <3>2. /\ reg_stat = "idle" /\ irq \in {"ok", "media"} /\ lh_done = 0 /\ Outcome(t, irq)
          /\ lh_result = lhd_code_to_errno(irq)
      BY <1>3, <3>1 DEF Phase
    <3>3. lh_done' = 1
      BY <3>1, <3>2
    <3>4. lhdType'
      BY <1>1, <1>3, <3>1, <3>3 DEF lhdType
    <3>5. IF lh_result = "OK" THEN Moved(t) ELSE NotMoved(t)
      BY <3>2 DEF Outcome, lhd_code_to_errno
    <3>6. Phase(t)'
      BY <1>1, <3>1, <3>2, <3>3, <3>5 DEF Phase, Moved, NotMoved
    <3> QED
      BY <3>4, <3>6
  <2> QED
    BY <2>1, <2>2, <2>3
<1>5. OthersStay(t) /\ Own(t)' /\ Card(t)'
  <2>1. Own(t)'
    BY <1>1, TypeFacts, OwnFrame
  <2>2. Card(t)'
    BY <1>1, <1>3, <1>4 DEF Card
  <2> QED
    BY <1>1, <2>1, <2>2 DEF OthersStay
<1>6. LInv'
  BY <1>1, <1>3, <1>4, <1>5, Inside
<1>7. AbstractCall' = AbstractCall
  BY <1>1 DEF AbstractCall
<1> QED
  BY <1>1, <1>6, <1>7 DEF Refines

-----------------------------------------------------------------------------

LEMMA lhdInitInv == lhdInit => LInv /\ D!Init
<1> SUFFICES ASSUME lhdInit PROVE LInv /\ D!Init
  OBVIOUS
<1>1. NoCall("OK") \in Io /\ NoUio \in Uio /\ NoCall("OK").err = "OK"
  BY DEF NoCall, NoUio, Io, Uio, Err
<1>2. lhdType
  BY <1>1, LhdAssumption DEF lhdInit, lhdType, Place, Disc
<1>3. Mutex /\ Quiet /\ \A t \in Thread : lpc[t] = "out" /\ io[t].err = "OK"
  BY <1>1 DEF lhdInit, Mutex, Quiet, Holding
<1>4. \A t \in Thread : Own(t) /\ Card(t)
  BY <1>3, LhdAssumption DEF Own, Card, Loop, Holding
<1>5. AbstractCall = [t \in Thread |-> D!Idle("OK")]
  BY <1>3 DEF AbstractCall, NoTransfer, D!Idle
<1>6. platter \in [0 .. Sectors - 1 -> Value]
  BY <1>2 DEF lhdType, Disc
<1> QED
  BY <1>2, <1>3, <1>4, <1>5, <1>6 DEF LInv, D!Init

LEMMA lhdNextInv == LInv /\ [lhdNext]_lhdVars => LInv' /\ [D!Next]_<<platter, AbstractCall>>
<1> SUFFICES ASSUME LInv, [lhdNext]_lhdVars PROVE LInv' /\ Refines
  BY DEF Refines
<1>1. CASE UNCHANGED lhdVars
  <2>1. LInv'
    BY <1>1 DEF lhdVars, LInv, lhdType, Mutex, Own, LeftToMove, Card, Phase, Outcome, Moved,
               NotMoved, OutgoingData, Quiet
  <2>2. UNCHANGED <<platter, AbstractCall>>
    BY <1>1 DEF lhdVars, AbstractCall
  <2> QED
    BY <2>1, <2>2 DEF Refines
<1>2. ASSUME NEW t \in Thread, RawIo(t) \/ sfs_rwblock(t) \/ lhd_io(t) PROVE LInv' /\ Refines
  BY <1>2, RawIoStep, SfsRwblockStep, P_clearStep, MoveInStep, MoveInFailsStep, SetSectorStep,
     StartStep, P_doneStep, ResultStep, V_clearStep, ReturnStep, RetryStep, SfsReturnsStep
     DEF lhd_io
<1>3. CASE DiskWorks
  BY <1>3, DiskWorksStep
<1>4. CASE lhd_irq \/ lhd_iodone
  BY <1>4, HandlerStep DEF lhd_iodone
<1> QED
  BY <1>1, <1>2, <1>3, <1>4 DEF lhdNext

\* The invariant of the driver: lh_clear is a lock on the card, and the thread
\* that has it knows how far its operation is, from LHD_REG_STAT to lh_done.
THEOREM CardIsExclusive == lhdSpec => []LInv
  BY lhdInitInv, lhdNextInv, PTL DEF lhdSpec

\* lhd_io keeps the promise of d_io: every sector is moved once, in order, with
\* the data of its caller, and success means that all of them were moved.
THEOREM DriverImplementsDisk == lhdSpec => ImplementsDisk
<1>1. lhdInit => D!Init
  BY lhdInitInv
<1>2. LInv /\ [lhdNext]_lhdVars => [D!Next]_<<platter, AbstractCall>>
  BY lhdNextInv
<1> QED
  BY <1>1, <1>2, CardIsExclusive, PTL DEF lhdSpec, ImplementsDisk, D!Spec

-----------------------------------------------------------------------------
(* The console's output *)

ConPlace == {"out", "P_r", "load", "advance", "deliver", "P_w", "send"}
Reading == {"P_r", "load", "advance", "deliver"}
Polls == {"busy", "put", "wait"}

conType ==
  /\ cpc \in [Caller -> ConPlace]
  /\ \A t \in Caller : cpc[t] \in {"P_w", "send"} => t \in Writer
  /\ \A t \in Caller : cpc[t] \in Reading => t \in Reader
  /\ wsem \in Nat
  /\ ls_lock \in {"free", "poll"}
  /\ wbusy \in BOOLEAN /\ sending \in BOOLEAN /\ wirq \in BOOLEAN /\ rirq \in BOOLEAN
  /\ overrun \in BOOLEAN /\ clear_to_write \in BOOLEAN /\ got_a_read \in BOOLEAN
  /\ ppc \in {"out", "lock", "unmask"} \cup Polls
  /\ irqpending \in BOOLEAN

Sends == \E t \in Writer : cpc[t] = "send"

\* The turn to write is in one place.
OneTurn ==
  /\ \A t, u \in Writer : cpc[t] = "send" /\ cpc[u] = "send" => t = u
  /\ wsem + (IF Sends THEN 1 ELSE 0) + (IF wbusy THEN 1 ELSE 0)
     + (IF hpc = "start" /\ clear_to_write THEN 1 ELSE 0) = 1

\* How far the character is that the port was given, by a writer (wbusy) or by
\* polled printing, which has the port's lock from "busy" to "wait".
PortInv ==
  /\ ls_lock = "poll" <=> ppc \in Polls
  /\ ppc \in Polls => irqpending = wbusy
  /\ ppc = "busy" => wbusy
  /\ ~(sending /\ wirq)
  /\ ppc = "put" => ~sending /\ ~wirq
  /\ ppc = "wait" => sending \/ wirq
  /\ ppc \notin {"put", "wait"} => (wbusy <=> sending \/ wirq)
  /\ ~overrun /\ panicked # "not clear to write"

OutInv == conType /\ OneTurn /\ PortInv

outVars == <<wsem, wbusy, ls_lock, sending, wirq, overrun, ppc, irqpending>>

\* A step of a thread that neither gets the turn nor uses it.
LEMMA Moves ==
  ASSUME OutInv, NEW t \in Caller, NEW label \in ConPlace \ {"send"}, cpc[t] # "send",
         cpc' = [cpc EXCEPT ![t] = label],
         label = "P_w" => t \in Writer, label \in Reading => t \in Reader,
         UNCHANGED <<outVars, rirq, clear_to_write, got_a_read, hpc, panicked>>
  PROVE  OutInv'
<1>1. conType'
  BY DEF OutInv, conType, outVars, ConPlace, Reading
<1>2. \A u \in Writer : cpc'[u] = "send" <=> cpc[u] = "send"
  BY DEF OutInv, conType, Caller
<1>3. OneTurn'
  BY <1>2 DEF OutInv, OneTurn, Sends, outVars
<1>4. PortInv'
  BY DEF OutInv, PortInv, outVars
<1> QED
  BY <1>1, <1>3, <1>4 DEF OutInv

\* A step of the bus or the handler that leaves the port alone.
LEMMA Elsewhere ==
  ASSUME OutInv, UNCHANGED <<outVars, cpc>>, rirq' \in BOOLEAN, got_a_read' \in BOOLEAN,
         clear_to_write' \in BOOLEAN, panicked' # "not clear to write",
         (hpc' = "start" /\ clear_to_write') <=> (hpc = "start" /\ clear_to_write)
  PROVE  OutInv'
<1>1. conType'
  BY DEF OutInv, conType, outVars
<1>2. OneTurn'
  BY DEF OutInv, OneTurn, Sends, outVars
<1>3. PortInv'
  BY DEF OutInv, PortInv, outVars
<1> QED
  BY <1>1, <1>2, <1>3 DEF OutInv

LEMMA CallerSteps ==
  ASSUME OutInv, NEW t \in Caller,
         ReadCall(t) \/ WriteCall(t) \/ P_rsem(t) \/ LoadChar(t) \/ AdvanceTail(t) \/ Deliver(t)
  PROVE  OutInv'
<1>1. /\ UNCHANGED <<outVars, rirq, clear_to_write, got_a_read, hpc, panicked>>
      /\ \/ cpc[t] = "out" /\ t \in Reader /\ conGoto(t, "P_r")
         \/ cpc[t] = "out" /\ t \in Writer /\ conGoto(t, "P_w")
         \/ cpc[t] = "P_r" /\ conGoto(t, "load")
         \/ cpc[t] = "load" /\ conGoto(t, "advance")
         \/ cpc[t] = "advance" /\ conGoto(t, "deliver")
         \/ cpc[t] = "deliver" /\ (conGoto(t, "P_r") \/ conGoto(t, "out"))
  BY DEF ReadCall, WriteCall, P_rsem, LoadChar, AdvanceTail, Deliver, outVars, ring, port, bus,
         handler, dispatch, polling
<1>2. cpc[t] \in Reading => t \in Reader
  BY DEF OutInv, conType
<1>3. PICK label \in {"P_r", "P_w", "load", "advance", "deliver", "out"} :
         /\ cpc' = [cpc EXCEPT ![t] = label] /\ cpc[t] # "send"
         /\ label = "P_w" => t \in Writer
         /\ label \in Reading => t \in Reader
  BY <1>1, <1>2 DEF conGoto, Reading
<1> QED
  BY <1>1, <1>3, Moves DEF ConPlace

LEMMA P_wsemStep ==
  ASSUME OutInv, NEW t \in Caller, P_wsem(t)
  PROVE  OutInv'
<1>1. /\ cpc[t] = "P_w" /\ wsem > 0 /\ wsem' = wsem - 1 /\ cpc' = [cpc EXCEPT ![t] = "send"]
      /\ UNCHANGED <<wbusy, ls_lock, sending, wirq, overrun, ppc, irqpending, rirq,
                     clear_to_write, got_a_read, hpc, panicked>>
  BY DEF P_wsem, conGoto, ring, port, bus, handler, dispatch, polling
<1>2. t \in Writer /\ wsem \in Nat
  BY <1>1 DEF OutInv, conType
<1>3. wsem = 1 /\ ~Sends /\ ~wbusy /\ ~(hpc = "start" /\ clear_to_write)
  BY <1>1, <1>2 DEF OutInv, OneTurn
<1>4. \A u \in Writer : cpc'[u] = "send" <=> u = t
  BY <1>1, <1>2, <1>3 DEF OutInv, conType, Sends, Caller
<1>5. Sends' /\ wsem' = 0
  BY <1>1, <1>2, <1>3, <1>4 DEF Sends
<1>6. OneTurn'
  BY <1>1, <1>3, <1>4, <1>5 DEF OneTurn
<1>7. conType'
  BY <1>1, <1>2, <1>5 DEF OutInv, conType, ConPlace, Reading
<1>8. PortInv'
  BY <1>1 DEF OutInv, PortInv
<1> QED
  BY <1>6, <1>7, <1>8 DEF OutInv

LEMMA lser_writeStep ==
  ASSUME OutInv, NEW t \in Caller, lser_write(t)
  PROVE  OutInv'
<1>1. /\ cpc[t] = "send" /\ ls_lock = "free"
      /\ UNCHANGED <<wsem, ls_lock, ppc, irqpending, rirq, clear_to_write, got_a_read, hpc>>
  BY DEF lser_write, ring, port, bus, handler, dispatch, polling
<1>2. t \in Writer /\ wsem \in Nat
  BY <1>1 DEF OutInv, conType
<1>3. wsem = 0 /\ Sends /\ ~wbusy /\ ~(hpc = "start" /\ clear_to_write)
  BY <1>1, <1>2 DEF OutInv, OneTurn, Sends
<1>4. ppc \notin Polls /\ ~sending /\ ~wirq /\ ~overrun
  BY <1>1, <1>3 DEF OutInv, PortInv, Polls
<1>5. /\ wbusy' /\ wbusy' \in BOOLEAN /\ sending' /\ sending' \in BOOLEAN /\ ~overrun'
      /\ overrun' \in BOOLEAN /\ UNCHANGED <<wirq, panicked>>
  BY <1>3, <1>4 DEF lser_write, GiveChar
<1>6. PICK label \in {"P_w", "out"} : cpc' = [cpc EXCEPT ![t] = label]
  BY <1>3 DEF lser_write, conGoto
<1>7. ~Sends'
  BY <1>1, <1>2, <1>6 DEF OutInv, OneTurn, conType, Sends, Caller
<1>8. OneTurn'
  BY <1>1, <1>3, <1>5, <1>7 DEF OneTurn, Sends
<1>9. conType'
  BY <1>1, <1>2, <1>5, <1>6 DEF OutInv, conType, ConPlace, Reading
<1>10. PortInv'
  BY <1>1, <1>4, <1>5 DEF OutInv, PortInv, Polls
<1> QED
  BY <1>8, <1>9, <1>10 DEF OutInv

\* Steps of polled printing and of the port do not move the turn.
LEMMA PollSteps ==
  ASSUME OutInv, lser_startpolling \/ PollStep \/ PortSends
  PROVE  OutInv'
<1>1. UNCHANGED <<cpc, wsem, wbusy, rirq, clear_to_write, got_a_read, hpc, panicked>>
  BY DEF lser_startpolling, PollStep, PollLock, PollReady, PollPut, PollDone, lser_endpolling,
         PortSends, threads, ring, port, bus, handler, dispatch, polling
<1>2. OneTurn'
  BY <1>1 DEF OutInv, OneTurn, Sends
<1>3. CASE lser_startpolling \/ lser_endpolling
  <2>1. /\ UNCHANGED <<ls_lock, sending, wirq, overrun, irqpending>>
        /\ ppc \in {"out", "unmask"} /\ ppc' \in {"out", "lock"}
    BY <1>3 DEF lser_startpolling, lser_endpolling, port
  <2> QED
    BY <1>1, <1>2, <2>1 DEF OutInv, conType, PortInv, Polls
<1>4. CASE PollLock
  <2>1. /\ UNCHANGED <<sending, wirq, overrun>> /\ irqpending' = wbusy /\ ls_lock' = "poll"
        /\ ppc = "lock" /\ ppc' = IF wbusy THEN "busy" ELSE "put"
    BY <1>4 DEF PollLock, port
  <2> QED
    BY <1>1, <1>2, <2>1 DEF OutInv, conType, PortInv, Polls
<1>5. CASE PollReady
  <2>1. /\ UNCHANGED <<ls_lock, sending, overrun, irqpending>> /\ wirq /\ wirq' = FALSE
        /\ ppc = "busy" /\ ppc' = "put"
    BY <1>5 DEF PollReady
  <2> QED
    BY <1>1, <1>2, <2>1 DEF OutInv, conType, PortInv, Polls
<1>6. CASE PollPut
  <2>1. /\ UNCHANGED <<ls_lock, wirq, irqpending>> /\ sending' = TRUE
        /\ overrun' = (overrun \/ sending) /\ ppc = "put" /\ ppc' = "wait"
    BY <1>6 DEF PollPut, GiveChar
  <2> QED
    BY <1>1, <1>2, <2>1 DEF OutInv, conType, PortInv, Polls
<1>7. CASE PollDone
  <2>1. /\ UNCHANGED <<sending, overrun, irqpending>> /\ wirq /\ wirq' = irqpending
        /\ ls_lock' = "free" /\ ppc = "wait" /\ ppc' = "unmask"
    BY <1>7 DEF PollDone
  <2> QED
    BY <1>1, <1>2, <2>1 DEF OutInv, conType, PortInv, Polls
<1>8. CASE PortSends
  <2>1. /\ UNCHANGED <<ls_lock, overrun, irqpending, ppc>> /\ sending /\ sending' = FALSE
        /\ wirq' = TRUE
    BY <1>8 DEF PortSends, polling
  <2> QED
    BY <1>1, <1>2, <2>1 DEF OutInv, conType, PortInv, Polls
<1> QED
  BY <1>3, <1>4, <1>5, <1>6, <1>7, <1>8 DEF PollStep

LEMMA HandlerSteps ==
  ASSUME OutInv, lser_irq \/ con_start
  PROVE  OutInv'
<1>1. UNCHANGED <<cpc, ls_lock, sending, overrun, ppc, irqpending, panicked>>
  BY DEF lser_irq, con_start, threads, ring, port, bus, dispatch, polling
<1>2. CASE lser_irq
  <2>1. /\ hpc = "lser" /\ ls_lock = "free" /\ clear_to_write' = wirq /\ hpc' = "start"
        /\ wbusy' = (wbusy /\ ~wirq) /\ wirq' = FALSE /\ got_a_read' = rirq /\ rirq' = FALSE
        /\ UNCHANGED wsem
    BY <1>2 DEF lser_irq
  <2>2. ppc \notin Polls /\ (wirq => wbusy)
    BY <2>1 DEF OutInv, PortInv, Polls
  <2>3. conType'
    BY <1>1, <2>1 DEF OutInv, conType
  <2>4. OneTurn'
    <3>1. Sends' = Sends /\ ~(hpc = "start" /\ clear_to_write)
      BY <1>1, <2>1 DEF Sends
    <3>2. CASE wirq
      <4>1. wbusy /\ ~wbusy' /\ clear_to_write' /\ hpc' = "start" /\ wsem' = wsem /\ cpc' = cpc
        BY <1>1, <2>1, <2>2, <3>2
      <4>2. wsem \in Nat
        BY DEF OutInv, conType
      <4>3. wsem + (IF Sends THEN 1 ELSE 0) = 0
        BY <3>1, <4>1, <4>2 DEF OutInv, OneTurn
      <4>4. wsem' = 0 /\ ~Sends'
        BY <3>1, <4>1, <4>2, <4>3
      <4> QED
        BY <4>1, <4>4 DEF OneTurn, Sends
    <3>3. CASE ~wirq
      <4>1. wbusy' = wbusy /\ ~clear_to_write' /\ wsem' = wsem /\ cpc' = cpc
        BY <1>1, <2>1, <2>2, <3>3 DEF OutInv, conType
      <4> QED
        BY <3>1, <4>1 DEF OutInv, OneTurn
    <3> QED
      BY <3>2, <3>3
  <2>5. PortInv'
    BY <1>1, <2>1, <2>2 DEF OutInv, PortInv, Polls
  <2> QED
    BY <2>3, <2>4, <2>5 DEF OutInv
<1>3. CASE con_start
  <2>1. /\ hpc = "start" /\ wsem' = (IF clear_to_write THEN wsem + 1 ELSE wsem)
        /\ hpc' \in {"input", "back"} /\ UNCHANGED <<clear_to_write, wbusy, wirq, rirq, got_a_read>>
    BY <1>3 DEF con_start, port
  <2>2. conType'
    BY <1>1, <2>1 DEF OutInv, conType
  <2>3. OneTurn'
    BY <1>1, <2>1 DEF OutInv, OneTurn, Sends, conType
  <2>4. PortInv'
    BY <1>1, <2>1 DEF OutInv, PortInv
  <2> QED
    BY <2>2, <2>3, <2>4 DEF OutInv
<1> QED
  BY <1>2, <1>3

LEMMA BusSteps ==
  ASSUME OutInv,
         PortReceives \/ OtherSlot \/ TakeInterrupt \/ lamebus_interrupt \/ CallHandler
         \/ CountDud \/ Leave \/ con_input \/ InputDone \/ HandlerReturns
  PROVE  OutInv'
<1>1. UNCHANGED <<outVars, cpc, clear_to_write, got_a_read>>
  BY DEF PortReceives, OtherSlot, TakeInterrupt, lamebus_interrupt, CallHandler, CountDud, Leave,
         con_input, InputDone, HandlerReturns, outVars, threads, ring, port, bus, handler,
         dispatch, polling
<1>2. rirq' \in {rirq, TRUE}
  BY DEF PortReceives, OtherSlot, TakeInterrupt, lamebus_interrupt, CallHandler, CountDud, Leave,
         con_input, InputDone, HandlerReturns
<1>3. (hpc' = hpc) \/ (hpc # "start" /\ hpc' # "start")
  BY DEF PortReceives, OtherSlot, TakeInterrupt, lamebus_interrupt, CallHandler, CountDud, Leave,
         con_input, InputDone, HandlerReturns, handler
<1>4. panicked' \in {panicked, "deadlock on bus lock", "too many dud interrupts"}
  BY DEF PortReceives, OtherSlot, TakeInterrupt, lamebus_interrupt, CallHandler, CountDud, Leave,
         con_input, InputDone, HandlerReturns, kprintfLocked
<1>5. panicked # "not clear to write"
  BY DEF OutInv, PortInv
<1>6. rirq \in BOOLEAN /\ got_a_read \in BOOLEAN /\ clear_to_write \in BOOLEAN
  BY DEF OutInv, conType
<1> QED
  BY <1>1, <1>2, <1>3, <1>4, <1>5, <1>6, Elsewhere

LEMMA OutInit == conInit => OutInv
<1> SUFFICES ASSUME conInit PROVE OutInv
  OBVIOUS
<1>1. /\ cpc \in [Caller -> ConPlace]
      /\ \A t \in Caller : cpc[t] \in {"P_w", "out"} /\ (cpc[t] = "P_w" => t \in Writer)
  BY DEF conInit, ConPlace
<1>2. conType
  BY <1>1 DEF conInit, conType, Reading, Polls
<1>3. OneTurn
  <2>1. \A t \in Writer : cpc[t] # "send"
    BY <1>1 DEF Caller
  <2>2. wsem = 1 /\ wbusy = FALSE /\ hpc = "no"
    BY DEF conInit
  <2> QED
    BY <2>1, <2>2 DEF OneTurn, Sends
<1>4. PortInv
  BY DEF conInit, PortInv, Polls
<1> QED
  BY <1>2, <1>3, <1>4 DEF OutInv

LEMMA OutNext == OutInv /\ [conNext]_conVars => OutInv'
<1> SUFFICES ASSUME OutInv, [conNext]_conVars PROVE OutInv'
  OBVIOUS
<1>1. CASE UNCHANGED conVars
  BY <1>1, Elsewhere DEF conVars, outVars, OutInv, conType, PortInv
<1>2. ASSUME NEW t \in Caller, ReadCall(t) \/ WriteCall(t) \/ ThreadStep(t) PROVE OutInv'
  BY <1>2, CallerSteps, P_wsemStep, lser_writeStep DEF ThreadStep
<1>3. CASE lser_startpolling \/ PollStep \/ PortSends
  BY <1>3, PollSteps
<1>4. CASE PortReceives \/ OtherSlot \/ TakeInterrupt \/ IrqStep
  BY <1>4, HandlerSteps, BusSteps DEF IrqStep
<1> QED
  BY <1>1, <1>2, <1>3, <1>4 DEF conNext

\* The turn to write is in one place, and the port's character is accounted for
\* between writers, polled printing and lser_irq.
THEOREM TurnIsInOnePlace == conSpec => []OutInv
  BY OutInit, OutNext, PTL DEF conSpec

\* lser_write, lser_writepolled and lser_irq share the port without harm: no
\* character is lost or overrun, and the turn is neither lost nor doubled.
THEOREM WritersShareThePort == conSpec => []OutputIsKept
<1>1. OutInv => OutputIsKept
  <2> SUFFICES ASSUME OutInv PROVE OutputIsKept
    OBVIOUS
  <2>1. wbusy => sending \/ wirq \/ (irqpending /\ ppc = "put")
    BY DEF OutInv, PortInv, Polls
  <2>2. ~overrun /\ panicked # "not clear to write"
    BY DEF OutInv, PortInv
  <2> QED
    BY <2>1, <2>2 DEF OutInv, OneTurn, Sends, OutputIsKept
<1> QED
  BY <1>1, TurnIsInOnePlace, PTL

-----------------------------------------------------------------------------
(* The console's input *)

RingSlot == 0 .. Ring - 1

\* x % Ring, for what the code takes it of.
Wrap(x) == IF x < Ring THEN x ELSE x - Ring

LEMMA WrapIsMod ==
  /\ Ring \in Nat /\ Ring >= 2
  /\ \A a \in RingSlot : (a + 1) % Ring = Wrap(a + 1) /\ Wrap(a + 1) \in RingSlot
  /\ \A a \in RingSlot, i \in 0 .. Ring - 1 : (a + i) % Ring = Wrap(a + i) /\ Wrap(a + i) \in RingSlot
  /\ \A a, b \in RingSlot : (a - b) % Ring = IF b <= a THEN a - b ELSE a - b + Ring
<1>1. Ring \in Nat /\ Ring >= 2
  BY ConsoleAssumption
<1>2. ASSUME NEW x \in 0 .. 2 * Ring - 1 PROVE x % Ring = Wrap(x) /\ Wrap(x) \in RingSlot
  <2>1. CASE x < Ring
    BY <1>1, <2>1 DEF Wrap, RingSlot
  <2>2. CASE x >= Ring
    BY <1>1, <2>2 DEF Wrap, RingSlot
  <2> QED
    BY <1>1, <2>1, <2>2
<1>3. \A a \in RingSlot, i \in 0 .. Ring - 1 : a + i \in 0 .. 2 * Ring - 1
  BY <1>1 DEF RingSlot
<1>4. \A a \in RingSlot : a + 1 \in 0 .. 2 * Ring - 1
  BY <1>1 DEF RingSlot
<1>5. ASSUME NEW a \in RingSlot, NEW b \in RingSlot
      PROVE  (a - b) % Ring = IF b <= a THEN a - b ELSE a - b + Ring
  <2>1. CASE b <= a
    BY <1>1, <2>1 DEF RingSlot
  <2>2. CASE b > a
    <3> DEFINE d == a - b
    <3>1. d + Ring \in 0 .. Ring - 1 /\ d \in Int
      BY <1>1, <2>2 DEF RingSlot
    <3> HIDE DEF d
    <3>2. d = Ring * (-1) + (d + Ring)
      BY <1>1, <3>1
    <3>3. d % Ring = d + Ring
      BY <1>1, <3>1, <3>2
    <3> QED
      BY <2>2, <3>3 DEF d, RingSlot
  <2> QED
    BY <2>1, <2>2 DEF RingSlot
<1> QED
  BY <1>1, <1>2, <1>3, <1>4, <1>5

LEMMA WrapAgain ==
  ASSUME NEW a \in RingSlot, NEW i \in Nat, i < Ring
  PROVE  /\ i + 1 < Ring => /\ Wrap(Wrap(a + 1) + i) = Wrap(a + (i + 1))
                            /\ Wrap(Wrap(a + i) + 1) = Wrap(a + (i + 1))
         /\ i + 1 = Ring => Wrap(Wrap(a + i) + 1) = a
         /\ \A j \in Nat : j < i => Wrap(a + j) # Wrap(a + i)
<1>1. Ring \in Nat /\ Ring >= 2 /\ a \in Nat /\ a < Ring
  BY WrapIsMod DEF RingSlot
<1> QED
  BY <1>1 DEF Wrap

\* Kernel threads and programs that read the console at the same time are not
\* kept apart: getch_intr runs under no lock.
OneReader == \A a, b \in Reader : a = b

ringType ==
  /\ gotchars \in [RingSlot -> Nat]
  /\ head \in RingSlot /\ tail \in RingSlot
  /\ rsem \in Nat /\ typed \in Nat
  /\ got \in Seq(Nat)
  /\ ret \in [Caller -> Nat]
  /\ at \in [Caller -> RingSlot]

\* There are n characters between the tail and the head, and h more stored.
Content(n, h) ==
  /\ n + h <= Ring - 1
  /\ typed = Len(got) + n + h
  /\ head = Wrap(tail + n)
  /\ \A i \in 1 .. n + h : gotchars[Wrap(tail + i - 1)] = Len(got) + i

InHand == \E t \in Reader : cpc[t] \in {"load", "advance"}

RingInv ==
  /\ \E n \in Nat : Content(n, Held) /\ rsem + (IF InHand THEN 1 ELSE 0) = n
  /\ \A i \in 1 .. Len(got) : got[i] = i
  /\ \A t \in Reader : cpc[t] = "advance" => at[t] = tail /\ ret[t] = gotchars[tail]

InInv == ringType /\ RingInv

ringVars == <<gotchars, head, tail, rsem, typed, got, ret, at>>

LEMMA RingFrame ==
  ASSUME InInv, UNCHANGED ringVars, hpc' = "advance" <=> hpc = "advance",
         \A t \in Reader : cpc'[t] = cpc[t]
                           \/ {cpc[t], cpc'[t]} \cap {"load", "advance"} = {}
  PROVE  InInv'
<1>1. ringType'
  BY DEF InInv, ringType, ringVars
<1>2. Held' = Held /\ InHand' = InHand
  BY DEF Held, InHand
<1>3. \A n, h : Content(n, h)' <=> Content(n, h)
  BY DEF Content, ringVars
<1>4. \E n \in Nat : Content(n, Held)' /\ rsem' + (IF InHand' THEN 1 ELSE 0) = n
  BY <1>2, <1>3 DEF InInv, RingInv, ringVars, Content
<1>5. \A t \in Reader : cpc'[t] = "advance" => at'[t] = tail' /\ ret'[t] = gotchars'[tail']
  BY DEF InInv, RingInv, ringVars
<1>6. \A i \in 1 .. Len(got') : got'[i] = i
  BY DEF InInv, RingInv, ringVars
<1>7. RingInv'
  BY <1>4, <1>5, <1>6 DEF RingInv, Content
<1> QED
  BY <1>1, <1>7 DEF InInv

LEMMA P_rsemRing ==
  ASSUME OneReader, OutInv, InInv, NEW t \in Caller, P_rsem(t)
  PROVE  InInv'
<1>1. /\ cpc[t] = "P_r" /\ rsem > 0 /\ rsem' = rsem - 1 /\ cpc' = [cpc EXCEPT ![t] = "load"]
      /\ UNCHANGED <<gotchars, head, tail, typed, got, ret, at, hpc>>
  BY DEF P_rsem, conGoto, handler
<1>2. t \in Reader /\ cpc'[t] = "load" /\ \A u \in Reader : u = t
  BY <1>1 DEF OneReader, OutInv, conType, Reading
<1>3. ~InHand /\ InHand'
  BY <1>1, <1>2 DEF InHand
<1>4. ringType'
  BY <1>1 DEF InInv, ringType
<1>5. PICK n \in Nat : Content(n, Held) /\ rsem = n
  BY <1>3 DEF InInv, RingInv, ringType
<1>6. Content(n, Held)' /\ rsem' + 1 = n
  BY <1>1, <1>5 DEF Content, Held
<1>7. RingInv'
  BY <1>1, <1>2, <1>3, <1>6 DEF RingInv, InInv
<1> QED
  BY <1>4, <1>7 DEF InInv

LEMMA LoadCharRing ==
  ASSUME OneReader, OutInv, InInv, NEW t \in Caller, LoadChar(t)
  PROVE  InInv'
<1>1. /\ cpc[t] = "load" /\ cpc' = [cpc EXCEPT ![t] = "advance"]
      /\ ret' = [ret EXCEPT ![t] = gotchars[tail]] /\ at' = [at EXCEPT ![t] = tail]
      /\ UNCHANGED <<gotchars, head, tail, rsem, typed, got, hpc>>
  BY DEF LoadChar, conGoto, ring, handler
<1>2. t \in Reader /\ cpc'[t] = "advance" /\ \A u \in Reader : u = t
  BY <1>1 DEF OneReader, OutInv, conType, Reading
<1>3. InHand /\ InHand'
  BY <1>1, <1>2 DEF InHand
<1>4. ringType' /\ ret'[t] = gotchars[tail] /\ at'[t] = tail
  BY <1>1 DEF InInv, ringType
<1>5. PICK n \in Nat : Content(n, Held) /\ rsem + 1 = n
  BY <1>3 DEF InInv, RingInv, ringType
<1>6. Content(n, Held)' /\ rsem' + 1 = n
  BY <1>1, <1>5 DEF Content, Held
<1>7. RingInv'
  BY <1>1, <1>2, <1>3, <1>4, <1>6 DEF RingInv, InInv
<1> QED
  BY <1>4, <1>7 DEF InInv

LEMMA AdvanceTailRing ==
  ASSUME OneReader, OutInv, InInv, NEW t \in Caller, AdvanceTail(t)
  PROVE  InInv'
<1>1. /\ cpc[t] = "advance" /\ cpc' = [cpc EXCEPT ![t] = "deliver"]
      /\ tail' = (at[t] + 1) % Ring /\ got' = Append(got, ret[t])
      /\ UNCHANGED <<gotchars, head, rsem, typed, ret, at, hpc>>
  BY DEF AdvanceTail, conGoto, handler
<1>2. t \in Reader /\ cpc'[t] = "deliver" /\ \A u \in Reader : u = t
  BY <1>1 DEF OneReader, OutInv, conType, Reading
<1>3. InHand /\ ~InHand'
  BY <1>1, <1>2 DEF InHand
<1>4. at[t] = tail /\ ret[t] = gotchars[tail] /\ tail \in RingSlot
  BY <1>1, <1>2 DEF InInv, RingInv, ringType
<1>5. tail' = Wrap(tail + 1) /\ tail' \in RingSlot
  BY <1>1, <1>4, WrapIsMod
<1>6. PICK n \in Nat : Content(n, Held) /\ rsem + 1 = n
  BY <1>3 DEF InInv, RingInv, ringType
<1>7. Held \in {0, 1} /\ Held' = Held /\ rsem \in Nat /\ Len(got) \in Nat /\ got \in Seq(Nat)
  BY <1>1 DEF Held, InInv, ringType
<1>8. ret[t] = Len(got) + 1
  <2>1. 1 \in 1 .. n + Held /\ Wrap(tail + 1 - 1) = tail
    <3>1. n + Held >= 1 /\ n + Held \in Nat
      BY <1>6, <1>7
    <3>2. Ring \in Nat /\ Ring >= 2 /\ tail \in Nat /\ tail < Ring
      BY <1>4, WrapIsMod DEF RingSlot
    <3>3. tail + 1 - 1 = tail /\ Wrap(tail) = tail
      BY <3>2 DEF Wrap
    <3> QED
      BY <3>1, <3>3
  <2> QED
    BY <1>4, <1>6, <2>1 DEF Content
<1>9. got' \in Seq(Nat) /\ Len(got') = Len(got) + 1 /\ \A i \in 1 .. Len(got') : got'[i] = i
  BY <1>1, <1>7, <1>8 DEF InInv, RingInv
<1>10. Content(rsem, Held)'
  <2>1. rsem + Held <= Ring - 1 /\ typed = Len(got) + 1 + rsem + Held /\ rsem + 1 <= Ring - 1
    BY <1>6, <1>7, WrapIsMod DEF Content
  <2>2. head = Wrap(tail' + rsem)
    <3>1. head = Wrap(tail + (rsem + 1))
      BY <1>6 DEF Content
    <3>2. rsem + 1 < Ring /\ rsem < Ring
      BY <1>7, <2>1, WrapIsMod
    <3> QED
      BY <1>4, <1>5, <1>7, <3>1, <3>2, WrapAgain
  <2>3. ASSUME NEW i \in 1 .. rsem + Held
        PROVE  gotchars[Wrap(tail' + i - 1)] = Len(got) + 1 + i
    <3>1. i + 1 \in 1 .. n + Held /\ i <= Ring - 1 /\ i \in Nat /\ i >= 1
      BY <1>6, <1>7, <2>1, WrapIsMod
    <3>2. PICK j \in Nat : i = j + 1 /\ j < Ring /\ j + 1 < Ring
      <4>1. i - 1 \in Nat /\ i = (i - 1) + 1 /\ i - 1 < Ring /\ (i - 1) + 1 < Ring
        BY <3>1, WrapIsMod
      <4> QED
        BY <4>1
    <3>3. Wrap(tail' + i - 1) = Wrap(tail + (i + 1) - 1)
      <4>1. tail \in Nat /\ tail' \in Nat
        BY <1>4, <1>5, WrapIsMod DEF RingSlot
      <4>2. tail' + i - 1 = tail' + j /\ tail + (i + 1) - 1 = tail + (j + 1)
        BY <3>2, <4>1
      <4> QED
        BY <1>4, <1>5, <3>2, <4>2, WrapAgain
    <3>4. gotchars[Wrap(tail + (i + 1) - 1)] = Len(got) + (i + 1)
      BY <1>6, <3>1 DEF Content
    <3> QED
      BY <1>7, <3>1, <3>3, <3>4
  <2> QED
    BY <1>1, <1>7, <1>9, <2>1, <2>2, <2>3 DEF Content
<1>11. ringType'
  BY <1>1, <1>5, <1>9 DEF InInv, ringType
<1>12. RingInv'
  BY <1>1, <1>2, <1>3, <1>7, <1>9, <1>10 DEF RingInv
<1> QED
  BY <1>11, <1>12 DEF InInv

LEMMA con_inputRing ==
  ASSUME InInv, con_input
  PROVE  InInv'
<1>1. hpc = "input" /\ UNCHANGED <<cpc, ret, at, head, tail, rsem, got>>
  BY DEF con_input, threads
<1>2. CASE RingFull
  <2>1. hpc' = "back" /\ UNCHANGED ringVars
    BY <1>1, <1>2 DEF con_input, ringVars
  <2> QED
    BY <1>1, <2>1, RingFrame
<1>3. CASE ~RingFull
  <2>1. /\ gotchars' = [gotchars EXCEPT ![head] = typed + 1] /\ typed' = typed + 1
        /\ hpc' = "advance"
    BY <1>3 DEF con_input
  <2>2. Held = 0 /\ Held' = 1
    BY <1>1, <2>1 DEF Held
  <2>3. /\ gotchars \in [RingSlot -> Nat] /\ head \in RingSlot /\ tail \in RingSlot /\ typed \in Nat
        /\ Len(got) \in Nat /\ Ring \in Nat /\ Ring >= 2
    <3>1. got \in Seq(Nat)
      BY DEF InInv, ringType
    <3>2. Len(got) \in Nat
      BY <3>1
    <3> QED
      BY <3>2, WrapIsMod DEF InInv, ringType
  <2>4. PICK n \in Nat : Content(n, 0) /\ rsem + (IF InHand THEN 1 ELSE 0) = n
    BY <2>2 DEF InInv, RingInv
  <2>5. /\ n < Ring /\ typed = Len(got) + n /\ head = Wrap(tail + n)
        /\ \A i \in 1 .. n : gotchars[Wrap(tail + i - 1)] = Len(got) + i
    BY <2>3, <2>4 DEF Content
  <2>6. n + 1 < Ring
    <3>1. Wrap(head + 1) # tail
      BY <1>3, <2>3, WrapIsMod DEF RingFull
    <3>2. n + 1 # Ring
      BY <2>3, <2>5, <3>1, WrapAgain
    <3> QED
      BY <2>3, <2>5, <3>2
  <2>7. ASSUME NEW i \in 1 .. n + 1 PROVE gotchars'[Wrap(tail + i - 1)] = Len(got) + i
    <3>1. PICK j \in Nat : i = j + 1 /\ j <= n
      <4>1. i - 1 \in Nat /\ i = (i - 1) + 1 /\ i - 1 <= n
        OBVIOUS
      <4> QED
        BY <4>1
    <3>2. tail + i - 1 = tail + j /\ j \in 0 .. Ring - 1
      BY <2>3, <2>5, <3>1 DEF RingSlot
    <3>3. Wrap(tail + j) \in RingSlot
      BY <2>3, <3>2, WrapIsMod
    <3>4. CASE j = n
      BY <2>1, <2>3, <2>5, <3>1, <3>2, <3>4
    <3>5. CASE j < n
      <4>1. Wrap(tail + j) # head
        BY <2>3, <2>5, <3>5, WrapAgain
      <4>2. gotchars[Wrap(tail + i - 1)] = Len(got) + i
        BY <2>5, <3>1, <3>5
      <4> QED
        BY <2>1, <2>3, <3>2, <3>3, <4>1, <4>2
    <3> QED
      BY <3>1, <3>4, <3>5
  <2>8. Content(n, 1)'
    BY <1>1, <2>1, <2>3, <2>5, <2>6, <2>7 DEF Content
  <2>9. InHand' = InHand
    BY <1>1 DEF InHand
  <2>10. ringType'
    BY <1>1, <2>1, <2>3 DEF InInv, ringType
  <2>11. \A t \in Reader : cpc[t] = "advance" => gotchars'[tail] = gotchars[tail]
    <3> SUFFICES ASSUME InHand PROVE gotchars'[tail] = gotchars[tail]
      BY DEF InHand
    <3>1. n > 0
      BY <2>4 DEF InInv, ringType
    <3>2. Wrap(tail + 0) = tail
      BY <2>3 DEF Wrap, RingSlot
    <3>3. tail # head
      BY <2>3, <2>5, <3>1, <3>2, WrapAgain
    <3> QED
      BY <2>1, <2>3, <3>3
  <2>12. RingInv'
    <3>1. \E m \in Nat : Content(m, Held)' /\ rsem' + (IF InHand' THEN 1 ELSE 0) = m
      BY <1>1, <2>2, <2>4, <2>8, <2>9
    <3>2. \A i \in 1 .. Len(got') : got'[i] = i
      BY <1>1 DEF InInv, RingInv
    <3>3. \A t \in Reader : cpc'[t] = "advance" => at'[t] = tail' /\ ret'[t] = gotchars'[tail']
      BY <1>1, <2>11 DEF InInv, RingInv
    <3> QED
      BY <3>1, <3>2, <3>3 DEF RingInv
  <2> QED
    BY <2>10, <2>12 DEF InInv
<1> QED
  BY <1>2, <1>3

LEMMA InputDoneRing ==
  ASSUME InInv, InputDone
  PROVE  InInv'
<1>1. /\ hpc = "advance" /\ hpc' = "back" /\ head' = (head + 1) % Ring /\ rsem' = rsem + 1
      /\ UNCHANGED <<cpc, ret, at, gotchars, tail, typed, got>>
  BY DEF InputDone, threads
<1>2. Held = 1 /\ Held' = 0 /\ InHand' = InHand
  BY <1>1 DEF Held, InHand
<1>3. PICK n \in Nat : Content(n, 1) /\ rsem + (IF InHand THEN 1 ELSE 0) = n
  BY <1>2 DEF InInv, RingInv
<1>4. /\ head \in RingSlot /\ tail \in RingSlot /\ rsem \in Nat /\ Len(got) \in Nat
      /\ Ring \in Nat /\ Ring >= 2
  BY WrapIsMod DEF InInv, ringType
<1>5. head' = Wrap(head + 1) /\ head' \in RingSlot
  BY <1>1, <1>4, WrapIsMod
<1>6. n + 1 < Ring /\ n < Ring /\ head = Wrap(tail + n)
  BY <1>3, <1>4 DEF Content
<1>7. head' = Wrap(tail + (n + 1))
  BY <1>4, <1>5, <1>6, WrapAgain
<1>8. Content(n + 1, 0)'
  BY <1>1, <1>3, <1>4, <1>7 DEF Content
<1>9. rsem' + (IF InHand' THEN 1 ELSE 0) = n + 1
  BY <1>1, <1>2, <1>3, <1>4
<1>10. ringType'
  BY <1>1, <1>4, <1>5 DEF InInv, ringType
<1>11. RingInv'
  <2>1. \E m \in Nat : Content(m, Held)' /\ rsem' + (IF InHand' THEN 1 ELSE 0) = m
    BY <1>2, <1>8, <1>9
  <2> QED
    BY <1>1, <2>1 DEF InInv, RingInv
<1> QED
  BY <1>10, <1>11 DEF InInv

LEMMA RingInit == conInit => InInv
<1> SUFFICES ASSUME conInit PROVE InInv
  OBVIOUS
<1>1. /\ gotchars = [i \in 0 .. Ring - 1 |-> 0] /\ head = 0 /\ tail = 0 /\ rsem = 0
      /\ typed = 0 /\ got = << >> /\ hpc = "no"
      /\ ret = [t \in Caller |-> 0] /\ at = [t \in Caller |-> 0]
      /\ \A t \in Caller : cpc[t] \in {"P_w", "out"}
  BY DEF conInit
<1>2. 0 \in RingSlot /\ Wrap(0) = 0 /\ Ring \in Nat /\ Ring >= 2
  BY WrapIsMod DEF RingSlot, Wrap
<1>3. ringType
  BY <1>1, <1>2 DEF ringType, RingSlot
<1>4. ~InHand /\ Held = 0 /\ \A t \in Reader : cpc[t] # "advance"
  BY <1>1 DEF InHand, Held, Caller
<1>5. Content(0, 0)
  BY <1>1, <1>2 DEF Content
<1>6. RingInv
  <2>1. Content(0, Held) /\ rsem + (IF InHand THEN 1 ELSE 0) = 0
    BY <1>1, <1>4, <1>5
  <2> QED
    BY <1>1, <1>4, <2>1 DEF RingInv
<1> QED
  BY <1>3, <1>6 DEF InInv

LEMMA RingNext == OneReader /\ OutInv /\ InInv /\ [conNext]_conVars => InInv'
<1> SUFFICES ASSUME OneReader, OutInv, InInv, [conNext]_conVars PROVE InInv'
  OBVIOUS
<1>1. CASE UNCHANGED conVars
  BY <1>1, RingFrame DEF conVars, ringVars
<1>2. ASSUME NEW t \in Caller, P_rsem(t) \/ LoadChar(t) \/ AdvanceTail(t) PROVE InInv'
  BY <1>2, P_rsemRing, LoadCharRing, AdvanceTailRing
<1>3. ASSUME NEW t \in Caller,
             ReadCall(t) \/ WriteCall(t) \/ Deliver(t) \/ P_wsem(t) \/ lser_write(t)
      PROVE  InInv'
  <2>1. UNCHANGED ringVars /\ hpc' = hpc
    BY <1>3 DEF ReadCall, WriteCall, Deliver, P_wsem, lser_write, ringVars, ring, handler
  <2>2. /\ cpc[t] \in {"out", "deliver", "P_w", "send"}
        /\ cpc' = cpc \/ \E label \in {"P_r", "P_w", "out", "send"} :
                            cpc' = [cpc EXCEPT ![t] = label]
    BY <1>3 DEF ReadCall, WriteCall, Deliver, P_wsem, lser_write, conGoto
  <2>3. \A u \in Reader : cpc'[u] = cpc[u] \/ {cpc[u], cpc'[u]} \cap {"load", "advance"} = {}
    BY <2>2 DEF OutInv, conType, Caller
  <2> QED
    BY <2>1, <2>3, RingFrame
<1>4. CASE \/ lser_startpolling \/ PollStep \/ PortSends \/ PortReceives \/ OtherSlot
           \/ TakeInterrupt \/ lamebus_interrupt \/ CallHandler \/ CountDud \/ Leave
           \/ lser_irq \/ con_start \/ HandlerReturns
  <2>1. UNCHANGED <<ringVars, cpc>>
    BY <1>4 DEF lser_startpolling, PollStep, PollLock, PollReady, PollPut, PollDone,
       lser_endpolling, PortSends, PortReceives, OtherSlot, TakeInterrupt, lamebus_interrupt,
       CallHandler, CountDud, Leave, lser_irq, con_start, HandlerReturns, ringVars, ring, threads
  <2>2. hpc' = hpc \/ (hpc # "advance" /\ hpc' # "advance")
    BY <1>4 DEF lser_startpolling, PollStep, PollLock, PollReady, PollPut, PollDone,
       lser_endpolling, PortSends, PortReceives, OtherSlot, TakeInterrupt, lamebus_interrupt,
       CallHandler, CountDud, Leave, lser_irq, con_start, HandlerReturns, handler
  <2> QED
    BY <2>1, <2>2, RingFrame
<1>5. CASE con_input \/ InputDone
  BY <1>5, con_inputRing, InputDoneRing
<1> QED
  BY <1>1, <1>2, <1>3, <1>4, <1>5 DEF conNext, ThreadStep, IrqStep

LEMMA RingIsInput ==
  ASSUME InInv
  PROVE  InputIsKept
<1>1. PICK n \in Nat : Content(n, Held) /\ rsem + (IF InHand THEN 1 ELSE 0) = n
  BY DEF InInv, RingInv
<1>2. /\ gotchars \in [RingSlot -> Nat] /\ head \in RingSlot /\ tail \in RingSlot /\ got \in Seq(Nat)
      /\ Len(got) \in Nat /\ rsem \in Nat /\ typed \in Nat /\ Ring \in Nat /\ Ring >= 2
  <2>1. got \in Seq(Nat)
    BY DEF InInv, ringType
  <2>2. Len(got) \in Nat
    BY <2>1
  <2> QED
    BY <2>2, WrapIsMod DEF InInv, ringType
<1>3. /\ n + Held <= Ring - 1 /\ typed - Held = Len(got) + n /\ head = Wrap(tail + n)
      /\ \A i \in 1 .. n : gotchars[Wrap(tail + i - 1)] = Len(got) + i
      /\ n <= Ring - 1
  BY <1>1, <1>2 DEF Content, Held
<1>4. (head - tail) % Ring = n
  <2>1. tail \in Nat /\ tail < Ring
    BY <1>2 DEF RingSlot
  <2>2. (IF tail <= head THEN head - tail ELSE head - tail + Ring) = n
    BY <1>2, <1>3, <2>1 DEF Wrap
  <2> QED
    BY <1>2, <2>2, WrapIsMod
<1>5. ASSUME NEW i \in 1 .. n PROVE gotchars[(tail + i - 1) % Ring] = Len(got) + i
  <2>1. PICK j \in Nat : i = j + 1 /\ j \in 0 .. Ring - 1
    <3>1. i - 1 \in Nat /\ i = (i - 1) + 1 /\ i - 1 \in 0 .. Ring - 1
      BY <1>2, <1>3
    <3> QED
      BY <3>1
  <2>2. tail + i - 1 = tail + j
    BY <1>2, <2>1 DEF RingSlot
  <2>3. (tail + j) % Ring = Wrap(tail + j)
    BY <1>2, <2>1, WrapIsMod
  <2> QED
    BY <1>3, <2>2, <2>3
<1>6. InRing = [i \in 1 .. n |-> Len(got) + i]
  BY <1>4, <1>5 DEF InRing
<1>7. InRing \in Seq(Nat) /\ Len(InRing) = n /\ \A i \in 1 .. n : InRing[i] = Len(got) + i
  BY <1>2, <1>6
<1>8. \A i \in 1 .. Len(got) : got[i] = i
  BY DEF InInv, RingInv
<1>9. got \o InRing = [i \in 1 .. typed - Held |-> i]
  <2> DEFINE q == got \o InRing
  <2>1. q \in Seq(Nat) /\ Len(q) = Len(got) + n
    BY <1>2, <1>7, ConcatProperties
  <2>2. \A i \in 1 .. Len(got) + n : q[i] = IF i <= Len(got) THEN got[i] ELSE InRing[i - Len(got)]
    BY <1>2, <1>7, ConcatProperties
  <2>3. \A i \in 1 .. Len(got) + n : q[i] = i
    <3> DEFINE m == Len(got)
               r == InRing
    <3>1. /\ m \in Nat
          /\ \A i \in 1 .. m : got[i] = i
          /\ \A i \in 1 .. n : r[i] = m + i
          /\ \A i \in 1 .. m + n : q[i] = IF i <= m THEN got[i] ELSE r[i - m]
      BY <1>2, <1>7, <1>8, <2>2
    <3> HIDE DEF m, r, q
    <3>2. ASSUME NEW i \in 1 .. m + n PROVE q[i] = i
      <4>1. CASE i <= m
        BY <3>1, <4>1
      <4>2. CASE i > m
        <5>1. i - m \in 1 .. n /\ ~(i <= m) /\ m + (i - m) = i
          BY <3>1, <4>2
        <5> QED
          BY <3>1, <5>1
      <4> QED
        BY <3>1, <4>1, <4>2
    <3> QED
      BY <3>2 DEF m
  <2> HIDE DEF q
  <2>4. q = [i \in 1 .. Len(q) |-> q[i]]
    BY <2>1
  <2>5. q = [i \in 1 .. Len(got) + n |-> i]
    BY <2>1, <2>3, <2>4
  <2> QED
    BY <1>3, <2>5 DEF q
<1>10. rsem = Len(InRing) - (IF InHand THEN 1 ELSE 0)
  BY <1>1, <1>2, <1>7
<1> QED
  BY <1>9, <1>10 DEF InputIsKept, InHand

\* con_input and getch_intr share the ring under no lock: with one reader every
\* character accepted is read once and in order, round the ring and when it is full.
THEOREM OneReaderLosesNothing ==
  ASSUME OneReader
  PROVE  conSpec => []InputIsKept
<1>1. conInit => InInv
  BY RingInit
<1>2. OutInv /\ InInv /\ [conNext]_conVars => InInv'
  BY RingNext
<1>3. InInv => InputIsKept
  BY RingIsInput
<1> QED
  BY <1>1, <1>2, <1>3, TurnIsInOnePlace, PTL DEF conSpec

=============================================================================
