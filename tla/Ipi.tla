-------------------------------- MODULE Ipi --------------------------------
(***************************************************************************)
(* Interprocessor interrupts of the OS/161 kernel: ipi_send, ipi_broadcast,*)
(* ipi_tlbshootdown and interprocessor_interrupt (kern/thread/thread.c),   *)
(* the interrupt line of the LAMEbus controller, and the part of           *)
(* thread_switch and thread_make_runnable that relies on them.             *)
(*                                                                         *)
(* Module Thread takes an interprocessor interrupt in one step.  Here it   *)
(* has the steps of mainbus_interrupt(): the handler runs, under the       *)
(* cpu's ipi lock, and only later is the line of the bus controller        *)
(* lowered, under no lock at all.                                          *)
(***************************************************************************)
EXTENDS Integers, FiniteSets

CONSTANTS NumCpus,           \* number of cpus, numbered from 0
          Mapping,           \* TLB mappings that can be shot down
          NONE,              \* NULL, or nobody
          TLBSHOOTDOWN_MAX,  \* room in c_shootdown
          MaxRequests,       \* bound: shootdown requests to a cpu before it is interrupted
          Stop               \* the broadcasts that happen: subset of {"panic", "offline"}

CPU == 0 .. NumCpus - 1
Code == {"panic", "offline", "unidle", "tlbshootdown"}
TLBSHOOTDOWN_ALL == -1
Slot == 0 .. TLBSHOOTDOWN_MAX - 1

ASSUME IpiAssumption ==
  /\ NumCpus \in Nat \ {0}
  /\ TLBSHOOTDOWN_MAX \in Nat
  /\ MaxRequests \in Nat
  /\ Stop \subseteq {"panic", "offline"}
  /\ NONE \notin CPU \cup Mapping

VARIABLES
  pc,              \* "thread" or "idle" (interrupts on), "recheck", "send", "offline",
                   \* "clear", "halted", "down" (this cpu is taking the system down)
  code,            \* what cpu c is sending
  targets,         \* and to which cpus it still has to send it
  c_isidle,        \* c_isidle
  work,            \* c_runqueue is not empty
  rq_lock,         \* holder of c_runqueue_lock; NONE when the lock is free
  ipi_lock,        \* holder of c_ipi_lock
  c_ipi_pending,   \* c_ipi_pending, as a set
  line,            \* CTLCPU_CIPI, the interrupt line the controller raises
  c_numshootdown,  \* c_numshootdown
  c_shootdown,     \* c_shootdown
  asked,           \* number of shootdown requests to this cpu
  owed,            \* the mappings they asked to be invalidated
  stopped          \* broadcasts made

vars == <<pc, code, targets, c_isidle, work, rq_lock, ipi_lock, c_ipi_pending, line,
          c_numshootdown, c_shootdown, asked, owed, stopped>>
idleVars == <<c_isidle, work>>
sendVars == <<code, targets>>
tlbVars == <<c_numshootdown, c_shootdown, asked, owed>>

Init ==
  /\ pc = [c \in CPU |-> "thread"]
  /\ code = [c \in CPU |-> NONE]
  /\ targets = [c \in CPU |-> {}]
  /\ c_isidle = [c \in CPU |-> FALSE]
  /\ work \in [CPU -> BOOLEAN]
  /\ rq_lock = [c \in CPU |-> NONE]
  /\ ipi_lock = [c \in CPU |-> NONE]
  /\ c_ipi_pending = [c \in CPU |-> {}]
  /\ line = [c \in CPU |-> FALSE]
  /\ c_numshootdown = [c \in CPU |-> 0]
  /\ c_shootdown = [c \in CPU |-> [i \in Slot |-> NONE]]
  /\ asked = [c \in CPU |-> 0]
  /\ owed = [c \in CPU |-> {}]
  /\ stopped = {}

Goto(c, label) == pc' = [pc EXCEPT ![c] = label]

\* Interrupts are taken in a thread or in cpu_idle(); afterwards thread_switch's
\* loop goes round if the cpu was idle.
InterruptsOn(c) == pc[c] \in {"thread", "idle"}
Resume(c) == IF c_isidle[c] THEN "recheck" ELSE "thread"

-----------------------------------------------------------------------------
(* Idling, and being called *)

\* thread_switch: the current thread goes, and with an empty run queue the cpu
\* waits in cpu_idle().
GoIdle(c) ==
  /\ pc[c] = "thread"
  /\ rq_lock[c] = NONE
  /\ ~work[c]
  /\ c_isidle' = [c_isidle EXCEPT ![c] = TRUE]
  /\ Goto(c, "idle")
  /\ UNCHANGED <<sendVars, work, rq_lock, ipi_lock, c_ipi_pending, line, tlbVars, stopped>>

\* Faulty variant: cpu_idle() is called again without a look at the run queue.
IdleAgain(c) ==
  /\ pc[c] = "recheck"
  /\ Goto(c, "idle")
  /\ UNCHANGED <<sendVars, idleVars, rq_lock, ipi_lock, c_ipi_pending, line, tlbVars, stopped>>

\* cpu_idle() returns: the loop retakes the run queue lock and looks again.
Recheck(c) ==
  /\ pc[c] = "recheck"
  /\ rq_lock[c] = NONE
  /\ \/ /\ ~work[c]
        /\ Goto(c, "idle")
        /\ UNCHANGED idleVars
     \/ /\ work[c]
        /\ Goto(c, "thread")
        /\ c_isidle' = [c_isidle EXCEPT ![c] = FALSE]
        /\ \E more \in BOOLEAN : work' = [work EXCEPT ![c] = more]
  /\ UNCHANGED <<sendVars, rq_lock, ipi_lock, c_ipi_pending, line, tlbVars, stopped>>

\* thread_make_runnable: put a thread on d's run queue and, its lock still held,
\* send IPI_UNIDLE to d if d is idle.
thread_make_runnable(c, d) ==
  /\ InterruptsOn(c)
  /\ rq_lock[d] = NONE
  /\ work' = [work EXCEPT ![d] = TRUE]
  /\ \/ /\ c_isidle[d]
        /\ rq_lock' = [rq_lock EXCEPT ![d] = c]
        /\ code' = [code EXCEPT ![c] = "unidle"]
        /\ targets' = [targets EXCEPT ![c] = {d}]
        /\ Goto(c, "send")
     \/ /\ ~c_isidle[d]
        /\ Goto(c, Resume(c))
        /\ UNCHANGED <<sendVars, rq_lock>>
  /\ UNCHANGED <<c_isidle, ipi_lock, c_ipi_pending, line, tlbVars, stopped>>

-----------------------------------------------------------------------------
(* Sending *)

\* thread_panic and thread_shutdown broadcast to the other cpus with interrupts off.
ipi_broadcast(c, what) ==
  /\ pc[c] = "thread"
  /\ what \in Stop \ stopped
  /\ stopped' = stopped \cup {what}
  /\ code' = [code EXCEPT ![c] = what]
  /\ targets' = [targets EXCEPT ![c] = CPU \ {c}]
  /\ Goto(c, "send")
  /\ UNCHANGED <<idleVars, rq_lock, ipi_lock, c_ipi_pending, line, tlbVars>>

\* ipi_send to the next target: set the bit and raise the line, under the ipi lock.
ipi_send(c, d) ==
  /\ pc[c] = "send"
  /\ d \in targets[c]
  /\ \A e \in targets[c] : d <= e
  /\ ipi_lock[d] = NONE
  /\ c_ipi_pending' = [c_ipi_pending EXCEPT ![d] = @ \cup {code[c]}]
  /\ line' = [line EXCEPT ![d] = TRUE]
  /\ targets' = [targets EXCEPT ![c] = @ \ {d}]
  /\ UNCHANGED <<pc, code, idleVars, rq_lock, ipi_lock, tlbVars, stopped>>

\* panic(): thread_panic tells the other cpus, the first time only.
panic(c) ==
  /\ stopped' = stopped \cup {"panic"}
  /\ code' = [code EXCEPT ![c] = "panic"]
  /\ targets' = [targets EXCEPT ![c] = IF "panic" \in stopped THEN {} ELSE CPU \ {c}]
  /\ Goto(c, "send")

Holds(c) == \E d \in CPU : rq_lock[d] = c

\* spinlock_release asserts that the lock's holder is this cpu; what
\* ipi_tlbshootdown can write there makes it fail.
ReleaseFails(c) ==
  /\ pc[c] = "send"
  /\ targets[c] = {}
  /\ code[c] = "unidle"
  /\ ~Holds(c)
  /\ panic(c)
  /\ UNCHANGED <<idleVars, rq_lock, ipi_lock, c_ipi_pending, line, tlbVars>>

\* All sent: thread_make_runnable releases the run queue lock and returns; after
\* panic or shutdown the cpu never takes an interrupt again.
Sent(c) ==
  /\ pc[c] = "send"
  /\ targets[c] = {}
  /\ code[c] = "unidle" => Holds(c)
  /\ code' = [code EXCEPT ![c] = NONE]
  /\ Goto(c, IF code[c] = "unidle" THEN Resume(c) ELSE "down")
  /\ rq_lock' = [d \in CPU |-> IF rq_lock[d] = c THEN NONE ELSE rq_lock[d]]
  /\ UNCHANGED <<targets, idleVars, ipi_lock, c_ipi_pending, line, tlbVars, stopped>>

\* What ipi_tlbshootdown does to c_numshootdown: n = TLBSHOOTDOWN_MAX flushes all,
\* anything else counts up; the faulty variant forgets the flush.
CountSticks(n) == IF n = TLBSHOOTDOWN_MAX THEN n ELSE n + 1
Shootdowns(n) == IF n = TLBSHOOTDOWN_MAX THEN TLBSHOOTDOWN_ALL ELSE n + 1

\* ipi_tlbshootdown.  With TLBSHOOTDOWN_ALL already set the code writes
\* c_shootdown[-1]: the address space goes over the holder of c_runqueue_lock, the
\* virtual address over c_ipi_pending, where any bits may be left.
ipi_tlbshootdown(c, d, m) ==
  LET n == c_numshootdown[d]
  IN  /\ InterruptsOn(c)
      /\ ipi_lock[d] = NONE
      /\ asked[d] < MaxRequests
      /\ asked' = [asked EXCEPT ![d] = @ + 1]
      /\ owed' = [owed EXCEPT ![d] = @ \cup {m}]
      /\ c_numshootdown' = [c_numshootdown EXCEPT ![d] = Shootdowns(n)]
      /\ c_shootdown' = IF n \in Slot THEN [c_shootdown EXCEPT ![d][n] = m] ELSE c_shootdown
      /\ \E left \in IF n = TLBSHOOTDOWN_ALL THEN SUBSET Code ELSE {c_ipi_pending[d]} :
            c_ipi_pending' = [c_ipi_pending EXCEPT ![d] = left \cup {"tlbshootdown"}]
      /\ rq_lock' = IF n = TLBSHOOTDOWN_ALL /\ rq_lock[d] # NONE
                     THEN [rq_lock EXCEPT ![d] = m] ELSE rq_lock
      /\ line' = [line EXCEPT ![d] = TRUE]
      /\ UNCHANGED <<pc, sendVars, idleVars, ipi_lock, stopped>>

-----------------------------------------------------------------------------
(* The handler *)

Interrupted(c) == InterruptsOn(c) /\ line[c] /\ ipi_lock[c] = NONE

\* IPI_PANIC: stop dead, the ipi lock held.
IpiPanic(c) ==
  /\ Interrupted(c)
  /\ "panic" \in c_ipi_pending[c]
  /\ ipi_lock' = [ipi_lock EXCEPT ![c] = c]
  /\ Goto(c, "halted")
  /\ UNCHANGED <<sendVars, idleVars, rq_lock, c_ipi_pending, line, tlbVars, stopped>>

\* IPI_OFFLINE: look at c_isidle under the run queue lock, then halt; the ipi
\* lock is held all along.
IpiOffline(c) ==
  /\ Interrupted(c)
  /\ "panic" \notin c_ipi_pending[c]
  /\ "offline" \in c_ipi_pending[c]
  /\ ipi_lock' = [ipi_lock EXCEPT ![c] = c]
  /\ Goto(c, "offline")
  /\ UNCHANGED <<sendVars, idleVars, rq_lock, c_ipi_pending, line, tlbVars, stopped>>

OfflineHalts(c) ==
  /\ pc[c] = "offline"
  /\ rq_lock[c] = NONE
  /\ Goto(c, "halted")
  /\ UNCHANGED <<sendVars, idleVars, rq_lock, ipi_lock, c_ipi_pending, line, tlbVars, stopped>>

\* The mappings the handler passes to vm_tlbshootdown() or vm_tlbshootdown_all().
Invalidated(c) ==
  IF c_numshootdown[c] = TLBSHOOTDOWN_ALL THEN Mapping
  ELSE {c_shootdown[c][i] : i \in {j \in Slot : j < c_numshootdown[c]}}

ShootsDown(c) == "tlbshootdown" \in c_ipi_pending[c] /\ c_numshootdown[c] # 0

\* IPI_TLBSHOOTDOWN: the VM system of this kernel answers with a panic, with the
\* ipi lock held; the other cpus are told once.
IpiShootdown(c) ==
  /\ Interrupted(c)
  /\ c_ipi_pending[c] \cap {"panic", "offline"} = {}
  /\ ShootsDown(c)
  /\ ipi_lock' = [ipi_lock EXCEPT ![c] = c]
  /\ panic(c)
  /\ UNCHANGED <<idleVars, rq_lock, c_ipi_pending, line, tlbVars>>

\* IPI_UNIDLE needs nothing; all bits are cleared.
interprocessor_interrupt(c) ==
  /\ Interrupted(c)
  /\ c_ipi_pending[c] \cap {"panic", "offline"} = {}
  /\ ~ShootsDown(c)
  /\ c_ipi_pending' = [c_ipi_pending EXCEPT ![c] = {}]
  /\ Goto(c, "clear")
  /\ UNCHANGED <<sendVars, idleVars, rq_lock, ipi_lock, line, tlbVars, stopped>>

\* Back in mainbus_interrupt(), the line is lowered.
lamebus_clear_ipi(c) ==
  /\ pc[c] = "clear"
  /\ line' = [line EXCEPT ![c] = FALSE]
  /\ Goto(c, Resume(c))
  /\ UNCHANGED <<sendVars, idleVars, rq_lock, ipi_lock, c_ipi_pending, tlbVars, stopped>>

\* The timer interrupts too: hardclock() does nothing here, but cpu_idle() returns.
hardclock(c) ==
  /\ pc[c] = "idle"
  /\ Goto(c, "recheck")
  /\ UNCHANGED <<sendVars, idleVars, rq_lock, ipi_lock, c_ipi_pending, line, tlbVars, stopped>>

-----------------------------------------------------------------------------

Handler(c) ==
  \/ IpiPanic(c) \/ IpiOffline(c) \/ IpiShootdown(c) \/ interprocessor_interrupt(c)

\* Steps with interrupts off.
KernelStep(c) ==
  \/ Recheck(c) \/ OfflineHalts(c) \/ lamebus_clear_ipi(c) \/ Sent(c) \/ ReleaseFails(c)
  \/ \E d \in CPU : ipi_send(c, d)

Next ==
  \E c \in CPU :
     \/ KernelStep(c) \/ Handler(c) \/ GoIdle(c) \/ hardclock(c)
     \/ \E what \in Stop : ipi_broadcast(c, what)
     \/ \E d \in CPU : \/ thread_make_runnable(c, d)
                       \/ \E m \in Mapping : ipi_tlbshootdown(c, d, m)

Spec == Init /\ [][Next]_vars

\* A cpu with interrupts off goes on as soon as the lock it spins on is free; a
\* raised line interrupts the cpu sooner or later.
Fairness == \A c \in CPU : SF_vars(KernelStep(c)) /\ SF_vars(Handler(c))

FairSpec == Spec /\ Fairness

-----------------------------------------------------------------------------
(* Properties *)

TypeOK ==
  /\ pc \in [CPU -> {"thread", "idle", "recheck", "send", "offline", "clear", "halted", "down"}]
  /\ code \in [CPU -> Code \cup {NONE}]
  /\ targets \in [CPU -> SUBSET CPU]
  /\ c_isidle \in [CPU -> BOOLEAN]
  /\ work \in [CPU -> BOOLEAN]
  /\ rq_lock \in [CPU -> CPU \cup Mapping \cup {NONE}]
  /\ ipi_lock \in [CPU -> CPU \cup {NONE}]
  /\ c_ipi_pending \in [CPU -> SUBSET Code]
  /\ line \in [CPU -> BOOLEAN]
  /\ c_numshootdown \in [CPU -> -1 .. TLBSHOOTDOWN_MAX]
  /\ c_shootdown \in [CPU -> [Slot -> Mapping \cup {NONE}]]
  /\ asked \in [CPU -> Nat]
  /\ owed \in [CPU -> SUBSET Mapping]
  /\ stopped \subseteq {"panic", "offline"}

\* A cpu is not left in cpu_idle() with a thread on its run queue: its line is
\* up, or whoever queued the thread is about to raise it.  The line may be
\* lowered over an interrupt that came in during the handler, but only before
\* the idle loop looks at the run queue again.
NoSleepWithWork ==
  \A c \in CPU : pc[c] = "idle" /\ work[c] =>
     \/ line[c]
     \/ \E s \in CPU : pc[s] = "send" /\ code[s] = "unidle" /\ c \in targets[s]

\* Every mapping another cpu asked to be shot down is one the interrupt passes to
\* the VM system, also when there is one more of them than c_shootdown holds: the
\* first request that does not fit makes the interrupt flush everything.  (With two
\* more, ipi_tlbshootdown counts from TLBSHOOTDOWN_ALL to 0 and forgets them.)
OverflowFlushes ==
  \A c \in CPU : asked[c] <= TLBSHOOTDOWN_MAX + 1 => owed[c] \subseteq Invalidated(c)

\* An interrupt that is sent is received: its bit does not stay pending for ever
\* on a cpu that keeps running.
SentIsReceived ==
  \A c \in CPU, b \in Code :
     b \in c_ipi_pending[c] ~> b \notin c_ipi_pending[c] \/ pc[c] \in {"halted", "down"}

=============================================================================
