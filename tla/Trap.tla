-------------------------------- MODULE Trap --------------------------------
(***************************************************************************)
(* Traps on one cpu: interrupts, system calls and faults, one inside the   *)
(* other (kern/arch/mips/locore/trap.c, exception-mips1.S), the interrupt  *)
(* level that spl.c and spinlock.c count for each thread, and the          *)
(* recovery of copyin and its relatives (kern/vm/copyinout.c).             *)
(*                                                                         *)
(* stk[t] is the kernel stack of thread t, a frame for every trap it is    *)
(* in, <<>> when it is in user mode.  What a handler does is any sequence  *)
(* of taking and releasing spinlocks, splhigh and splx, copying from user  *)
(* space, and giving up the cpu; it ends with all of it undone.  What      *)
(* the scheduler does in between is in Thread, vm_fault in AddrSpace.      *)
(***************************************************************************)
EXTENDS Integers, Sequences, SequencesExt

CONSTANTS TThread,      \* threads
          MaxFrames,    \* bound on the frames of a stack
          MaxSpin,      \* bound on the spinlocks taken in a frame
          ADDRBITS,     \* width of an address
          USERSPACETOP

ASSUME TrapAssumption ==
  /\ {MaxFrames, MaxSpin, ADDRBITS} \subseteq Nat
  /\ USERSPACETOP \in 1 .. 2 ^ ADDRBITS - 1

VARIABLES
  curthread,    \* the thread that runs
  irqs,         \* the processor lets interrupts in
  usermode,     \* the processor is in user mode
  stk,          \* frames of each thread, the last one running
  curspl,       \* t_curspl
  iplhigh,      \* t_iplhigh_count
  in_interrupt, \* t_in_interrupt
  badfault,     \* tm_badfaultfunc is set
  cpustack,     \* the thread of cpustacks[] and cputhreads[]
  failed,       \* an assertion has failed
  paniced       \* a fatal fault of a program has stopped the system

trapVars == <<curthread, irqs, usermode, stk, curspl, iplhigh, in_interrupt, badfault,
              cpustack, failed, paniced>>

NoThread == 0

\* A frame: the trap's code, the interrupt and mode bits of tf_status, doadjust and
\* old_in of mips_trap, the spl a splhigh of the handler saved or thread_switch's,
\* spinlocks taken, and whether tf_epc was set to copyfail.
Frame(code, ie, user, at) ==
  [code |-> code, ie |-> ie, user |-> user, at |-> at, adjust |-> FALSE, old_in |-> FALSE,
   raised |-> FALSE, spl |-> 0, swspl |-> 0, spin |-> 0, fail |-> FALSE]

\* A thread starts in thread_startup, reached by a switch.
trapInit ==
  /\ curthread \in TThread
  /\ irqs = TRUE
  /\ usermode = FALSE
  /\ stk = [t \in TThread |->
             <<Frame("start", TRUE, FALSE, IF t = curthread THEN "work" ELSE "switch")>>]
  /\ curspl = [t \in TThread |-> IF t = curthread THEN 0 ELSE 1]
  /\ iplhigh = [t \in TThread |-> IF t = curthread THEN 0 ELSE 1]
  /\ in_interrupt = [t \in TThread |-> FALSE]
  /\ badfault = [t \in TThread |-> FALSE]
  /\ cpustack = NoThread
  /\ failed = FALSE
  /\ paniced = FALSE

me == curthread
Running == ~failed /\ ~paniced
Top == Last(stk[me])
AtPc(p) == Running /\ ~usermode /\ Top.at = p
SetTop(f) == stk' = [stk EXCEPT ![me] = Front(@) \o <<f>>]
KASSERT(p) == failed' = (failed \/ ~p)
level == <<curspl, iplhigh>>

-----------------------------------------------------------------------------
(* spl.c and spinlock.c: the effect on t_curspl, t_iplhigh_count and the processor. *)

splraise == iplhigh' = [iplhigh EXCEPT ![me] = @ + 1] /\ irqs' = (irqs /\ iplhigh[me] # 0)
spllower == iplhigh' = [iplhigh EXCEPT ![me] = @ - 1] /\ irqs' = (irqs \/ iplhigh[me] = 1)

splx(s) ==
  /\ curspl' = [curspl EXCEPT ![me] = s]
  /\ \/ curspl[me] < s /\ splraise
     \/ curspl[me] > s /\ spllower
     \/ curspl[me] = s /\ UNCHANGED <<iplhigh, irqs>>

rest == <<curthread, usermode, in_interrupt, badfault, cpustack, failed, paniced>>

spinlock_acquire ==
  /\ AtPc("work") /\ Top.spin < MaxSpin
  /\ splraise
  /\ SetTop([Top EXCEPT !.spin = @ + 1])
  /\ UNCHANGED <<rest, curspl>>

spinlock_release ==
  /\ AtPc("work") /\ Top.spin > 0
  /\ spllower
  /\ SetTop([Top EXCEPT !.spin = @ - 1])
  /\ UNCHANGED <<rest, curspl>>

\* Spinlocks and spl calls need not nest.
splhigh ==
  /\ AtPc("work") /\ ~Top.raised
  /\ splx(1)
  /\ SetTop([Top EXCEPT !.raised = TRUE, !.spl = curspl[me]])
  /\ UNCHANGED rest

splxBack ==
  /\ AtPc("work") /\ Top.raised
  /\ splx(Top.spl)
  /\ SetTop([Top EXCEPT !.raised = FALSE])
  /\ UNCHANGED rest

-----------------------------------------------------------------------------
(* copyin, copyout, copyinstr and copyoutstr *)

AddrMax == 2 ^ ADDRBITS
Width(n) == n % AddrMax

\* copycheck: whether the region is let through, and stoplen.
copycheck(bot, len) ==
  LET top == Width(bot + len - 1)
  IN  [ok |-> ~ (top < bot) /\ bot < USERSPACETOP,
       stoplen |-> IF top >= USERSPACETOP THEN USERSPACETOP - bot ELSE len]

\* The bytes copyin touches, and at most copyinstr.
CopyinTouches(bot, len) ==
  IF copycheck(bot, len).ok /\ copycheck(bot, len).stoplen = len THEN bot .. bot + len - 1 ELSE {}
CopystrTouches(bot, maxlen) ==
  LET c == copycheck(bot, maxlen)
  IN  IF ~c.ok THEN {} ELSE {bot + i : i \in {k \in 0 .. maxlen - 1 : k < c.stoplen}}

CopyBegins ==
  /\ AtPc("work") /\ Top.code = "sys" /\ Top.spin = 0 /\ ~Top.raised
  /\ badfault' = [badfault EXCEPT ![me] = TRUE]
  /\ SetTop([Top EXCEPT !.at = "copy"])
  /\ UNCHANGED <<level, curthread, irqs, usermode, in_interrupt, cpustack, failed, paniced>>

CopyEnds ==
  /\ AtPc("copy")
  /\ badfault' = [badfault EXCEPT ![me] = FALSE]
  /\ SetTop([Top EXCEPT !.at = "work"])
  /\ UNCHANGED <<level, curthread, irqs, usermode, in_interrupt, cpustack, failed, paniced>>

-----------------------------------------------------------------------------
(* Taking a trap *)

MayTrap(code) ==
  CASE code = "irq" -> irqs
    [] code = "sys" -> usermode
    [] code = "tlb" -> ~usermode => Top.at = "copy"

\* The processor and common_exception: from user mode the stack and the thread
\* come from cpustacks[] and cputhreads[].
common_exception(code) ==
  /\ Running
  /\ MayTrap(code)
  /\ Len(stk[me]) < MaxFrames
  /\ ~usermode => Top.at \in {"work", "copy", "idle"}
  /\ KASSERT(usermode => cpustack = me)
  /\ stk' = [stk EXCEPT ![me] = Append(@, Frame(code, irqs, usermode, "entry"))]
  /\ irqs' = FALSE
  /\ usermode' = FALSE
  /\ UNCHANGED <<level, curthread, in_interrupt, badfault, cpustack, paniced>>

\* Faulty variant: the recorded level is left low in an interrupt.
NoAdjust ==
  /\ AtPc("entry") /\ Top.code = "irq"
  /\ in_interrupt' = [in_interrupt EXCEPT ![me] = TRUE]
  /\ SetTop([Top EXCEPT !.at = "work", !.old_in = in_interrupt[me]])
  /\ UNCHANGED <<level, curthread, irqs, usermode, badfault, cpustack, failed, paniced>>

\* mips_trap for an interrupt, up to the call of mainbus_interrupt.
IrqEntry ==
  /\ AtPc("entry") /\ Top.code = "irq"
  /\ in_interrupt' = [in_interrupt EXCEPT ![me] = TRUE]
  /\ LET low == curspl[me] = 0
     IN  /\ KASSERT(low => iplhigh[me] = 0)
         /\ curspl' = [curspl EXCEPT ![me] = 1]
         /\ iplhigh' = [iplhigh EXCEPT ![me] = IF low THEN @ + 1 ELSE @]
         /\ SetTop([Top EXCEPT !.at = "work", !.old_in = in_interrupt[me], !.adjust = low])
  /\ UNCHANGED <<curthread, irqs, usermode, badfault, cpustack, paniced>>

\* For the rest: splhigh and splx turn interrupts on again if they were.
TrapEntry ==
  /\ AtPc("entry") /\ Top.code # "irq"
  /\ irqs' = (curspl[me] = 0 /\ iplhigh[me] = 0)
  /\ KASSERT(Top.code = "sys" => curspl[me] = 0 /\ iplhigh[me] = 0)
  /\ SetTop([Top EXCEPT !.at = "work"])
  /\ UNCHANGED <<level, curthread, usermode, in_interrupt, badfault, cpustack, paniced>>

-----------------------------------------------------------------------------
(* Giving up the cpu *)

InIdle == \E i \in DOMAIN stk[me] : stk[me][i].at = "idle"

\* thread_switch: to a thread that was switched out or is new; or to the idle loop.
\* In an interrupt taken in the idle loop it returns at once.
thread_switch(u) ==
  /\ AtPc("work") /\ Top.spin = 0 /\ ~InIdle
  /\ splx(1)
  /\ \/ /\ u # me
        /\ SetTop([Top EXCEPT !.at = "switch", !.swspl = curspl[me]])
        /\ curthread' = u
     \/ /\ u = me
        /\ SetTop([Top EXCEPT !.at = "idle", !.swspl = curspl[me]])
        /\ UNCHANGED curthread
  /\ UNCHANGED <<usermode, in_interrupt, badfault, cpustack, failed, paniced>>

\* cpu_idle, and cpu_irqonoff: interrupts on for a moment, curspl stays high.
IdleWindow ==
  /\ AtPc("idle")
  /\ irqs' = ~irqs
  /\ UNCHANGED <<level, rest, stk>>

\* The idle loop finds a thread: another, or the one that idles.
IdleEnds(u) ==
  /\ AtPc("idle") /\ ~irqs
  /\ SetTop([Top EXCEPT !.at = "switch"])
  /\ curthread' = u
  /\ UNCHANGED <<level, irqs, usermode, in_interrupt, badfault, cpustack, failed, paniced>>

\* Back in thread_switch, or in thread_startup.
Resumes ==
  /\ AtPc("switch")
  /\ splx(Top.swspl)
  /\ SetTop([Top EXCEPT !.at = "work"])
  /\ UNCHANGED rest

-----------------------------------------------------------------------------
(* Leaving *)

Quiet == AtPc("work") /\ Top.spin = 0 /\ ~Top.raised

\* done2
TellStack == cpustack' = me

IrqDone ==
  /\ Quiet /\ Top.code = "irq"
  /\ KASSERT(Top.adjust => curspl[me] = 1 /\ iplhigh[me] = 1)
  /\ curspl' = [curspl EXCEPT ![me] = IF Top.adjust THEN 0 ELSE @]
  /\ iplhigh' = [iplhigh EXCEPT ![me] = IF Top.adjust THEN @ - 1 ELSE @]
  /\ in_interrupt' = [in_interrupt EXCEPT ![me] = Top.old_in]
  /\ TellStack
  /\ SetTop([Top EXCEPT !.at = "exit"])
  /\ UNCHANGED <<curthread, irqs, usermode, badfault, paniced>>

\* syscall ends with its assertions; a fault that vm_fault has settled.
TrapDone ==
  /\ Quiet /\ Top.code \in {"sys", "tlb"}
  /\ KASSERT(Top.code = "sys" => curspl[me] = 0 /\ iplhigh[me] = 0)
  /\ irqs' = FALSE
  /\ TellStack
  /\ SetTop([Top EXCEPT !.at = "exit"])
  /\ UNCHANGED <<level, curthread, usermode, in_interrupt, badfault, paniced>>

\* A fatal fault: kill_curthread stops the system; in the kernel execution is moved to
\* copyfail if tm_badfaultfunc is set.
FatalFault ==
  /\ Quiet /\ Top.code = "tlb"
  /\ \/ /\ Top.user
        /\ paniced' = TRUE
        /\ UNCHANGED <<irqs, stk, cpustack, failed>>
     \/ /\ ~Top.user
        /\ KASSERT(badfault[me])
        /\ irqs' = FALSE
        /\ TellStack
        /\ SetTop([Top EXCEPT !.at = "exit", !.fail = TRUE])
        /\ UNCHANGED paniced
  /\ UNCHANGED <<level, curthread, usermode, in_interrupt, badfault>>

\* exception_return; copyfail longjmps to the copy below, which returns EFAULT.
exception_return ==
  /\ AtPc("exit")
  /\ irqs' = Top.ie
  /\ usermode' = Top.user
  /\ LET below == Front(stk[me])
     IN  stk' = [stk EXCEPT ![me] =
                  IF ~Top.fail THEN below ELSE [below EXCEPT ![Len(below)].at = "work"]]
  /\ badfault' = [badfault EXCEPT ![me] = @ /\ ~Top.fail]
  /\ UNCHANGED <<level, curthread, in_interrupt, cpustack, failed, paniced>>

\* enter_new_process and mips_usermode.
mips_usermode ==
  /\ Quiet /\ Top.code = "start"
  /\ curspl' = [curspl EXCEPT ![me] = 0]
  /\ iplhigh' = [iplhigh EXCEPT ![me] = IF curspl[me] = 1 THEN @ - 1 ELSE @]
  /\ TellStack
  /\ stk' = [stk EXCEPT ![me] = <<>>]
  /\ irqs' = TRUE
  /\ usermode' = TRUE
  /\ UNCHANGED <<curthread, in_interrupt, badfault, failed, paniced>>

trapNext ==
  \/ \E code \in {"irq", "sys", "tlb"} : common_exception(code)
  \/ IrqEntry \/ TrapEntry
  \/ spinlock_acquire \/ spinlock_release \/ splhigh \/ splxBack \/ CopyBegins \/ CopyEnds
  \/ \E u \in TThread : thread_switch(u) \/ IdleEnds(u)
  \/ IdleWindow \/ Resumes
  \/ IrqDone \/ TrapDone \/ FatalFault \/ exception_return \/ mips_usermode

trapSpec == trapInit /\ [][trapNext]_trapVars

-----------------------------------------------------------------------------
(* Properties *)

\* Addresses and lengths that a program chooses never take copyin and copyinstr
\* out of user space.
CopyIsConfined ==
  \A bot, len \in 0 .. AddrMax - 1 :
    CopyinTouches(bot, len) \cup CopystrTouches(bot, len) \subseteq 0 .. USERSPACETOP - 1

\* However traps, switches and failing copies are nested, what is recorded about
\* interrupts agrees with the processor: none is let in while a spinlock is held, the
\* level is high or an interrupt is handled, except in the idle loop; in user mode they are on, nothing is
\* left raised, and cpustacks[] names the thread that runs, so that its next trap finds
\* its own stack; tm_badfaultfunc is set just while its thread is in a copy; and
\* no assertion of trap.c and syscall.c fails.
InterruptStateAgrees ==
  /\ ~failed
  /\ CopyIsConfined
  /\ usermode =>
       /\ irqs /\ curspl[me] = 0 /\ iplhigh[me] = 0 /\ ~in_interrupt[me]
       /\ cpustack = me /\ stk[me] = <<>>
  /\ ~usermode /\ irqs /\ Top.at # "idle" =>
       curspl[me] = 0 /\ iplhigh[me] = 0 /\ ~in_interrupt[me] /\ Top.at # "exit"
  /\ \A t \in TThread : badfault[t] <=> \E i \in DOMAIN stk[t] : stk[t][i].at = "copy"
=============================================================================
