------------------------------ MODULE Console ------------------------------
(***************************************************************************)
(* The console (kern/dev/generic/console.c, kern/lib/kgets.c) on the       *)
(* serial port (kern/dev/lamebus/lser.c), with the dispatch of device      *)
(* interrupts by the bus (kern/dev/lamebus/lamebus.c).                     *)
(*                                                                         *)
(* Three parties share the port: threads, which read through a ring filled *)
(* by the interrupt handler and write with one interrupt per character;    *)
(* the handler, which runs on the boot cpu only; and a cpu that prints     *)
(* with interrupts off (kprintf in a handler or with a spinlock held),     *)
(* which polls the port and masks its interrupt meanwhile.                 *)
(***************************************************************************)
EXTENDS Integers, Sequences

CONSTANTS Reader,        \* threads that read the console
          Writer,        \* threads that write to it
          Ring,          \* CONSOLE_INPUT_BUFFER_SIZE
          CR,            \* which of the characters typed end a line
          MaxTyped,      \* bound: characters typed and accepted
          MaxLine,       \* bound: characters asked for or written by one call
          TooManyDuds,   \* 10000 in lamebus_interrupt
          Transient      \* whether a slot without a driver may raise its line

ASSUME ConsoleAssumption ==
  /\ Ring \in Nat \ {0, 1}
  /\ Reader \cap Writer = {}

VARIABLES
  cpc,        \* thread: "out"; reading "P_r", "load", "advance", "deliver";
              \* writing "P_w", "send"
  left,       \* characters its call still has to move (uio_resid)
  ret, at,    \* the character and the tail getch_intr has loaded
  gotchars, head, tail, rsem,      \* the input ring and its semaphore
  wsem,       \* count of cs_wsem
  wbusy,      \* ls_wbusy
  ls_lock,    \* ls_lock of the port: held by "poll", or free
  sending,    \* the port is sending a character
  wirq,       \* LSER_REG_WIRQ is active
  rirq,       \* LSER_REG_RIRQ is active
  bus_lock,   \* ls_lock of the bus: held by "irq", or free
  irqe,       \* the port's interrupt is enabled in CTLREG_IRQE
  noise,      \* a slot with no driver raises its line
  hpc,        \* the boot cpu's handler: "no", "enter", "scan", "lser", "start", "input",
              \* "advance", "back"
  irqs,       \* lamebus_interrupt's irqs: subset of {"lser", "other"}
  duds, dudsNow,
  clear_to_write, got_a_read,      \* locals of lser_irq
  ppc,        \* the polling cpu: "out", "mask", "lock", "busy", "put", "wait", "unmask"
  irqpending, \* local of lser_writepolled
  panicked,   \* why the kernel has panicked, or "no"
  typed,      \* history: characters accepted into the ring
  got,        \* history: the characters getch has returned, in order
  overrun     \* history: the port was given a character while it was sending one

conVars == <<cpc, left, ret, at, gotchars, head, tail, rsem, wsem, wbusy, ls_lock, sending,
             wirq, rirq, bus_lock, irqe, noise, hpc, irqs, duds, dudsNow, clear_to_write,
             got_a_read, ppc, irqpending, panicked, typed, got, overrun>>
threads == <<cpc, left, ret, at>>
ring == <<gotchars, head, tail, rsem, typed, got>>
port == <<wbusy, sending, wirq, overrun>>
bus == <<bus_lock, irqe, noise>>
dispatch == <<irqs, duds, dudsNow>>
handler == <<hpc, dispatch, clear_to_write, got_a_read>>
polling == <<ppc, irqpending>>

Caller == Reader \cup Writer

\* What was printed before the console was configured waits in delayed_outbuf and
\* is written first, by the boot thread.
conInit ==
  /\ \E boot \in Writer, n \in 0 .. MaxLine :
       /\ left = [t \in Caller |-> IF t = boot THEN n ELSE 0]
       /\ cpc = [t \in Caller |-> IF t = boot /\ n > 0 THEN "P_w" ELSE "out"]
  /\ ret = [t \in Caller |-> 0]
  /\ at = [t \in Caller |-> 0]
  /\ gotchars = [i \in 0 .. Ring - 1 |-> 0]
  /\ head = 0 /\ tail = 0 /\ rsem = 0
  /\ wsem = 1
  /\ wbusy = FALSE
  /\ ls_lock = "free" /\ bus_lock = "free"
  /\ sending = FALSE /\ wirq = FALSE /\ rirq = FALSE
  /\ irqe = TRUE
  /\ noise = FALSE
  /\ hpc = "no" /\ irqs = {} /\ duds = 0 /\ dudsNow = 0
  /\ clear_to_write = FALSE /\ got_a_read = FALSE
  /\ ppc = "out" /\ irqpending = FALSE
  /\ panicked = "no"
  /\ typed = 0 /\ got = << >>
  /\ overrun = FALSE

conGoto(t, label) == cpc' = [cpc EXCEPT ![t] = label]

-----------------------------------------------------------------------------
(* Reading: con_io and kgets, over getch *)

\* con_io with UIO_READ, or kgets.
ReadCall(t) ==
  /\ cpc[t] = "out"
  /\ t \in Reader
  /\ \E n \in 1 .. MaxLine : left' = [left EXCEPT ![t] = n]
  /\ conGoto(t, "P_r")
  /\ UNCHANGED <<ret, at, ring, wsem, ls_lock, port, rirq, bus, handler, polling, panicked>>

P_rsem(t) ==
  /\ cpc[t] = "P_r"
  /\ rsem > 0
  /\ rsem' = rsem - 1
  /\ conGoto(t, "load")
  /\ UNCHANGED <<left, ret, at, gotchars, head, tail, typed, got, wsem, ls_lock, port, rirq, bus,
                 handler, polling, panicked>>

\* getch_intr, under no lock: load the character at the tail, then advance it.
LoadChar(t) ==
  /\ cpc[t] = "load"
  /\ ret' = [ret EXCEPT ![t] = gotchars[tail]]
  /\ at' = [at EXCEPT ![t] = tail]
  /\ conGoto(t, "advance")
  /\ UNCHANGED <<left, ring, wsem, ls_lock, port, rirq, bus, handler, polling, panicked>>

AdvanceTail(t) ==
  /\ cpc[t] = "advance"
  /\ tail' = (at[t] + 1) % Ring
  /\ got' = Append(got, ret[t])
  /\ conGoto(t, "deliver")
  /\ UNCHANGED <<left, ret, at, gotchars, head, rsem, typed, wsem, ls_lock, port, rirq, bus,
                 handler, polling, panicked>>

\* The character goes to the caller's buffer; the call ends at the end of a line,
\* with the buffer full, or when the program's address is bad.
Deliver(t) ==
  /\ cpc[t] = "deliver"
  /\ \/ /\ ret[t] \notin CR /\ left[t] > 1
        /\ left' = [left EXCEPT ![t] = @ - 1]
        /\ conGoto(t, "P_r")
     \/ /\ left' = [left EXCEPT ![t] = 0]
        /\ conGoto(t, "out")
  /\ UNCHANGED <<ret, at, ring, wsem, ls_lock, port, rirq, bus, handler, polling, panicked>>

-----------------------------------------------------------------------------
(* Writing: con_io and kprintf, over putch *)

\* con_io with UIO_WRITE, or kprintf with interrupts on; a newline counts twice,
\* since a carriage return is put before it.
WriteCall(t) ==
  /\ cpc[t] = "out"
  /\ t \in Writer
  /\ \E n \in 1 .. MaxLine : left' = [left EXCEPT ![t] = n]
  /\ conGoto(t, "P_w")
  /\ UNCHANGED <<ret, at, ring, wsem, ls_lock, port, rirq, bus, handler, polling, panicked>>

\* putch_intr: P(cs_wsem), then cs_send.
P_wsem(t) ==
  /\ cpc[t] = "P_w"
  /\ wsem > 0
  /\ wsem' = wsem - 1
  /\ conGoto(t, "send")
  /\ UNCHANGED <<left, ret, at, ring, ls_lock, port, rirq, bus, handler, polling, panicked>>

\* Write LSER_REG_CHAR.
GiveChar ==
  /\ sending' = TRUE
  /\ overrun' = (overrun \/ sending)

\* lser_write panics if the port is not clear to write.
lser_write(t) ==
  /\ cpc[t] = "send"
  /\ ls_lock = "free"
  /\ \/ /\ wbusy
        /\ panicked' = "not clear to write"
        /\ UNCHANGED <<cpc, left, port>>
     \/ /\ ~wbusy
        /\ wbusy' = TRUE
        /\ GiveChar
        /\ left' = [left EXCEPT ![t] = @ - 1]
        /\ conGoto(t, IF left[t] > 1 THEN "P_w" ELSE "out")
        /\ UNCHANGED <<wirq, panicked>>
  /\ UNCHANGED <<ret, at, ring, wsem, ls_lock, rirq, bus, handler, polling>>

-----------------------------------------------------------------------------
(* Printing with interrupts off, one character *)

\* putch_prepare: mask the port's interrupt.
lser_startpolling ==
  /\ ppc = "out"
  /\ bus_lock = "free"
  /\ irqe' = FALSE
  /\ ppc' = "lock"
  /\ UNCHANGED <<threads, ring, wsem, ls_lock, port, rirq, bus_lock, noise, handler, irqpending, panicked>>

\* lser_writepolled: with a character under way, wait for it first and remember
\* that its interrupt is still owed to the writer.
PollLock ==
  /\ ppc = "lock"
  /\ ls_lock = "free"
  /\ ls_lock' = "poll"
  /\ irqpending' = wbusy
  /\ ppc' = IF wbusy THEN "busy" ELSE "put"
  /\ UNCHANGED <<threads, ring, wsem, port, rirq, bus, handler, panicked>>

PollReady ==
  /\ ppc = "busy"
  /\ wirq
  /\ wirq' = FALSE
  /\ ppc' = "put"
  /\ UNCHANGED <<threads, ring, wsem, ls_lock, wbusy, sending, overrun, rirq, bus, handler,
                 irqpending, panicked>>

PollPut ==
  /\ ppc = "put"
  /\ GiveChar
  /\ ppc' = "wait"
  /\ UNCHANGED <<threads, ring, wsem, ls_lock, wbusy, wirq, rirq, bus, handler, irqpending, panicked>>

\* Wait until it is done; clear the ready condition unless the handler has to see it.
PollDone ==
  /\ ppc = "wait"
  /\ wirq
  /\ wirq' = irqpending
  /\ ls_lock' = "free"
  /\ ppc' = "unmask"
  /\ UNCHANGED <<threads, ring, wsem, wbusy, sending, overrun, rirq, bus, handler,
                 irqpending, panicked>>

lser_endpolling ==
  /\ ppc = "unmask"
  /\ bus_lock = "free"
  /\ irqe' = TRUE
  /\ ppc' = "out"
  /\ UNCHANGED <<threads, ring, wsem, ls_lock, port, rirq, bus_lock, noise, handler, irqpending, panicked>>

-----------------------------------------------------------------------------
(* The port and the bus *)

\* The port has sent the character.
PortSends ==
  /\ sending
  /\ sending' = FALSE
  /\ wirq' = TRUE
  /\ UNCHANGED <<threads, ring, wsem, ls_lock, wbusy, overrun, rirq, bus, handler, polling, panicked>>

\* Somebody types a character.
PortReceives ==
  /\ ~rirq
  /\ typed < MaxTyped
  /\ rirq' = TRUE
  /\ UNCHANGED <<threads, ring, wsem, ls_lock, port, bus, handler, polling, panicked>>

\* A slot without a driver raises or drops its line.
OtherSlot ==
  /\ Transient
  /\ noise' = ~noise
  /\ UNCHANGED <<threads, ring, wsem, ls_lock, port, rirq, bus_lock, irqe, handler, polling, panicked>>

\* CTLREG_IRQS: the slots whose enabled lines are up.
Raised == (IF irqe /\ (wirq \/ rirq) THEN {"lser"} ELSE {})
          \cup (IF noise THEN {"other"} ELSE {})

\* The boot cpu takes the interrupt.
TakeInterrupt ==
  /\ hpc = "no"
  /\ Raised # {}
  /\ hpc' = "enter"
  /\ UNCHANGED <<threads, ring, wsem, ls_lock, port, rirq, bus, dispatch, clear_to_write,
                 got_a_read, polling, panicked>>

\* kprintf in a handler polls the port and asks the bus to mask its interrupt:
\* with the bus's own lock held, spinlock_acquire panics.
kprintfLocked == panicked' = "deadlock on bus lock"

\* lamebus_interrupt: lock the bus and read the lines.  None: a stray interrupt.
lamebus_interrupt ==
  /\ hpc = "enter"
  /\ bus_lock = "free"
  /\ bus_lock' = "irq"
  /\ irqs' = Raised
  /\ dudsNow' = 0
  /\ IF Raised = {} THEN kprintfLocked ELSE UNCHANGED panicked
  /\ hpc' = "scan"
  /\ UNCHANGED <<threads, ring, wsem, ls_lock, port, rirq, irqe, noise, duds, clear_to_write,
                 got_a_read, polling>>

\* The next line that is up belongs to the port: call its handler, bus unlocked.
CallHandler ==
  /\ hpc = "scan"
  /\ "lser" \in irqs
  /\ bus_lock' = "free"
  /\ hpc' = "lser"
  /\ UNCHANGED <<threads, ring, wsem, ls_lock, port, rirq, irqe, noise, dispatch, clear_to_write,
                 got_a_read, polling, panicked>>

\* The line belongs to nobody: count a dud.
CountDud ==
  /\ hpc = "scan"
  /\ irqs = {"other"}
  /\ irqs' = {}
  /\ duds' = duds + 1
  /\ dudsNow' = dudsNow + 1
  /\ UNCHANGED <<threads, ring, wsem, ls_lock, port, rirq, bus, hpc, clear_to_write,
                 got_a_read, polling, panicked>>

\* After the last slot: report the duds once they have gone, or panic.
Leave ==
  /\ hpc = "scan"
  /\ irqs = {}
  /\ hpc' = "no"
  /\ \/ /\ dudsNow = 0 /\ duds > 0
        /\ duds' = 0
        /\ kprintfLocked
        /\ UNCHANGED bus_lock
     \/ /\ duds > TooManyDuds
        /\ panicked' = "too many dud interrupts"
        /\ UNCHANGED <<duds, bus_lock>>
     \/ /\ dudsNow > 0 \/ duds = 0
        /\ duds <= TooManyDuds
        /\ bus_lock' = "free"
        /\ UNCHANGED <<duds, panicked>>
  /\ UNCHANGED <<threads, ring, wsem, ls_lock, port, rirq, irqe, noise, irqs, dudsNow,
                 clear_to_write, got_a_read, polling>>

\* Faulty variant: any interrupt of the port ends the write.
ClearsBusy ==
  /\ hpc = "lser"
  /\ ls_lock = "free"
  /\ clear_to_write' = wirq
  /\ wbusy' = FALSE
  /\ wirq' = FALSE
  /\ got_a_read' = rirq
  /\ rirq' = FALSE
  /\ hpc' = "start"
  /\ UNCHANGED <<threads, ring, wsem, ls_lock, sending, overrun, bus, dispatch, polling, panicked>>

\* lser_irq: under the port's lock, see what has happened and clear it.
lser_irq ==
  /\ hpc = "lser"
  /\ ls_lock = "free"
  /\ clear_to_write' = wirq
  /\ wbusy' = (wbusy /\ ~wirq)
  /\ wirq' = FALSE
  /\ got_a_read' = rirq
  /\ rirq' = FALSE
  /\ hpc' = "start"
  /\ UNCHANGED <<threads, ring, wsem, ls_lock, sending, overrun, bus, dispatch, polling, panicked>>

\* con_start: V(cs_wsem).
con_start ==
  /\ hpc = "start"
  /\ wsem' = IF clear_to_write THEN wsem + 1 ELSE wsem
  /\ hpc' = IF got_a_read THEN "input" ELSE "back"
  /\ UNCHANGED <<threads, ring, ls_lock, port, rirq, bus, dispatch, clear_to_write, got_a_read,
                 polling, panicked>>

\* con_input: drop the character if the ring is full; store it, then advance the
\* head and V(cs_rsem).
NeverFull == FALSE  \* faulty variant: the ring may go round
RingFull == (head + 1) % Ring = tail

con_input ==
  /\ hpc = "input"
  /\ IF RingFull
     THEN hpc' = "back" /\ UNCHANGED <<gotchars, typed>>
     ELSE /\ gotchars' = [gotchars EXCEPT ![head] = typed + 1]
          /\ typed' = typed + 1
          /\ hpc' = "advance"
  /\ UNCHANGED <<threads, head, tail, rsem, got, wsem, ls_lock, port, rirq, bus, dispatch,
                 clear_to_write, got_a_read, polling, panicked>>

InputDone ==
  /\ hpc = "advance"
  /\ head' = (head + 1) % Ring
  /\ rsem' = rsem + 1
  /\ hpc' = "back"
  /\ UNCHANGED <<threads, gotchars, tail, typed, got, wsem, ls_lock, port, rirq, bus, dispatch,
                 clear_to_write, got_a_read, polling, panicked>>

\* Back in lamebus_interrupt: lock the bus and reload the lines that come after
\* the port's slot.
HandlerReturns ==
  /\ hpc = "back"
  /\ bus_lock = "free"
  /\ bus_lock' = "irq"
  /\ irqs' = Raised \ {"lser"}
  /\ hpc' = "scan"
  /\ UNCHANGED <<threads, ring, wsem, ls_lock, port, rirq, irqe, noise, duds, dudsNow,
                 clear_to_write, got_a_read, polling, panicked>>

-----------------------------------------------------------------------------

ThreadStep(t) ==
  \/ P_rsem(t) \/ LoadChar(t) \/ AdvanceTail(t) \/ Deliver(t) \/ P_wsem(t) \/ lser_write(t)

PollStep == PollLock \/ PollReady \/ PollPut \/ PollDone \/ lser_endpolling

IrqStep ==
  \/ lamebus_interrupt \/ CallHandler \/ CountDud \/ Leave \/ lser_irq \/ con_start
  \/ con_input \/ InputDone \/ HandlerReturns

conNext ==
  /\ panicked = "no"
  /\ \/ \E t \in Caller : ReadCall(t) \/ WriteCall(t) \/ ThreadStep(t)
     \/ lser_startpolling \/ PollStep
     \/ PortSends \/ PortReceives \/ OtherSlot
     \/ TakeInterrupt \/ IrqStep

conSpec == conInit /\ [][conNext]_conVars

-----------------------------------------------------------------------------
(* Properties *)

\* What is in the ring, from the tail to the head.
InRing == [i \in 1 .. (head - tail) % Ring |-> gotchars[(tail + i - 1) % Ring]]
Held == IF hpc = "advance" THEN 1 ELSE 0

\* Every character accepted into the ring is read once and in the order typed, the
\* ring filling up and wrapping round included, and cs_rsem counts those that
\* nobody has taken yet.
InputIsKept ==
  /\ got \o InRing = [i \in 1 .. typed - Held |-> i]
  /\ rsem = Len(InRing) - (IF \E t \in Reader : cpc[t] \in {"load", "advance"} THEN 1 ELSE 0)

\* Writers, the handler and polled printing share the port without harm.  Nobody
\* gives it a character while it is sending one, and lser_write never finds it busy.
\* The turn to write is never lost or doubled: cs_wsem has it, or a thread that is
\* about to write, or the handler about to call con_start, or the port is busy; and
\* then it is sending, or its interrupt is still to come, also when polled printing
\* has used the port in between.
OutputIsKept ==
  /\ ~overrun /\ panicked # "not clear to write"
  /\ wsem + (IF \E t \in Writer : cpc[t] = "send" THEN 1 ELSE 0) + (IF wbusy THEN 1 ELSE 0)
     + (IF hpc = "start" /\ clear_to_write THEN 1 ELSE 0) = 1
  /\ wbusy => sending \/ wirq \/ (irqpending /\ ppc = "put")
=============================================================================
