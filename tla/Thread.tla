------------------------------- MODULE Thread -------------------------------
(***************************************************************************)
(* The multiprocessor thread system of the OS/161 kernel: kern/thread/     *)
(* thread.c (context switch, run queues, idling, fork and exit, migration, *)
(* wait channels), synch.c (semaphores) and clock.c (hardclock, lbolt).    *)
(*                                                                         *)
(* The processes are the cpus.  pc[c] is where cpu c is in the kernel:     *)
(*   "thread"   in the code of its current thread, interrupts on           *)
(*   "idle"     in cpu_idle(), interrupts on, waiting for an interrupt     *)
(* and, with interrupts off because a spinlock is held or a handler runs,  *)
(* one of the steps of P, V, wchan_wakeall, thread_switch or               *)
(* thread_consider_migration.  Interrupts are taken only at the first two. *)
(*                                                                         *)
(* A section that takes and releases a cpu's run queue lock is one step,   *)
(* guarded by that lock: everything it touches is read and written under   *)
(* the lock.  Locks that are held across other locks (a semaphore's        *)
(* spinlock, a wait channel's, the target's run queue lock in the          *)
(* migration loop) are variables.                                          *)
(***************************************************************************)
EXTENDS Threadlist, FiniteSets

CONSTANTS NumCpus,   \* number of cpus on the bus, numbered from 0
          Thread,    \* thread structures the kernel can have at once
          Sem,       \* semaphores
          lbolt,     \* the once-a-second wait channel
          NONE,      \* NULL
          MaxCount   \* bound on a semaphore's count (the code has none)

CPU == 0 .. NumCpus - 1
Wchan == Sem \cup {lbolt}

ASSUME ThreadAssumption ==
  /\ NumCpus \in Nat \ {0}
  /\ IsFiniteSet(Thread)
  /\ MaxCount \in Nat
  /\ lbolt \notin Sem
  /\ NONE \notin Thread \cup Wchan \cup CPU

\* The lists threads are linked on.
Run(c) == <<"run", c>>          \* c_runqueue
Zombies(c) == <<"zombies", c>>  \* c_zombies
Wake(c) == <<"wake", c>>        \* targets of the wakeup in progress on c
Victims(c) == <<"victims", c>>  \* victims of the migration in progress on c
Waiting(w) == <<"wchan", w>>    \* wc_threads

List == ({"run", "zombies", "wake", "victims"} \X CPU) \cup ({"wchan"} \X Wchan)

PC == {"thread", "idle", "recheck", "yield", "sleep", "P_wchan", "V_wakeone",
       "make_runnable", "mig_count", "mig_take", "mig_next", "mig_push"}

VARIABLES
  pc,         \* where each cpu is
  arg,        \* the wait channel cpu c is working on (NONE outside P, V, wakeall)
  curthread,  \* c_curthread
  c_isidle,   \* c_isidle
  ipi,        \* the interprocessor interrupt line of each cpu is raised
  lists,      \* every thread list
  rqlock,     \* holder of c_runqueue_lock, when held over several steps
  mig,        \* locals of thread_consider_migration
  t_state,    \* t_state; "none" when no such thread structure is allocated
  t_cpu,      \* t_cpu
  inP,        \* the semaphore the thread is in P() of, past the first test
  child,      \* thread_fork's newthread, until it is made runnable
  sem_count,  \* sem_count
  sem_lock,   \* holder of sem_lock
  wc_lock     \* holder of wc_lock

vars == <<pc, arg, curthread, c_isidle, ipi, lists, rqlock, mig, t_state, t_cpu,
          inP, child, sem_count, sem_lock, wc_lock>>
semVars == <<sem_count, sem_lock, wc_lock>>
migVars == <<rqlock, mig>>
procVars == <<inP, child>>

MigLocals == [i : Nat, total : Nat, my : Nat, share : Nat, send : Nat]
MigStart == [i |-> 0, total |-> 0, my |-> 0, share |-> 0, send |-> 0]

\* After thread_start_cpus: every cpu runs its boot thread, nothing is queued.
Init ==
  /\ pc = [c \in CPU |-> "thread"]
  /\ arg = [c \in CPU |-> NONE]
  /\ curthread \in [CPU -> Thread]
  /\ c_isidle = [c \in CPU |-> FALSE]
  /\ ipi = [c \in CPU |-> FALSE]
  /\ lists = [l \in List |-> <<>>]
  /\ rqlock = [c \in CPU |-> NONE]
  /\ mig = [c \in CPU |-> MigStart]
  /\ t_state = [t \in Thread |->
                  IF \E c \in CPU : curthread[c] = t THEN "run" ELSE "none"]
  /\ t_cpu \in [Thread -> CPU]
  /\ \A c \in CPU : t_cpu[curthread[c]] = c
  /\ \A t \in Thread : t_state[t] = "none" => t_cpu[t] = 0
  /\ inP = [t \in Thread |-> NONE]
  /\ child = [t \in Thread |-> NONE]
  /\ sem_count \in [Sem -> 0 .. MaxCount]
  /\ sem_lock = [s \in Sem |-> NONE]
  /\ wc_lock = [w \in Wchan |-> NONE]

-----------------------------------------------------------------------------
(* Context switch *)

\* Where an interrupt handler of cpu c returns to: out of cpu_idle() into the
\* loop of thread_switch if it interrupted the idle loop, else the thread.
Resume(c) == IF c_isidle[c] THEN "recheck" ELSE "thread"

Goto(c, label) == pc' = [pc EXCEPT ![c] = label]

InterruptsOn(c) == pc[c] \in {"thread", "idle"}

\* The current thread of c is executing its own code, outside P and thread_fork.
InThread(c) ==
  /\ pc[c] = "thread"
  /\ inP[curthread[c]] = NONE
  /\ child[curthread[c]] = NONE

\* thread_make_runnable: queue the target on its own cpu, which is interrupted
\* if it is idle.
Enqueue(L, t) == AddTail(L, Run(t_cpu[t]), t)

\* Faulty variant: nobody is called.
UnidleNobody(d) == ipi' = ipi

Unidle(d) == ipi' = [ipi EXCEPT ![d] = ipi[d] \/ c_isidle[d]]

\* exorcise(): the structures of the zombies of c are freed.
Exorcised(L, c) == [L EXCEPT ![Zombies(c)] = <<>>]
AfterExorcise(L, c, states) ==
  [t \in Thread |-> IF On(L, Zombies(c), t) THEN "none" ELSE states[t]]
Forget(L, c) == [t \in Thread |-> IF On(L, Zombies(c), t) THEN 0 ELSE t_cpu[t]]

\* Faulty variant of Idle: the zombies are freed before the cpu has left their
\* stacks.
IdleExorcises(c, L, states) ==
  /\ L[Run(c)] = <<>>
  /\ lists' = Exorcised(L, c)
  /\ t_state' = AfterExorcise(L, c, states)
  /\ t_cpu' = Forget(L, c)
  /\ c_isidle' = [c_isidle EXCEPT ![c] = TRUE]
  /\ Goto(c, "idle")
  /\ UNCHANGED curthread

\* thread_switch from the point where the current thread has been put on its
\* list: L and states are the lists and the thread states by then.  With an
\* empty run queue the cpu idles, its current thread still the old one.
Idle(c, L, states) ==
  /\ L[Run(c)] = <<>>
  /\ lists' = L
  /\ t_state' = states
  /\ c_isidle' = [c_isidle EXCEPT ![c] = TRUE]
  /\ Goto(c, "idle")
  /\ UNCHANGED <<curthread, t_cpu>>

\* Otherwise the head of the run queue runs; in its context the zombies go.
SwitchTo(c, next, L, states) ==
  /\ L[Run(c)] # <<>>
  /\ next = Head(L[Run(c)])
  /\ lists' = Exorcised(RemHead(L, Run(c)), c)
  /\ t_state' = [AfterExorcise(L, c, states) EXCEPT ![next] = "run"]
  /\ c_isidle' = [c_isidle EXCEPT ![c] = FALSE]
  /\ curthread' = [curthread EXCEPT ![c] = next]
  /\ t_cpu' = Forget(L, c)
  /\ Goto(c, "thread")

Dispatch(c, L, states) ==
  Idle(c, L, states) \/ \E next \in Thread : SwitchTo(c, next, L, states)

SetState(t, s) == [t_state EXCEPT ![t] = s]

\* cpu_idle() has returned: retake the lock and look at the run queue again.
Recheck(c) ==
  /\ pc[c] = "recheck"
  /\ rqlock[c] = NONE
  /\ Dispatch(c, lists, t_state)
  /\ UNCHANGED <<arg, ipi, migVars, procVars, semVars>>

\* thread_yield at the end of hardclock(): nothing happens when the cpu is idle
\* or has nothing else to run.
YieldReturns(c) ==
  /\ pc[c] = "yield"
  /\ c_isidle[c] \/ (rqlock[c] = NONE /\ lists[Run(c)] = <<>>)
  /\ Goto(c, Resume(c))
  /\ UNCHANGED <<arg, curthread, c_isidle, ipi, lists, migVars, t_state, t_cpu,
                 procVars, semVars>>

YieldSwitches(c) ==
  /\ pc[c] = "yield"
  /\ ~c_isidle[c]
  /\ rqlock[c] = NONE
  /\ lists[Run(c)] # <<>>
  /\ Dispatch(c, AddTail(lists, Run(c), curthread[c]), SetState(curthread[c], "ready"))
  /\ UNCHANGED <<arg, ipi, migVars, procVars, semVars>>

\* Faulty variant: the dead thread stays on the run queue.
ExitRunnable(c) ==
  /\ InThread(c)
  /\ rqlock[c] = NONE
  /\ Dispatch(c, AddTail(lists, Run(c), curthread[c]), SetState(curthread[c], "zombie"))
  /\ UNCHANGED <<arg, ipi, migVars, procVars, semVars>>

\* thread_exit: what it releases first (cwd, address space) is not modelled.
thread_exit(c) ==
  /\ InThread(c)
  /\ rqlock[c] = NONE
  /\ Dispatch(c, AddTail(lists, Zombies(c), curthread[c]), SetState(curthread[c], "zombie"))
  /\ UNCHANGED <<arg, ipi, migVars, procVars, semVars>>

\* wchan_sleep with the channel locked: thread_switch(S_SLEEP) queues the thread
\* and unlocks the channel.
wchan_sleep(c) ==
  /\ pc[c] = "sleep"
  /\ rqlock[c] = NONE
  /\ Dispatch(c, AddTail(lists, Waiting(arg[c]), curthread[c]), SetState(curthread[c], "sleep"))
  /\ wc_lock' = [wc_lock EXCEPT ![arg[c]] = NONE]
  /\ arg' = [arg EXCEPT ![c] = NONE]
  /\ UNCHANGED <<ipi, migVars, procVars, sem_count, sem_lock>>

-----------------------------------------------------------------------------
(* thread_fork *)

\* The new structure, on the cpu of its parent; thread_fork can be preempted here.
thread_fork(c, new) ==
  /\ InThread(c)
  /\ t_state[new] = "none"
  /\ t_state' = SetState(new, "ready")
  /\ t_cpu' = [t_cpu EXCEPT ![new] = t_cpu[curthread[c]]]
  /\ child' = [child EXCEPT ![curthread[c]] = new, ![new] = NONE]
  /\ inP' = [inP EXCEPT ![new] = NONE]
  /\ UNCHANGED <<pc, arg, curthread, c_isidle, ipi, lists, migVars, semVars>>

ForkMakeRunnable(c) ==
  LET new == child[curthread[c]]
  IN  /\ pc[c] = "thread"
      /\ new # NONE
      /\ rqlock[t_cpu[new]] = NONE
      /\ lists' = Enqueue(lists, new)
      /\ Unidle(t_cpu[new])
      /\ child' = [child EXCEPT ![curthread[c]] = NONE]
      /\ UNCHANGED <<pc, arg, curthread, c_isidle, migVars, t_state, t_cpu, inP, semVars>>

-----------------------------------------------------------------------------
(* Semaphores and wait channels *)

\* The thread of c is about to test the count of s, first time or after a sleep.
AtP(c, s) ==
  /\ pc[c] = "thread"
  /\ child[curthread[c]] = NONE
  /\ inP[curthread[c]] \in {NONE, s}
  /\ sem_lock[s] = NONE

\* P(s) with a positive count: decrement and return.
PTake(c, s) ==
  /\ AtP(c, s)
  /\ sem_count[s] > 0
  /\ sem_count' = [sem_count EXCEPT ![s] = @ - 1]
  /\ inP' = [inP EXCEPT ![curthread[c]] = NONE]
  /\ UNCHANGED <<pc, arg, curthread, c_isidle, ipi, lists, migVars, t_state, t_cpu,
                 child, sem_lock, wc_lock>>

\* Faulty variant: sem_lock is released before the channel is locked.
PZeroUnlocks(c, s) ==
  /\ AtP(c, s)
  /\ sem_count[s] = 0
  /\ inP' = [inP EXCEPT ![curthread[c]] = s]
  /\ arg' = [arg EXCEPT ![c] = s]
  /\ Goto(c, "P_wchan")
  /\ UNCHANGED <<curthread, c_isidle, ipi, lists, migVars, t_state, t_cpu, child, semVars>>

\* P(s) with a zero count keeps sem_lock until it holds the channel's lock.
PZero(c, s) ==
  /\ AtP(c, s)
  /\ sem_count[s] = 0
  /\ sem_lock' = [sem_lock EXCEPT ![s] = c]
  /\ inP' = [inP EXCEPT ![curthread[c]] = s]
  /\ arg' = [arg EXCEPT ![c] = s]
  /\ Goto(c, "P_wchan")
  /\ UNCHANGED <<curthread, c_isidle, ipi, lists, migVars, t_state, t_cpu, child,
                 sem_count, wc_lock>>

\* wchan_lock(sem_wchan), then spinlock_release(sem_lock).
PBridge(c) ==
  /\ pc[c] = "P_wchan"
  /\ wc_lock[arg[c]] = NONE
  /\ wc_lock' = [wc_lock EXCEPT ![arg[c]] = c]
  /\ sem_lock' = [sem_lock EXCEPT ![arg[c]] = NONE]
  /\ Goto(c, "sleep")
  /\ UNCHANGED <<arg, curthread, c_isidle, ipi, lists, migVars, t_state, t_cpu,
                 procVars, sem_count>>

\* V(s), by the current thread or by a device's interrupt handler.
V(c, s) ==
  /\ InterruptsOn(c)
  /\ sem_lock[s] = NONE
  /\ sem_count[s] < MaxCount
  /\ sem_lock' = [sem_lock EXCEPT ![s] = c]
  /\ sem_count' = [sem_count EXCEPT ![s] = @ + 1]
  /\ arg' = [arg EXCEPT ![c] = s]
  /\ Goto(c, "V_wakeone")
  /\ UNCHANGED <<curthread, c_isidle, ipi, lists, migVars, t_state, t_cpu, procVars,
                 wc_lock>>

\* wchan_wakeone: with no sleeper V just releases sem_lock and returns.
wchan_wakeone(c) ==
  /\ pc[c] = "V_wakeone"
  /\ wc_lock[arg[c]] = NONE
  /\ \/ /\ lists[Waiting(arg[c])] = <<>>
        /\ sem_lock' = [sem_lock EXCEPT ![arg[c]] = NONE]
        /\ arg' = [arg EXCEPT ![c] = NONE]
        /\ Goto(c, Resume(c))
        /\ UNCHANGED lists
     \/ /\ lists[Waiting(arg[c])] # <<>>
        /\ lists' = MoveHead(lists, Waiting(arg[c]), Wake(c))
        /\ Goto(c, "make_runnable")
        /\ UNCHANGED <<sem_lock, arg>>
  /\ UNCHANGED <<curthread, c_isidle, ipi, migVars, t_state, t_cpu, procVars,
                 sem_count, wc_lock>>

\* thread_make_runnable of the next target; after the last one the caller is
\* done (V releases sem_lock).
MakeRunnable(c) ==
  LET target == Head(lists[Wake(c)])
      last == Len(lists[Wake(c)]) = 1
  IN  /\ pc[c] = "make_runnable"
      /\ rqlock[t_cpu[target]] = NONE
      /\ lists' = Enqueue(RemHead(lists, Wake(c)), target)
      /\ Unidle(t_cpu[target])
      /\ pc' = IF last THEN [pc EXCEPT ![c] = Resume(c)] ELSE pc
      /\ arg' = IF last THEN [arg EXCEPT ![c] = NONE] ELSE arg
      /\ sem_lock' = IF last /\ arg[c] \in Sem
                     THEN [sem_lock EXCEPT ![arg[c]] = NONE] ELSE sem_lock
      /\ UNCHANGED <<curthread, c_isidle, migVars, t_state, t_cpu, procVars,
                     sem_count, wc_lock>>

\* clocksleep(1): sleep on lbolt.
clocksleep(c) ==
  /\ InThread(c)
  /\ wc_lock[lbolt] = NONE
  /\ wc_lock' = [wc_lock EXCEPT ![lbolt] = c]
  /\ arg' = [arg EXCEPT ![c] = lbolt]
  /\ Goto(c, "sleep")
  /\ UNCHANGED <<curthread, c_isidle, ipi, lists, migVars, t_state, t_cpu, procVars,
                 sem_count, sem_lock>>

\* timerclock(), in the timer's interrupt handler: wchan_wakeall(lbolt) moves the
\* sleepers to a private list first.
timerclock(c) ==
  /\ InterruptsOn(c)
  /\ wc_lock[lbolt] = NONE
  /\ lists' = MoveAll(lists, Waiting(lbolt), Wake(c))
  /\ IF lists[Waiting(lbolt)] = <<>>
     THEN Goto(c, Resume(c)) /\ UNCHANGED arg
     ELSE Goto(c, "make_runnable") /\ arg' = [arg EXCEPT ![c] = lbolt]
  /\ UNCHANGED <<curthread, c_isidle, ipi, migVars, t_state, t_cpu, procVars, semVars>>

-----------------------------------------------------------------------------
(* Interrupts *)

\* An interprocessor interrupt: IPI_UNIDLE asks for nothing but the return from
\* cpu_idle(); the line is cleared.
IpiInterrupt(c) ==
  /\ InterruptsOn(c)
  /\ ipi[c]
  /\ ipi' = [ipi EXCEPT ![c] = FALSE]
  /\ Goto(c, Resume(c))
  /\ UNCHANGED <<arg, curthread, c_isidle, lists, migVars, t_state, t_cpu, procVars,
                 semVars>>

\* hardclock(): c_hardclocks is left out, so any tick may be the one in
\* MIGRATE_HARDCLOCKS that considers migration.  A thread that calls
\* thread_yield itself does the same as a tick without migration.
hardclock(c) ==
  /\ InterruptsOn(c)
  /\ \E label \in {"yield", "mig_count"} : Goto(c, label)
  /\ UNCHANGED <<arg, curthread, c_isidle, ipi, lists, migVars, t_state, t_cpu,
                 procVars, semVars>>

-----------------------------------------------------------------------------
(* thread_consider_migration *)

DIVROUNDUP(a, b) == (a + b - 1) \div b

\* `c == curcpu->c_self', and a faulty variant that takes any cpu's count for its own.
AnyCpu(c, i) == TRUE
ThisCpu(c, i) == i = c

\* Add up the run queues, one lock at a time.
MigCount(c) ==
  LET i == mig[c].i
  IN  /\ pc[c] = "mig_count"
      /\ i < NumCpus
      /\ rqlock[i] = NONE
      /\ mig' = [mig EXCEPT ![c].i = i + 1,
                            ![c].total = @ + Len(lists[Run(i)]),
                            ![c].my = IF ThisCpu(c, i) THEN Len(lists[Run(i)]) ELSE @]
      /\ UNCHANGED <<pc, arg, curthread, c_isidle, ipi, lists, rqlock, t_state, t_cpu,
                     procVars, semVars>>

\* The cpu has less than its share; a faulty variant forgets to test it.
NeverShort(my, share) == FALSE
Short(my, share) == my < share

\* one_share and to_send; a cpu with less than its share returns.
MigDecide(c) ==
  LET share == DIVROUNDUP(mig[c].total, NumCpus)
  IN  /\ pc[c] = "mig_count"
      /\ mig[c].i = NumCpus
      /\ \/ /\ Short(mig[c].my, share)
            /\ mig' = [mig EXCEPT ![c] = MigStart]
            /\ Goto(c, "yield")
         \/ /\ ~Short(mig[c].my, share)
            /\ mig' = [mig EXCEPT ![c] = [MigStart EXCEPT !.share = share,
                                                          !.send = mig[c].my - share]]
            /\ Goto(c, "mig_take")
      /\ UNCHANGED <<arg, curthread, c_isidle, ipi, lists, rqlock, t_state, t_cpu,
                     procVars, semVars>>

\* One iteration of the loop that takes to_send threads off the tail of the run
\* queue (its lock is held from the first iteration to the last; i counts them).
MigTake(c) ==
  /\ pc[c] = "mig_take"
  /\ mig[c].i < mig[c].send
  /\ rqlock[c] \in {NONE, c}
  /\ rqlock' = [rqlock EXCEPT ![c] = c]
  /\ lists' = MoveTail(lists, Run(c), Victims(c))
  /\ mig' = [mig EXCEPT ![c].i = @ + 1]
  /\ UNCHANGED <<pc, arg, curthread, c_isidle, ipi, t_state, t_cpu, procVars, semVars>>

MigTaken(c) ==
  /\ pc[c] = "mig_take"
  /\ mig[c].i = mig[c].send
  /\ rqlock[c] \in {NONE, c}
  /\ rqlock' = [rqlock EXCEPT ![c] = NONE]
  /\ mig' = [mig EXCEPT ![c].i = 0]
  /\ Goto(c, "mig_next")
  /\ UNCHANGED <<arg, curthread, c_isidle, ipi, lists, t_state, t_cpu, procVars, semVars>>

MigMore(c) == mig[c].i < NumCpus /\ mig[c].send > 0

\* The next cpu of the distribution loop; the migrating cpu skips itself.
MigNext(c) ==
  LET d == mig[c].i
  IN  /\ pc[c] = "mig_next"
      /\ MigMore(c)
      /\ \/ /\ d = c
            /\ mig' = [mig EXCEPT ![c].i = @ + 1]
            /\ UNCHANGED <<pc, rqlock>>
         \/ /\ d # c
            /\ rqlock[d] = NONE
            /\ rqlock' = [rqlock EXCEPT ![d] = c]
            /\ Goto(c, "mig_push")
            /\ UNCHANGED mig
      /\ UNCHANGED <<arg, curthread, c_isidle, ipi, lists, t_state, t_cpu, procVars, semVars>>

MigRoom(c) == Len(lists[Run(mig[c].i)]) < mig[c].share /\ mig[c].send > 0

\* The victim is the thread this code runs in; a faulty variant forgets to test it.
NeverCurrent(c, t) == FALSE
Current(c, t) == t = curthread[c]

\* One victim, with the target's run queue locked: the current thread is put
\* behind the others, any other moves to the target cpu.
MigPush(c) ==
  LET d == mig[c].i
      t == Head(lists[Victims(c)])
  IN  /\ pc[c] = "mig_push"
      /\ MigRoom(c)
      /\ mig' = [mig EXCEPT ![c].send = @ - 1]
      /\ \/ /\ Current(c, t)
            /\ lists' = MoveHead(lists, Victims(c), Victims(c))
            /\ UNCHANGED <<t_cpu, ipi>>
         \/ /\ ~Current(c, t)
            /\ t_cpu' = [t_cpu EXCEPT ![t] = d]
            /\ lists' = MoveHead(lists, Victims(c), Run(d))
            /\ Unidle(d)
      /\ UNCHANGED <<pc, arg, curthread, c_isidle, rqlock, t_state, procVars, semVars>>

\* Faulty variant: the target's run queue stays locked.
MigKeepsLock(c) ==
  /\ pc[c] = "mig_push"
  /\ ~MigRoom(c)
  /\ mig' = [mig EXCEPT ![c].i = @ + 1]
  /\ Goto(c, "mig_next")
  /\ UNCHANGED <<arg, curthread, c_isidle, ipi, lists, rqlock, t_state, t_cpu, procVars, semVars>>

\* The loop is over for this target: release its lock and go to the next cpu.
MigUnlock(c) ==
  /\ pc[c] = "mig_push"
  /\ ~MigRoom(c)
  /\ rqlock' = [rqlock EXCEPT ![mig[c].i] = NONE]
  /\ mig' = [mig EXCEPT ![c].i = @ + 1]
  /\ Goto(c, "mig_next")
  /\ UNCHANGED <<arg, curthread, c_isidle, ipi, lists, t_state, t_cpu, procVars, semVars>>

\* Leftovers go back on the cpu's own run queue; hardclock() goes on to yield.
MigBack(c) ==
  /\ pc[c] = "mig_next"
  /\ ~MigMore(c)
  /\ lists[Victims(c)] # <<>> => rqlock[c] = NONE
  /\ lists' = MoveAll(lists, Victims(c), Run(c))
  /\ mig' = [mig EXCEPT ![c] = MigStart]
  /\ Goto(c, "yield")
  /\ UNCHANGED <<arg, curthread, c_isidle, ipi, rqlock, t_state, t_cpu, procVars, semVars>>

-----------------------------------------------------------------------------

\* Steps a cpu takes with interrupts off: it can only be held up by a spinlock.
KernelStep(c) ==
  \/ Recheck(c) \/ YieldReturns(c) \/ YieldSwitches(c) \/ wchan_sleep(c)
  \/ PBridge(c) \/ wchan_wakeone(c) \/ MakeRunnable(c)
  \/ MigCount(c) \/ MigDecide(c) \/ MigTake(c) \/ MigTaken(c)
  \/ MigNext(c) \/ MigPush(c) \/ MigUnlock(c) \/ MigBack(c)

\* What the current thread of c may do next.
ThreadStep(c) ==
  \/ thread_exit(c) \/ clocksleep(c) \/ ForkMakeRunnable(c)
  \/ \E new \in Thread : thread_fork(c, new)
  \/ \E s \in Sem : PTake(c, s) \/ PZero(c, s)

\* Interrupts (V is also called by threads).
Interrupt(c) ==
  \/ IpiInterrupt(c) \/ hardclock(c) \/ timerclock(c)
  \/ \E s \in Sem : V(c, s)

Next == \E c \in CPU : KernelStep(c) \/ ThreadStep(c) \/ Interrupt(c)

Spec == Init /\ [][Next]_vars

\* The fairness of the machine.  KernelStep: a cpu with interrupts off keeps
\* executing; the locks it spins on are free infinitely often and released by
\* steps of this kind.  Interrupt lines stay raised until they are served, so an
\* interrupt that can be taken infinitely often is taken.
Fairness ==
  \A c \in CPU : /\ WF_vars(KernelStep(c))
                /\ SF_vars(IpiInterrupt(c))
                /\ SF_vars(hardclock(c))

-----------------------------------------------------------------------------
(* Properties *)

TypeOK ==
  /\ pc \in [CPU -> PC]
  /\ arg \in [CPU -> Wchan \cup {NONE}]
  /\ curthread \in [CPU -> Thread]
  /\ c_isidle \in [CPU -> BOOLEAN]
  /\ ipi \in [CPU -> BOOLEAN]
  /\ lists \in [List -> Seq(Thread)]
  /\ rqlock \in [CPU -> CPU \cup {NONE}]
  /\ mig \in [CPU -> MigLocals]
  /\ t_state \in [Thread -> {"none", "run", "ready", "sleep", "zombie"}]
  /\ t_cpu \in [Thread -> CPU]
  /\ inP \in [Thread -> Sem \cup {NONE}]
  /\ child \in [Thread -> Thread \cup {NONE}]
  /\ sem_count \in [Sem -> Nat]
  /\ sem_lock \in [Sem -> CPU \cup {NONE}]
  /\ wc_lock \in [Wchan -> CPU \cup {NONE}]

OnNoList(t) == \A l \in List : ~On(lists, l, t)

\* A thread is the current thread of one cpu at most, the one it is assigned to
\* (thread_switch asserts curthread->t_cpu == curcpu), and no run queue of
\* another cpu holds it: its stack is never live on two cpus.  This is what the
\* skip of curthread in thread_consider_migration is for.
OneCpuPerThread ==
  \A c \in CPU :
     /\ t_cpu[curthread[c]] = c
     /\ \A d \in CPU \ {c} : /\ curthread[d] # curthread[c]
                             /\ ~On(lists, Run(d), curthread[c])

\* The list node of a thread is linked at most once, and not at all while the
\* thread executes: what threadlist_insert*node assert of every insertion.
OneListPerThread ==
  /\ Linked(lists)
  /\ \A c \in CPU : ~c_isidle[c] => OnNoList(curthread[c])

\* Nothing refers to a thread structure that thread_destroy has freed: no list,
\* no cpu (an idle one still runs on the stack of its last thread), no parent in
\* the middle of thread_fork.
NoDanglingThread ==
  \A t \in Thread : t_state[t] = "none" =>
     /\ OnNoList(t)
     /\ \A c \in CPU : curthread[c] # t
     /\ \A p \in Thread : child[p] # t

\* Threads woken from s that have not tested its count again yet.
Awake(s) ==
  {t \in Thread : /\ inP[t] = s
                  /\ ~On(lists, Waiting(s), t)
                  /\ ~\E c \in CPU : curthread[c] = t /\ pc[c] \in {"P_wchan", "sleep"}}

\* A V that has counted but not yet looked for a sleeper.
PendingV(s) == {c \in CPU : pc[c] = "V_wakeone" /\ arg[c] = s}

\* No wakeup is lost: while threads sleep on a semaphore, every unit of its
\* count is accounted for by a thread on its way to take it or by a V on its way
\* to wake one.  P's bridge from sem_lock to the channel's lock is what makes it
\* true.
NoLostWakeup ==
  \A s \in Sem : lists[Waiting(s)] # <<>> =>
     sem_count[s] <= Cardinality(Awake(s)) + Cardinality(PendingV(s))

\* thread_consider_migration counts the run queues, unlocks, and later removes
\* to_send threads: the queues never have fewer by then, so threadlist_remtail
\* and threadlist_remhead never return the NULL the code does not check for.
MigrationFindsThreads ==
  \A c \in CPU :
     /\ pc[c] = "mig_take" => Len(lists[Run(c)]) >= mig[c].send - mig[c].i
     /\ pc[c] \in {"mig_next", "mig_push"} => Len(lists[Victims(c)]) >= mig[c].send

\* A cpu that waits in cpu_idle() while a thread is on its run queue has its
\* interrupt line raised: whoever put the thread there saw c_isidle under the
\* run queue lock and called the cpu.
IdleCpuIsCalled ==
  \A c \in CPU : pc[c] = "idle" /\ lists[Run(c)] # <<>> => ipi[c]

\* A thread that has exited never runs again ("The zombie walks!"): its
\* structure stays on the zombie list until it is freed.
ZombiesStayDead ==
  [][\A t \in Thread : t_state[t] = "zombie" => t_state'[t] \in {"zombie", "none"}]_vars

\* A cpu with interrupts off gets them back: no cycle of spinlocks, no handler
\* that goes on for ever.
InterruptsComeBack ==
  \A c \in CPU : ~InterruptsOn(c) ~> InterruptsOn(c)

\* A thread made runnable is run, on whichever cpu it ends up: no idle cpu
\* sleeps through the IPI for it, no migration carries it around for ever.
Runs(t) == (\E c \in CPU : On(lists, Run(c), t)) ~>
              (\E c \in CPU : curthread[c] = t /\ ~c_isidle[c])

=============================================================================
