---------------------------- MODULE WakeupProofs ----------------------------
(***************************************************************************)
(* What exits stays dead and what sleeps is woken: the zombie lists of     *)
(* thread_exit and the protocol of P, V and the wait channels, for any     *)
(* number of cpus, threads and semaphores.  Both rest on ThreadProofs'     *)
(* inductive invariant IInv.                                               *)
(***************************************************************************)
EXTENDS ThreadProofs, FiniteSetTheorems

\* The zombies are the threads on the zombie lists of the cpus.
ZombiesKept(L, st) ==
  \A t \in Thread : st[t] = "zombie" <=> \E c \in CPU : On(L, Zombies(c), t)

\* What a step does to the threads that have exited.
DeadStay == \A t \in Thread : t_state[t] = "zombie" => t_state'[t] \in {"zombie", "none"}

-----------------------------------------------------------------------------
(* Lists that an operation leaves alone *)

LEMMA OtherLists ==
  ASSUME NEW L \in [List -> Seq(Thread)], NEW a \in List, NEW b \in List,
         NEW m \in List, m # a, m # b
  PROVE  /\ \A t : AddTail(L, a, t)[m] = L[m]
         /\ RemHead(L, a)[m] = L[m]
         /\ MoveHead(L, a, b)[m] = L[m]
         /\ MoveTail(L, a, b)[m] = L[m]
         /\ MoveAll(L, a, b)[m] = L[m]
  BY DEF AddTail, AddHead, RemHead, RemTail, MoveHead, MoveTail, MoveAll

LEMMA ZombieFrame ==
  ASSUME ZombiesKept(lists, t_state), UNCHANGED t_state,
         \A c \in CPU : lists'[Zombies(c)] = lists[Zombies(c)]
  PROVE  ZombiesKept(lists', t_state') /\ DeadStay
  BY DEF ZombiesKept, DeadStay, On

-----------------------------------------------------------------------------
(* Zombies through thread_switch *)

LEMMA DispatchKeeps ==
  ASSUME NEW c \in CPU, NEW L \in [List -> Seq(Thread)], NEW st \in [Thread -> State],
         TypeOK, Linked(L), ZombiesKept(L, st), Dispatch(c, L, st)
  PROVE  /\ ZombiesKept(lists', t_state')
         /\ \A t \in Thread : st[t] = "zombie" => t_state'[t] \in {"zombie", "none"}
         /\ \A t \in Thread : t_state'[t] \in {"none", "zombie"} => st[t] \in {"none", "zombie"}
         /\ \A m \in List : m # Run(c) /\ m # Zombies(c) => lists'[m] = L[m]
         /\ \A d \in CPU : d # c => curthread'[d] = curthread[d] /\ pc'[d] = pc[d]
         /\ pc'[c] \in {"idle", "thread"}
<1>1. CASE Idle(c, L, st)
  <2>1. /\ lists' = L /\ t_state' = st /\ curthread' = curthread
        /\ pc' = [pc EXCEPT ![c] = "idle"]
    BY <1>1 DEF Idle, Goto
  <2> QED
    BY <2>1 DEF TypeOK
<1>2. ASSUME NEW next \in Thread, SwitchTo(c, next, L, st)
      PROVE  /\ ZombiesKept(lists', t_state')
             /\ \A t \in Thread : st[t] = "zombie" => t_state'[t] \in {"zombie", "none"}
             /\ \A t \in Thread : t_state'[t] \in {"none", "zombie"} => st[t] \in {"none", "zombie"}
             /\ \A m \in List : m # Run(c) /\ m # Zombies(c) => lists'[m] = L[m]
             /\ \A d \in CPU : d # c => curthread'[d] = curthread[d] /\ pc'[d] = pc[d]
             /\ pc'[c] \in {"idle", "thread"}
  <2>1. /\ L[Run(c)] # <<>> /\ next = Head(L[Run(c)])
        /\ lists' = Exorcised(RemHead(L, Run(c)), c)
        /\ t_state' = [AfterExorcise(L, c, st) EXCEPT ![next] = "run"]
        /\ curthread' = [curthread EXCEPT ![c] = next]
        /\ pc' = [pc EXCEPT ![c] = "thread"]
    BY <1>2 DEF SwitchTo, Goto
  <2>2. /\ On(L, Run(c), next)
        /\ \A m \in List, u \in Thread :
              On(lists', m, u) <=> On(L, m, u) /\ u # next /\ m # Zombies(c)
        /\ \A m \in List : m # Run(c) /\ m # Zombies(c) => lists'[m] = L[m]
    BY <2>1, SwitchLists
  <2>3. /\ t_state'[next] = "run"
        /\ \A t \in Thread : t # next =>
              t_state'[t] = IF On(L, Zombies(c), t) THEN "none" ELSE st[t]
    BY <2>1 DEF AfterExorcise
  <2>4. Run(c) \in List /\ \A d \in CPU : Zombies(d) \in List /\ Zombies(d) # Run(c)
    BY ListIds
  <2>5. \A d \in CPU : ~On(L, Zombies(d), next)
    BY <2>2, <2>4, OnOneList
  <2>6. st[next] # "zombie"
    BY <2>5 DEF ZombiesKept
  <2>7. \A t \in Thread : st[t] = "zombie" => t_state'[t] \in {"zombie", "none"}
    BY <2>3, <2>6
  <2>8. \A t \in Thread : On(L, Zombies(c), t) => st[t] = "zombie"
    BY DEF ZombiesKept
  <2>9. \A t \in Thread : t_state'[t] \in {"none", "zombie"} => st[t] \in {"none", "zombie"}
    BY <2>3, <2>8
  <2>10. ASSUME NEW t \in Thread, t_state'[t] = "zombie"
         PROVE  \E d \in CPU : On(lists', Zombies(d), t)
    <3>1. t # next /\ ~On(L, Zombies(c), t) /\ st[t] = "zombie"
      BY <2>3, <2>10
    <3>2. PICK d \in CPU : On(L, Zombies(d), t)
      BY <3>1 DEF ZombiesKept
    <3>3. Zombies(d) # Zombies(c)
      BY <3>1, <3>2
    <3> QED
      BY <2>2, <2>4, <3>1, <3>2, <3>3
  <2>11. ASSUME NEW t \in Thread, NEW d \in CPU, On(lists', Zombies(d), t)
         PROVE  t_state'[t] = "zombie"
    <3>1. On(L, Zombies(d), t) /\ t # next /\ Zombies(d) # Zombies(c)
      BY <2>2, <2>4, <2>11
    <3>2. ~On(L, Zombies(c), t)
      BY <2>4, <3>1, OnOneList
    <3> QED
      BY <2>3, <3>1, <3>2 DEF ZombiesKept
  <2>12. ZombiesKept(lists', t_state')
    BY <2>10, <2>11 DEF ZombiesKept
  <2> QED
    BY <2>1, <2>2, <2>7, <2>9, <2>12 DEF TypeOK
<1> QED
  BY <1>1, <1>2 DEF Dispatch

\* thread_switch puts its thread on a list other than the zombie lists.
LEMMA PutAwayAlive ==
  ASSUME IInv, ZombiesKept(lists, t_state), NEW c \in CPU, ~c_isidle[c],
         NEW l \in List, \A d \in CPU : l # Zombies(d),
         NEW s \in State, s # "zombie"
  PROVE  /\ ZombiesKept(AddTail(lists, l, curthread[c]), SetState(curthread[c], s))
         /\ t_state[curthread[c]] # "zombie"
<1> DEFINE me == curthread[c]
           L == AddTail(lists, l, me)
           st == SetState(me, s)
<1>1. /\ lists \in [List -> Seq(Thread)] /\ me \in Thread /\ Linked(lists) /\ Off(lists, me)
      /\ t_state \in [Thread -> State]
  BY DEF IInv, TypeOK, Core, State
<1>2. \A m \in List, u \in Thread : On(L, m, u) <=> On(lists, m, u) \/ (m = l /\ u = me)
  BY <1>1, AddTailFacts DEF Off
<1>3. st[me] = s /\ \A t \in Thread : t # me => st[t] = t_state[t]
  BY <1>1 DEF SetState
<1>4. \A d \in CPU : Zombies(d) \in List
  BY ListIds
<1>5. t_state[me] # "zombie"
  BY <1>1, <1>4 DEF ZombiesKept, Off
<1> HIDE DEF L, st, me
<1>6. ZombiesKept(L, st)
  <2>1. \A t \in Thread, d \in CPU : On(L, Zombies(d), t) <=> On(lists, Zombies(d), t)
    BY <1>2, <1>4
  <2>2. \A t \in Thread : st[t] = "zombie" <=> t_state[t] = "zombie"
    BY <1>3, <1>5
  <2> QED
    BY <2>1, <2>2 DEF ZombiesKept
<1> QED
  BY <1>5, <1>6 DEF L, st, me

LEMMA PutAwayDead ==
  ASSUME IInv, ZombiesKept(lists, t_state), NEW c \in CPU, ~c_isidle[c]
  PROVE  /\ ZombiesKept(AddTail(lists, Zombies(c), curthread[c]), SetState(curthread[c], "zombie"))
         /\ t_state[curthread[c]] # "zombie"
<1> DEFINE me == curthread[c]
           l == Zombies(c)
           L == AddTail(lists, l, me)
           st == SetState(me, "zombie")
<1>1. /\ lists \in [List -> Seq(Thread)] /\ me \in Thread /\ Linked(lists) /\ Off(lists, me)
      /\ t_state \in [Thread -> State] /\ \A d \in CPU : Zombies(d) \in List
  BY ListIds DEF IInv, TypeOK, Core, State
<1>2. \A m \in List, u \in Thread : On(L, m, u) <=> On(lists, m, u) \/ (m = l /\ u = me)
  BY <1>1, AddTailFacts DEF Off
<1>3. st[me] = "zombie" /\ \A t \in Thread : t # me => st[t] = t_state[t]
  BY <1>1 DEF SetState
<1>4. t_state[me] # "zombie"
  BY <1>1 DEF ZombiesKept, Off
<1> HIDE DEF L, st, me
<1>5. ASSUME NEW t \in Thread PROVE st[t] = "zombie" <=> \E d \in CPU : On(L, Zombies(d), t)
  <2>1. CASE t = me
    BY <1>1, <1>2, <1>3, <2>1
  <2>2. CASE t # me
    <3>1. \A d \in CPU : On(L, Zombies(d), t) <=> On(lists, Zombies(d), t)
      BY <1>1, <1>2, <2>2
    <3> QED
      BY <1>3, <2>2, <3>1 DEF ZombiesKept
  <2> QED
    BY <2>1, <2>2
<1> QED
  BY <1>4, <1>5 DEF L, st, me, ZombiesKept

-----------------------------------------------------------------------------
(* Sleeping and waking *)

\* What the place of cpu c in P, V or wchan_sleep says of the locks it holds.
Held(c) ==
  /\ pc[c] \in {"P_wchan", "sleep"} /\ arg[c] \in Sem => inP[curthread[c]] = arg[c]
  /\ pc[c] = "P_wchan" => sem_lock[arg[c]] = c /\ sem_count[arg[c]] = 0
  /\ pc[c] = "V_wakeone" => sem_lock[arg[c]] = c
  /\ pc[c] = "make_runnable" /\ arg[c] \in Sem => sem_lock[arg[c]] = c
  /\ pc[c] = "sleep" => wc_lock[arg[c]] = c

\* No structure that may be freed is in P.
Gone == \A t \in Thread : t_state[t] \in {"none", "zombie"} => inP[t] = NONE

\* The sleepers of a semaphore's channel are in P of that semaphore.
InChannel == \A s \in Sem, t \in Thread : On(lists, Waiting(s), t) => inP[t] = s

\* A thread that is about to sleep on s has seen a zero count.
AboutToSleep(s) == \E c \in CPU : pc[c] = "sleep" /\ arg[c] = s

\* NoLostWakeup, extended to the threads between wchan_lock and wchan_sleep: a V
\* that comes in between waits for the channel's lock.
Accounted(s) ==
  lists[Waiting(s)] # <<>> \/ AboutToSleep(s) =>
     sem_count[s] <= Cardinality(Awake(s)) + Cardinality(PendingV(s))

SleepInv ==
  /\ \A c \in CPU : Held(c)
  /\ Gone
  /\ InChannel
  /\ \A s \in Sem : Accounted(s)

WInv == IInv /\ ZombiesKept(lists, t_state) /\ SleepInv

LEMMA Counted ==
  ASSUME NEW s
  PROVE  /\ IsFiniteSet(Awake(s)) /\ IsFiniteSet(PendingV(s))
         /\ Cardinality(Awake(s)) \in Nat /\ Cardinality(PendingV(s)) \in Nat
<1>1. IsFiniteSet(CPU)
  BY FS_Interval, ThreadAssumption DEF CPU
<1>2. Awake(s) \in SUBSET Thread /\ PendingV(s) \in SUBSET CPU
  BY DEF Awake, PendingV
<1>3. IsFiniteSet(Awake(s)) /\ IsFiniteSet(PendingV(s))
  BY <1>1, <1>2, FS_Subset, ThreadAssumption
<1> QED
  BY <1>3, FS_CardinalityType

LEMMA CountedNext ==
  ASSUME NEW s
  PROVE  /\ IsFiniteSet(Awake(s)') /\ IsFiniteSet(PendingV(s)')
         /\ Cardinality(Awake(s)') \in Nat /\ Cardinality(PendingV(s)') \in Nat
<1>1. IsFiniteSet(CPU)
  BY FS_Interval, ThreadAssumption DEF CPU
<1>2. Awake(s)' \in SUBSET Thread /\ PendingV(s)' \in SUBSET CPU
  BY DEF Awake, PendingV
<1>3. IsFiniteSet(Awake(s)') /\ IsFiniteSet(PendingV(s)')
  BY <1>1, <1>2, FS_Subset, ThreadAssumption
<1> QED
  BY <1>3, FS_CardinalityType

\* A larger set of threads on their way, a count that is not larger.
LEMMA StillAccounted ==
  ASSUME TypeOK, TypeOK', NEW s \in Sem, Accounted(s),
         lists'[Waiting(s)] # <<>> \/ AboutToSleep(s)' =>
            lists[Waiting(s)] # <<>> \/ AboutToSleep(s),
         sem_count'[s] = sem_count[s],
         Awake(s) \subseteq Awake(s)', PendingV(s) \subseteq PendingV(s)'
  PROVE  Accounted(s)'
<1>1. /\ Cardinality(Awake(s)) <= Cardinality(Awake(s)')
      /\ Cardinality(PendingV(s)) <= Cardinality(PendingV(s)')
  BY CountedNext, FS_Subset
<1>2. sem_count[s] \in Nat
  BY DEF TypeOK
<1> DEFINE a == Cardinality(Awake(s))
           b == Cardinality(PendingV(s))
           x == Cardinality(Awake(s)')
           y == Cardinality(PendingV(s)')
<1>3. a \in Nat /\ b \in Nat /\ x \in Nat /\ y \in Nat /\ a <= x /\ b <= y
  BY <1>1, Counted, CountedNext
<1>4. sem_count[s] <= a + b => sem_count[s] <= x + y
  <2> HIDE DEF a, b, x, y
  <2> QED
    BY <1>2, <1>3
<1> QED
  BY <1>4 DEF Accounted

LEMMA HeldFrame ==
  ASSUME IInv, NEW d \in CPU, Held(d),
         pc'[d] = pc[d], arg'[d] = arg[d], curthread'[d] = curthread[d],
         inP'[curthread[d]] = inP[curthread[d]],
         \A s \in Sem : sem_lock[s] = d => sem_lock'[s] = d /\ sem_count'[s] = sem_count[s],
         \A w \in Wchan : wc_lock[w] = d => wc_lock'[w] = d
  PROVE  Held(d)'
<1>1. Place(d)
  BY DEF IInv, Local
<1> QED
  BY <1>1 DEF Held, Place

\* A step of cpu c outside P, V and wchan_sleep.
LEMMA Bystander ==
  ASSUME WInv, TypeOK', NEW c \in CPU, UNCHANGED <<inP, sem_count>>,
         \A d \in CPU : d # c => /\ pc'[d] = pc[d] /\ arg'[d] = arg[d]
                                 /\ curthread'[d] = curthread[d],
         pc[c] \notin {"P_wchan", "sleep", "V_wakeone"},
         pc'[c] \notin {"P_wchan", "sleep", "V_wakeone"},
         Held(c)',
         \A d \in CPU, s \in Sem : d # c /\ sem_lock[s] = d => sem_lock'[s] = d,
         UNCHANGED wc_lock,
         \A s \in Sem : lists'[Waiting(s)] = lists[Waiting(s)],
         \A t \in Thread : t_state'[t] \in {"none", "zombie"} =>
            t_state[t] \in {"none", "zombie"} \/ inP[t] = NONE
  PROVE  SleepInv'
<1>1. IInv /\ SleepInv /\ TypeOK
  BY DEF WInv, IInv
<1>2. \A d \in CPU : Held(d)'
  BY <1>1, HeldFrame DEF SleepInv
<1>3. Gone' /\ InChannel'
  BY <1>1 DEF SleepInv, Gone, InChannel, On
<1>4. ASSUME NEW s \in Sem PROVE Accounted(s)'
  <2>1. AboutToSleep(s)' => AboutToSleep(s)
    BY DEF AboutToSleep
  <2>2. PendingV(s)' = PendingV(s)
    BY DEF PendingV
  <2>3. \A t \in Thread :
           (\E d \in CPU : curthread'[d] = t /\ pc'[d] \in {"P_wchan", "sleep"}) =>
              \E d \in CPU : curthread[d] = t /\ pc[d] \in {"P_wchan", "sleep"}
    OBVIOUS
  <2>4. Awake(s) \subseteq Awake(s)'
    BY <2>3 DEF Awake, On
  <2> QED
    BY <1>1, <2>1, <2>2, <2>4, StillAccounted DEF SleepInv
<1> QED
  BY <1>2, <1>3, <1>4 DEF SleepInv

Keeps == ZombiesKept(lists', t_state') /\ DeadStay /\ SleepInv'

-----------------------------------------------------------------------------
(* Steps outside P, V and wchan_sleep *)

\* Threads may move between the run queues, the private lists and lbolt.
LEMMA QuietKeeps ==
  ASSUME WInv, TypeOK', NEW c \in CPU,
         UNCHANGED <<arg, curthread, t_state, inP, sem_count, sem_lock, wc_lock>>,
         \A d \in CPU : d # c => pc'[d] = pc[d],
         pc[c] \notin {"P_wchan", "sleep", "V_wakeone", "make_runnable"},
         pc'[c] \notin {"P_wchan", "sleep", "V_wakeone", "make_runnable"},
         \A d \in CPU : lists'[Zombies(d)] = lists[Zombies(d)],
         \A s \in Sem : lists'[Waiting(s)] = lists[Waiting(s)]
  PROVE  Keeps
<1>1. ZombiesKept(lists', t_state') /\ DeadStay
  BY ZombieFrame DEF WInv
<1>2. Held(c)'
  BY DEF Held
<1>3. SleepInv'
  BY <1>2, Bystander
<1> QED
  BY <1>1, <1>3 DEF Keeps

LEMMA StillKeeps ==
  ASSUME WInv, TypeOK', NEW c \in CPU,
         YieldReturns(c) \/ IpiInterrupt(c) \/ hardclock(c) \/ MigCount(c) \/ MigDecide(c)
         \/ MigTaken(c) \/ MigNext(c) \/ MigUnlock(c)
  PROVE  Keeps
<1> DEFINE Elsewhere == {"thread", "idle", "recheck", "yield", "mig_count", "mig_take",
                         "mig_next", "mig_push"}
<1>1. TypeOK /\ Resume(c) \in Elsewhere
  BY ResumeLabel DEF WInv, IInv
<1>2. /\ UNCHANGED <<arg, curthread, t_state, inP, sem_count, sem_lock, wc_lock, lists>>
      /\ pc[c] \in Elsewhere
      /\ \/ pc' = pc
         \/ \E label \in Elsewhere : pc' = [pc EXCEPT ![c] = label]
  <2>1. CASE YieldReturns(c)
    BY <1>1, <2>1 DEF YieldReturns, Goto, procVars, semVars
  <2>2. CASE IpiInterrupt(c)
    BY <1>1, <2>2 DEF IpiInterrupt, InterruptsOn, Goto, procVars, semVars
  <2>3. CASE hardclock(c)
    BY <2>3 DEF hardclock, InterruptsOn, Goto, procVars, semVars
  <2>4. CASE MigCount(c)
    BY <2>4 DEF MigCount, procVars, semVars
  <2>5. CASE MigDecide(c)
    BY <2>5 DEF MigDecide, Goto, procVars, semVars
  <2>6. CASE MigTaken(c)
    BY <2>6 DEF MigTaken, Goto, procVars, semVars
  <2>7. CASE MigNext(c)
    BY <2>7 DEF MigNext, Goto, procVars, semVars
  <2>8. CASE MigUnlock(c)
    BY <2>8 DEF MigUnlock, Goto, procVars, semVars
  <2> QED
    BY <2>1, <2>2, <2>3, <2>4, <2>5, <2>6, <2>7, <2>8
<1>3. pc'[c] \in Elsewhere /\ \A d \in CPU : d # c => pc'[d] = pc[d]
  BY <1>1, <1>2 DEF TypeOK
<1> QED
  BY <1>2, <1>3, QuietKeeps

LEMMA MoveKeeps ==
  ASSUME WInv, TypeOK', NEW c \in CPU,
         ForkMakeRunnable(c) \/ MigTake(c) \/ MigPush(c) \/ MigBack(c)
  PROVE  Keeps
<1> DEFINE Elsewhere == {"thread", "yield", "mig_take", "mig_next", "mig_push"}
<1>1. /\ TypeOK /\ lists \in [List -> Seq(Thread)] /\ Local(c)
      /\ \A d \in CPU : Run(d) \in List /\ Victims(d) \in List
  BY ListIds DEF WInv, IInv, TypeOK
<1>2. /\ UNCHANGED <<arg, curthread, t_state, inP, sem_count, sem_lock, wc_lock>>
      /\ pc[c] \in Elsewhere
      /\ \/ pc' = pc
         \/ \E label \in Elsewhere : pc' = [pc EXCEPT ![c] = label]
      /\ \A m \in List : (\A d \in CPU : m # Run(d) /\ m # Victims(d)) => lists'[m] = lists[m]
  <2>1. CASE ForkMakeRunnable(c)
    <3>1. /\ child[curthread[c]] # NONE
          /\ lists' = AddTail(lists, Run(t_cpu[child[curthread[c]]]), child[curthread[c]])
          /\ UNCHANGED <<arg, curthread, t_state, inP, sem_count, sem_lock, wc_lock, pc>>
          /\ pc[c] = "thread"
      BY <2>1 DEF ForkMakeRunnable, Enqueue, semVars
    <3>2. t_cpu[child[curthread[c]]] \in CPU
      BY <1>1, <3>1 DEF TypeOK
    <3> QED
      BY <1>1, <3>1, <3>2, OtherLists
  <2>2. CASE MigTake(c)
    <3>1. /\ lists' = MoveTail(lists, Run(c), Victims(c))
          /\ UNCHANGED <<arg, curthread, t_state, inP, sem_count, sem_lock, wc_lock, pc>>
          /\ pc[c] = "mig_take"
      BY <2>2 DEF MigTake, procVars, semVars
    <3> QED
      BY <1>1, <3>1, OtherLists
  <2>3. CASE MigPush(c)
    <3>1. /\ \/ lists' = MoveHead(lists, Victims(c), Victims(c))
             \/ lists' = MoveHead(lists, Victims(c), Run(mig[c].i))
          /\ UNCHANGED <<arg, curthread, t_state, inP, sem_count, sem_lock, wc_lock, pc>>
          /\ pc[c] = "mig_push"
      BY <2>3 DEF MigPush, procVars, semVars
    <3>2. mig[c].i \in CPU
      BY <1>1, <3>1 DEF Local, Counts
    <3>3. \A m \in List : (\A d \in CPU : m # Run(d) /\ m # Victims(d)) => lists'[m] = lists[m]
      <4>1. ASSUME NEW m \in List, m # Run(mig[c].i), m # Victims(c)
            PROVE  lists'[m] = lists[m]
        <5>1. Victims(c) \in List /\ Run(mig[c].i) \in List
          BY <1>1, <3>2
        <5>2. /\ MoveHead(lists, Victims(c), Victims(c))[m] = lists[m]
              /\ MoveHead(lists, Victims(c), Run(mig[c].i))[m] = lists[m]
          BY <1>1, <4>1, <5>1, OtherLists
        <5> QED
          BY <3>1, <5>2
      <4> QED
        BY <3>2, <4>1
    <3> QED
      BY <3>1, <3>3
  <2>4. CASE MigBack(c)
    <3>1. /\ lists' = MoveAll(lists, Victims(c), Run(c))
          /\ UNCHANGED <<arg, curthread, t_state, inP, sem_count, sem_lock, wc_lock>>
          /\ pc[c] = "mig_next" /\ pc' = [pc EXCEPT ![c] = "yield"]
      BY <2>4 DEF MigBack, Goto, procVars, semVars
    <3> QED
      BY <1>1, <3>1, OtherLists
  <2> QED
    BY <2>1, <2>2, <2>3, <2>4
<1>3. pc'[c] \in Elsewhere /\ \A d \in CPU : d # c => pc'[d] = pc[d]
  BY <1>1, <1>2 DEF TypeOK
<1>4. /\ \A d \in CPU : lists'[Zombies(d)] = lists[Zombies(d)]
      /\ \A s \in Sem : lists'[Waiting(s)] = lists[Waiting(s)]
  BY <1>2, ListIds DEF Wchan
<1> QED
  BY <1>2, <1>3, <1>4, QuietKeeps

LEMMA TimerclockKeeps ==
  ASSUME WInv, TypeOK', NEW c \in CPU, timerclock(c)
  PROVE  Keeps
<1>1. /\ pc[c] \in {"thread", "idle"}
      /\ lists' = MoveAll(lists, Waiting(lbolt), Wake(c))
      /\ \/ pc' = [pc EXCEPT ![c] = Resume(c)] /\ arg' = arg
         \/ pc' = [pc EXCEPT ![c] = "make_runnable"] /\ arg' = [arg EXCEPT ![c] = lbolt]
      /\ UNCHANGED <<curthread, t_state, inP, sem_count, sem_lock, wc_lock>>
  BY DEF timerclock, InterruptsOn, Goto, procVars, semVars
<1>2. TypeOK /\ lists \in [List -> Seq(Thread)] /\ Resume(c) \in {"recheck", "thread"}
  BY ResumeLabel DEF WInv, IInv, TypeOK
<1>3. /\ \A d \in CPU : lists'[Zombies(d)] = lists[Zombies(d)]
      /\ \A s \in Sem : lists'[Waiting(s)] = lists[Waiting(s)]
  <2>1. /\ Waiting(lbolt) \in List /\ Wake(c) \in List
        /\ \A d \in CPU : Zombies(d) \in List /\ Zombies(d) # Wake(c) /\ Zombies(d) # Waiting(lbolt)
        /\ \A s \in Sem : Waiting(s) \in List /\ Waiting(s) # Waiting(lbolt) /\ Waiting(s) # Wake(c)
    BY ListIds, ThreadAssumption DEF Wchan
  <2> QED
    BY <1>1, <1>2, <2>1, OtherLists
<1>4. /\ \A d \in CPU : d # c => pc'[d] = pc[d] /\ arg'[d] = arg[d]
      /\ \/ pc'[c] \in {"recheck", "thread"}
         \/ pc'[c] = "make_runnable" /\ arg'[c] = lbolt
  BY <1>1, <1>2 DEF TypeOK
<1>5. Held(c)'
  BY <1>4, ThreadAssumption DEF Held
<1>6. SleepInv'
  BY <1>1, <1>3, <1>4, <1>5, Bystander
<1> QED
  BY <1>1, <1>3, <1>6, ZombieFrame DEF Keeps, WInv

LEMMA MakeRunnableKeeps ==
  ASSUME WInv, TypeOK', NEW c \in CPU, MakeRunnable(c)
  PROVE  Keeps
<1> DEFINE target == Head(lists[Wake(c)])
           last == Len(lists[Wake(c)]) = 1
<1>1. /\ pc[c] = "make_runnable"
      /\ lists' = AddTail(RemHead(lists, Wake(c)), Run(t_cpu[target]), target)
      /\ pc' = IF last THEN [pc EXCEPT ![c] = Resume(c)] ELSE pc
      /\ arg' = IF last THEN [arg EXCEPT ![c] = NONE] ELSE arg
      /\ sem_lock' = IF last /\ arg[c] \in Sem
                     THEN [sem_lock EXCEPT ![arg[c]] = NONE] ELSE sem_lock
      /\ UNCHANGED <<curthread, t_state, inP, sem_count, wc_lock>>
  BY DEF MakeRunnable, Enqueue, procVars
<1>2. TypeOK /\ lists \in [List -> Seq(Thread)] /\ Resume(c) \in {"recheck", "thread"}
  BY ResumeLabel DEF WInv, IInv, TypeOK
<1>3. Place(c) /\ Held(c) /\ Linked(lists)
  BY DEF WInv, IInv, SleepInv, Local, Core
<1>4. Wake(c) \in List /\ Run(t_cpu[target]) \in List /\ t_cpu[target] \in CPU
  BY <1>1, <1>2, <1>3, HeadOn, ListIds DEF Place, TypeOK
<1>5. /\ \A d \in CPU : lists'[Zombies(d)] = lists[Zombies(d)]
      /\ \A s \in Sem : lists'[Waiting(s)] = lists[Waiting(s)]
  <2> DEFINE R == RemHead(lists, Wake(c))
  <2>1. R \in [List -> Seq(Thread)] /\ \A m \in List : m # Wake(c) => R[m] = lists[m]
    BY <1>1, <1>2, <1>3, <1>4, RemHeadFacts DEF Place
  <2>2. lists' = AddTail(R, Run(t_cpu[target]), target)
    BY <1>1
  <2> HIDE DEF R, target
  <2>3. \A m \in List : m # Wake(c) /\ m # Run(t_cpu[target]) => lists'[m] = lists[m]
    BY <1>4, <2>1, <2>2, OtherLists
  <2> QED
    BY <1>4, <2>3, ListIds DEF Wchan
<1>6. /\ \A d \in CPU : d # c => pc'[d] = pc[d] /\ arg'[d] = arg[d]
      /\ \/ ~last /\ pc'[c] = "make_runnable" /\ arg'[c] = arg[c] /\ sem_lock' = sem_lock
         \/ pc'[c] \in {"recheck", "thread"}
  BY <1>1, <1>2 DEF TypeOK
<1>7. Held(c)'
  BY <1>1, <1>3, <1>6 DEF Held
<1>8. \A d \in CPU, s \in Sem : d # c /\ sem_lock[s] = d => sem_lock'[s] = d
  BY <1>1, <1>2, <1>3 DEF Held, TypeOK
<1>9. SleepInv'
  BY <1>1, <1>5, <1>6, <1>7, <1>8, Bystander
<1> QED
  BY <1>1, <1>5, <1>9, ZombieFrame DEF Keeps, WInv

-----------------------------------------------------------------------------
(* Steps through thread_switch *)

LEMMA SwitchKeeps ==
  ASSUME WInv, TypeOK', NEW c \in CPU, NEW L \in [List -> Seq(Thread)],
         NEW st \in [Thread -> State], Linked(L), ZombiesKept(L, st), Dispatch(c, L, st),
         UNCHANGED <<arg, inP, sem_count, sem_lock, wc_lock>>,
         pc[c] \notin {"P_wchan", "sleep", "V_wakeone"},
         \A s \in Sem : L[Waiting(s)] = lists[Waiting(s)],
         \A t \in Thread : t_state[t] = "zombie" => st[t] = "zombie",
         \A t \in Thread : st[t] \in {"none", "zombie"} =>
            t_state[t] \in {"none", "zombie"} \/ inP[t] = NONE
  PROVE  Keeps
<1>1. TypeOK
  BY DEF WInv, IInv
<1>2. /\ ZombiesKept(lists', t_state')
      /\ \A t \in Thread : st[t] = "zombie" => t_state'[t] \in {"zombie", "none"}
      /\ \A t \in Thread : t_state'[t] \in {"none", "zombie"} => st[t] \in {"none", "zombie"}
      /\ \A m \in List : m # Run(c) /\ m # Zombies(c) => lists'[m] = L[m]
      /\ \A d \in CPU : d # c => curthread'[d] = curthread[d] /\ pc'[d] = pc[d]
      /\ pc'[c] \in {"idle", "thread"}
  BY <1>1, DispatchKeeps
<1>3. DeadStay
  BY <1>2 DEF DeadStay
<1>4. \A s \in Sem : lists'[Waiting(s)] = lists[Waiting(s)]
  BY <1>2, ListIds DEF Wchan
<1>5. Held(c)'
  BY <1>2 DEF Held
<1>6. SleepInv'
  BY <1>2, <1>4, <1>5, Bystander
<1> QED
  BY <1>2, <1>3, <1>6 DEF Keeps

LEMMA RecheckKeeps ==
  ASSUME WInv, TypeOK', NEW c \in CPU, Recheck(c)
  PROVE  Keeps
<1>1. /\ pc[c] = "recheck" /\ Dispatch(c, lists, t_state)
      /\ UNCHANGED <<arg, inP, sem_count, sem_lock, wc_lock>>
  BY DEF Recheck, procVars, semVars
<1>2. /\ lists \in [List -> Seq(Thread)] /\ t_state \in [Thread -> State]
      /\ Linked(lists) /\ ZombiesKept(lists, t_state)
  BY DEF WInv, IInv, Core, TypeOK, State
<1> QED
  BY <1>1, <1>2, SwitchKeeps

LEMMA YieldSwitchesKeeps ==
  ASSUME WInv, TypeOK', NEW c \in CPU, YieldSwitches(c)
  PROVE  Keeps
<1> DEFINE L == AddTail(lists, Run(c), curthread[c])
           st == SetState(curthread[c], "ready")
<1>1. /\ pc[c] = "yield" /\ ~c_isidle[c] /\ Dispatch(c, L, st)
      /\ UNCHANGED <<arg, inP, sem_count, sem_lock, wc_lock>>
  BY DEF YieldSwitches, procVars, semVars
<1>2. IInv /\ TypeOK /\ ZombiesKept(lists, t_state) /\ curthread[c] \in Thread
  BY DEF WInv, IInv, TypeOK
<1>3. Run(c) \in List /\ \A d \in CPU : (Run(c) \in Owned(d) => d = c) /\ Run(c) # Zombies(d)
  BY ListIds DEF Owned
<1>4. "ready" \in State /\ "ready" # "none" /\ "ready" # "zombie"
  BY DEF State
<1>5. /\ L \in [List -> Seq(Thread)] /\ st \in [Thread -> State]
      /\ Core(L, st, [c_isidle EXCEPT ![c] = TRUE])
      /\ \A m \in List : m # Run(c) => L[m] = lists[m]
  BY <1>1, <1>2, <1>3, <1>4, PutAway
<1>6. ZombiesKept(L, st) /\ t_state[curthread[c]] # "zombie"
  BY <1>1, <1>2, <1>3, <1>4, PutAwayAlive
<1>7. \A t \in Thread : IF t = curthread[c] THEN st[t] = "ready" ELSE st[t] = t_state[t]
  BY <1>2 DEF SetState, TypeOK
<1> HIDE DEF L, st
<1>8. Linked(L) /\ \A s \in Sem : L[Waiting(s)] = lists[Waiting(s)]
  BY <1>5, ListIds DEF Core, Wchan
<1>9. \A t \in Thread : t_state[t] = "zombie" => st[t] = "zombie"
  BY <1>6, <1>7
<1>10. \A t \in Thread : st[t] \in {"none", "zombie"} => t_state[t] \in {"none", "zombie"}
  BY <1>7
<1> QED
  BY <1>1, <1>5, <1>6, <1>8, <1>9, <1>10, SwitchKeeps

LEMMA ThreadExitKeeps ==
  ASSUME WInv, TypeOK', NEW c \in CPU, thread_exit(c)
  PROVE  Keeps
<1> DEFINE L == AddTail(lists, Zombies(c), curthread[c])
           st == SetState(curthread[c], "zombie")
<1>1. /\ pc[c] = "thread" /\ inP[curthread[c]] = NONE /\ Dispatch(c, L, st)
      /\ UNCHANGED <<arg, inP, sem_count, sem_lock, wc_lock>>
  BY DEF thread_exit, InThread, procVars, semVars
<1>2. /\ IInv /\ TypeOK /\ ZombiesKept(lists, t_state) /\ curthread[c] \in Thread
      /\ ~c_isidle[c]
  BY <1>1 DEF WInv, IInv, TypeOK, Local, Place
<1>3. Zombies(c) \in List /\ \A d \in CPU : Zombies(c) \in Owned(d) => d = c
  BY ListIds DEF Owned
<1>4. "zombie" \in State /\ "zombie" # "none"
  BY DEF State
<1>5. /\ L \in [List -> Seq(Thread)] /\ st \in [Thread -> State]
      /\ Core(L, st, [c_isidle EXCEPT ![c] = TRUE])
      /\ \A m \in List : m # Zombies(c) => L[m] = lists[m]
  BY <1>2, <1>3, <1>4, PutAway
<1>6. ZombiesKept(L, st)
  BY <1>2, PutAwayDead
<1>7. \A t \in Thread : IF t = curthread[c] THEN st[t] = "zombie" ELSE st[t] = t_state[t]
  BY <1>2 DEF SetState, TypeOK
<1> HIDE DEF L, st
<1>8. Linked(L) /\ \A s \in Sem : L[Waiting(s)] = lists[Waiting(s)]
  BY <1>5, ListIds DEF Core, Wchan
<1>9. \A t \in Thread : t_state[t] = "zombie" => st[t] = "zombie"
  BY <1>7
<1>10. \A t \in Thread : st[t] \in {"none", "zombie"} =>
          t_state[t] \in {"none", "zombie"} \/ inP[t] = NONE
  BY <1>1, <1>7
<1> QED
  BY <1>1, <1>5, <1>6, <1>8, <1>9, <1>10, SwitchKeeps

\* The thread of c joins the sleepers: it was about to sleep, so the count was
\* accounted for without it.
LEMMA WchanSleepKeeps ==
  ASSUME WInv, TypeOK', NEW c \in CPU, wchan_sleep(c)
  PROVE  Keeps
<1> DEFINE w == arg[c]
           me == curthread[c]
           L == AddTail(lists, Waiting(w), me)
           st == SetState(me, "sleep")
<1>1. /\ pc[c] = "sleep" /\ Dispatch(c, L, st)
      /\ wc_lock' = [wc_lock EXCEPT ![w] = NONE]
      /\ arg' = [arg EXCEPT ![c] = NONE]
      /\ UNCHANGED <<inP, sem_count, sem_lock>>
  BY DEF wchan_sleep, procVars
<1>2. /\ IInv /\ TypeOK /\ ZombiesKept(lists, t_state) /\ SleepInv /\ me \in Thread
      /\ ~c_isidle[c] /\ w \in Wchan /\ Held(c)
  BY <1>1 DEF WInv, SleepInv, IInv, TypeOK, Local, Place
<1>3. Waiting(w) \in List /\ \A d \in CPU : Waiting(w) \notin Owned(d) /\ Waiting(w) # Zombies(d)
  BY <1>2, ListIds DEF Owned
<1>4. "sleep" \in State /\ "sleep" # "none" /\ "sleep" # "zombie"
  BY DEF State
<1>5. /\ L \in [List -> Seq(Thread)] /\ st \in [Thread -> State]
      /\ Core(L, st, [c_isidle EXCEPT ![c] = TRUE])
      /\ \A m \in List : m # Waiting(w) => L[m] = lists[m]
  BY <1>2, <1>3, <1>4, PutAway
<1>6. ZombiesKept(L, st) /\ t_state[me] # "zombie"
  BY <1>2, <1>3, <1>4, PutAwayAlive
<1>7. \A t \in Thread : IF t = me THEN st[t] = "sleep" ELSE st[t] = t_state[t]
  BY <1>2 DEF SetState, TypeOK
<1>8. \A m \in List, u \in Thread : On(L, m, u) <=> On(lists, m, u) \/ (m = Waiting(w) /\ u = me)
  <2>1. lists \in [List -> Seq(Thread)] /\ Linked(lists) /\ \A m \in List : ~On(lists, m, me)
    BY <1>2 DEF IInv, TypeOK, Core, Off
  <2> QED
    BY <1>2, <1>3, <2>1, AddTailFacts
<1>9. /\ pc[c] = "sleep" => wc_lock[w] = c
      /\ w \in Sem => inP[me] = w
  BY <1>1, <1>2 DEF Held
<1> HIDE DEF L, st, w, me
<1>10. Linked(L)
  BY <1>5 DEF Core
<1>11. /\ ZombiesKept(lists', t_state')
       /\ \A t \in Thread : st[t] = "zombie" => t_state'[t] \in {"zombie", "none"}
       /\ \A t \in Thread : t_state'[t] \in {"none", "zombie"} => st[t] \in {"none", "zombie"}
       /\ \A m \in List : m # Run(c) /\ m # Zombies(c) => lists'[m] = L[m]
       /\ \A d \in CPU : d # c => curthread'[d] = curthread[d] /\ pc'[d] = pc[d]
       /\ pc'[c] \in {"idle", "thread"}
  BY <1>1, <1>2, <1>5, <1>6, <1>10, DispatchKeeps
<1>12. DeadStay
  BY <1>6, <1>7, <1>11 DEF DeadStay
<1>13. \A s \in Sem : Waiting(s) \in List /\ lists'[Waiting(s)] = L[Waiting(s)]
  BY <1>11, ListIds DEF Wchan
<1>14. \A s \in Sem, t \in Thread :
          On(lists', Waiting(s), t) <=> On(lists, Waiting(s), t) \/ (s = w /\ t = me)
  <2>1. \A s \in Sem, t \in Thread : On(lists', Waiting(s), t) <=> On(L, Waiting(s), t)
    BY <1>13 DEF On
  <2>2. \A s \in Sem : Waiting(s) = Waiting(w) <=> s = w
    BY <1>2, ListIds DEF Wchan
  <2> QED
    BY <1>8, <1>13, <2>1, <2>2
<1>15. /\ \A d \in CPU : d # c => arg'[d] = arg[d]
       /\ \A d \in CPU, v \in Wchan : d # c /\ wc_lock[v] = d => wc_lock'[v] = d
  BY <1>1, <1>2, <1>9 DEF TypeOK
<1>16. \A d \in CPU : Held(d)'
  <2>1. Held(c)'
    BY <1>11 DEF Held
  <2>2. ASSUME NEW d \in CPU, d # c PROVE Held(d)'
    BY <1>1, <1>2, <1>11, <1>15, <2>2, HeldFrame DEF SleepInv
  <2> QED
    BY <2>1, <2>2
<1>17. Gone'
  BY <1>1, <1>2, <1>7, <1>11 DEF Gone, SleepInv
<1>18. InChannel'
  BY <1>1, <1>2, <1>9, <1>14 DEF InChannel, SleepInv
<1>19. ASSUME NEW s \in Sem PROVE Accounted(s)'
  <2>1. lists'[Waiting(s)] # <<>> \/ AboutToSleep(s)' => lists[Waiting(s)] # <<>> \/ AboutToSleep(s)
    <3>1. CASE s = w
      BY <1>1, <3>1 DEF AboutToSleep, w
    <3>2. CASE s # w
      <4>1. lists'[Waiting(s)] = lists[Waiting(s)]
        BY <1>2, <1>5, <1>13, <3>2, ListIds DEF Wchan
      <4>2. AboutToSleep(s)' => AboutToSleep(s)
        BY <1>11, <1>15 DEF AboutToSleep
      <4> QED
        BY <4>1, <4>2
    <3> QED
      BY <3>1, <3>2
  <2>2. PendingV(s) \subseteq PendingV(s)'
    BY <1>1, <1>11, <1>15 DEF PendingV
  <2>3. Awake(s) \subseteq Awake(s)'
    <3> SUFFICES ASSUME NEW t \in Awake(s) PROVE t \in Awake(s)'
      OBVIOUS
    <3>1. /\ t \in Thread /\ inP[t] = s /\ ~On(lists, Waiting(s), t)
          /\ ~\E d \in CPU : curthread[d] = t /\ pc[d] \in {"P_wchan", "sleep"}
      BY DEF Awake
    <3>2. t # me
      BY <1>1, <3>1 DEF me
    <3>3. ~\E d \in CPU : curthread'[d] = t /\ pc'[d] \in {"P_wchan", "sleep"}
      BY <1>11, <3>1
    <3> QED
      BY <1>1, <1>14, <3>1, <3>2, <3>3 DEF Awake
  <2> QED
    BY <1>1, <1>2, <2>1, <2>2, <2>3, StillAccounted DEF SleepInv
<1> QED
  BY <1>11, <1>12, <1>16, <1>17, <1>18, <1>19 DEF Keeps, SleepInv

-----------------------------------------------------------------------------
(* Steps of thread_fork, P and V *)

LEMMA ThreadForkKeeps ==
  ASSUME WInv, TypeOK', NEW c \in CPU, NEW new \in Thread, thread_fork(c, new)
  PROVE  Keeps
<1>1. /\ pc[c] = "thread" /\ t_state[new] = "none"
      /\ t_state' = [t_state EXCEPT ![new] = "ready"]
      /\ inP' = [inP EXCEPT ![new] = NONE]
      /\ UNCHANGED <<pc, arg, curthread, lists, sem_count, sem_lock, wc_lock>>
  BY DEF thread_fork, InThread, SetState, semVars
<1>2. TypeOK /\ ZombiesKept(lists, t_state) /\ Gone
  BY DEF WInv, IInv, SleepInv
<1>3. inP' = inP
  BY <1>1, <1>2 DEF Gone, TypeOK
<1>4. t_state'[new] = "ready" /\ \A t \in Thread : t # new => t_state'[t] = t_state[t]
  BY <1>1, <1>2 DEF TypeOK
<1>5. ZombiesKept(lists', t_state') /\ DeadStay
  BY <1>1, <1>2, <1>4 DEF ZombiesKept, DeadStay
<1>6. Held(c)'
  BY <1>1 DEF Held
<1>7. SleepInv'
  BY <1>1, <1>3, <1>4, <1>6, Bystander
<1> QED
  BY <1>5, <1>7 DEF Keeps

\* The current thread of a cpu that is not idle is on no list, is alive, and is
\* not the current thread of another cpu.
LEMMA CurrentFacts ==
  ASSUME WInv, NEW c \in CPU, pc[c] = "thread"
  PROVE  /\ curthread[c] \in Thread /\ Off(lists, curthread[c])
         /\ t_state[curthread[c]] \notin {"none", "zombie"}
         /\ \A d \in CPU : d # c => curthread[d] # curthread[c]
<1>1. ~c_isidle[c] /\ curthread[c] \in Thread /\ \A d \in CPU : Zombies(d) \in List
  BY ListIds DEF WInv, IInv, TypeOK, Local, Place
<1>2. Off(lists, curthread[c]) /\ \A d \in CPU : t_cpu[curthread[d]] = d
  BY <1>1 DEF WInv, IInv, Core
<1>3. t_state[curthread[c]] # "none"
  BY <1>1 DEF WInv, IInv, Core
<1>4. t_state[curthread[c]] # "zombie"
  BY <1>1, <1>2 DEF WInv, ZombiesKept, Off
<1> QED
  BY <1>1, <1>2, <1>3, <1>4

\* A unit is taken by a thread that was on its way to it, if it had slept.
LEMMA PTakeKeeps ==
  ASSUME WInv, TypeOK', NEW c \in CPU, NEW s \in Sem, PTake(c, s)
  PROVE  Keeps
<1> DEFINE me == curthread[c]
<1>1. /\ pc[c] = "thread" /\ inP[me] \in {NONE, s} /\ sem_lock[s] = NONE
      /\ sem_count[s] > 0
      /\ sem_count' = [sem_count EXCEPT ![s] = @ - 1]
      /\ inP' = [inP EXCEPT ![me] = NONE]
      /\ UNCHANGED <<pc, arg, curthread, lists, t_state, sem_lock, wc_lock>>
  BY DEF PTake, AtP
<1>2. TypeOK /\ IInv /\ SleepInv /\ ZombiesKept(lists, t_state)
  BY DEF WInv, IInv
<1>3. /\ me \in Thread /\ Off(lists, me) /\ t_state[me] \notin {"none", "zombie"}
      /\ \A d \in CPU : d # c => curthread[d] # me
  BY <1>1, CurrentFacts
<1>4. /\ \A t \in Thread : t # me => inP'[t] = inP[t]
      /\ \A r \in Sem : r # s => sem_count'[r] = sem_count[r]
      /\ sem_count'[s] = sem_count[s] - 1 /\ sem_count[s] \in Nat
      /\ NONE \notin CPU /\ NONE \notin Sem /\ inP'[me] = NONE
      /\ \A d \in CPU : curthread[d] \in Thread
  BY <1>1, <1>2, <1>3, ThreadAssumption DEF TypeOK, Wchan
<1> HIDE DEF me
<1>5. \A d \in CPU : Held(d)'
  <2>1. Held(c)'
    BY <1>1 DEF Held
  <2>2. ASSUME NEW d \in CPU, d # c PROVE Held(d)'
    <3>1. inP'[curthread[d]] = inP[curthread[d]]
      BY <1>3, <1>4, <2>2
    <3>2. \A r \in Sem : sem_lock[r] = d => sem_count'[r] = sem_count[r]
      BY <1>1, <1>4
    <3> QED
      BY <1>1, <1>2, <3>1, <3>2, HeldFrame DEF SleepInv
  <2> QED
    BY <2>1, <2>2
<1>6. Gone'
  BY <1>1, <1>2, <1>4 DEF SleepInv, Gone
<1>7. InChannel'
  <2>1. \A r \in Sem : ~On(lists, Waiting(r), me)
    BY <1>3, ListIds DEF Off, Wchan
  <2> QED
    BY <1>1, <1>2, <1>4, <2>1 DEF SleepInv, InChannel
<1>8. \A r : AboutToSleep(r)' <=> AboutToSleep(r)
  BY <1>1 DEF AboutToSleep
<1>9. \A r : PendingV(r)' = PendingV(r)
  BY <1>1 DEF PendingV
<1>10. \A r \in Sem : Awake(r) \ {me} \subseteq Awake(r)'
  BY <1>1, <1>4 DEF Awake
<1>11. ASSUME NEW r \in Sem, r # s PROVE Accounted(r)'
  <2>1. me \notin Awake(r)
    BY <1>1, <1>4, <1>11 DEF Awake
  <2>2. Awake(r) \subseteq Awake(r)'
    BY <1>10, <2>1
  <2> QED
    BY <1>1, <1>2, <1>4, <1>8, <1>9, <1>11, <2>2, StillAccounted DEF SleepInv
<1>12. Accounted(s)'
  <2> DEFINE a == Cardinality(Awake(s))
             b == Cardinality(PendingV(s))
             x == Cardinality(Awake(s)')
             y == Cardinality(Awake(s) \ {me})
             n == sem_count[s]
  <2>1. Cardinality(PendingV(s)') = b
    BY <1>9
  <2>2. a \in Nat /\ b \in Nat /\ x \in Nat
    BY Counted, CountedNext
  <2>3. y \in Nat /\ y + 1 >= a
    <3>1. IsFiniteSet(Awake(s) \ {me}) /\ y = IF me \in Awake(s) THEN a - 1 ELSE a
      BY Counted, FS_RemoveElement
    <3>2. y \in Nat
      BY <3>1, FS_CardinalityType
    <3> HIDE DEF y, a
    <3> QED
      BY <2>2, <3>1, <3>2
  <2>4. y <= x
    BY <1>10, CountedNext, FS_Subset
  <2>5. lists[Waiting(s)] # <<>> \/ AboutToSleep(s) => n <= a + b
    BY <1>2 DEF SleepInv, Accounted
  <2>6. n \in Nat /\ sem_count'[s] = n - 1
    BY <1>4
  <2>7. n <= a + b => n - 1 <= x + b
    <3> HIDE DEF n, a, b, x, y
    <3> QED
      BY <2>2, <2>3, <2>4, <2>6
  <2> QED
    BY <1>1, <1>8, <2>1, <2>5, <2>6, <2>7 DEF Accounted
<1>13. ZombiesKept(lists', t_state') /\ DeadStay
  BY <1>1, <1>2, ZombieFrame
<1> QED
  BY <1>5, <1>6, <1>7, <1>11, <1>12, <1>13 DEF Keeps, SleepInv

LEMMA ZeroAccounted ==
  ASSUME NEW s \in Sem, sem_count'[s] = 0
  PROVE  Accounted(s)'
<1> DEFINE x == Cardinality(Awake(s)')
           y == Cardinality(PendingV(s)')
<1>1. x \in Nat /\ y \in Nat
  BY CountedNext
<1>2. 0 <= x + y
  <2> HIDE DEF x, y
  <2> QED
    BY <1>1
<1> QED
  BY <1>2 DEF Accounted

LEMMA PZeroKeeps ==
  ASSUME WInv, TypeOK', NEW c \in CPU, NEW s \in Sem, PZero(c, s)
  PROVE  Keeps
<1> DEFINE me == curthread[c]
<1>1. /\ pc[c] = "thread" /\ inP[me] \in {NONE, s} /\ sem_lock[s] = NONE
      /\ sem_count[s] = 0
      /\ sem_lock' = [sem_lock EXCEPT ![s] = c]
      /\ inP' = [inP EXCEPT ![me] = s]
      /\ arg' = [arg EXCEPT ![c] = s]
      /\ pc' = [pc EXCEPT ![c] = "P_wchan"]
      /\ UNCHANGED <<curthread, lists, t_state, sem_count, wc_lock>>
  BY DEF PZero, AtP, Goto
<1>2. TypeOK /\ IInv /\ SleepInv /\ ZombiesKept(lists, t_state)
  BY DEF WInv, IInv
<1>3. /\ me \in Thread /\ Off(lists, me) /\ t_state[me] \notin {"none", "zombie"}
      /\ \A d \in CPU : d # c => curthread[d] # me
  BY <1>1, CurrentFacts
<1>4. /\ \A t \in Thread : t # me => inP'[t] = inP[t]
      /\ inP'[me] = s /\ pc'[c] = "P_wchan" /\ arg'[c] = s
      /\ \A d \in CPU : d # c => pc'[d] = pc[d] /\ arg'[d] = arg[d]
      /\ sem_lock'[s] = c /\ \A r \in Sem : r # s => sem_lock'[r] = sem_lock[r]
      /\ NONE \notin CPU /\ NONE \notin Sem
      /\ \A d \in CPU : curthread[d] \in Thread
  BY <1>1, <1>2, <1>3, ThreadAssumption DEF TypeOK, Wchan
<1>5. \A d \in CPU : Held(d)'
  <2>1. Held(c)'
    BY <1>1, <1>4 DEF Held
  <2>2. ASSUME NEW d \in CPU, d # c PROVE Held(d)'
    <3>1. inP'[curthread[d]] = inP[curthread[d]]
      BY <1>3, <1>4, <2>2
    <3>2. \A r \in Sem : sem_lock[r] = d => sem_lock'[r] = d
      BY <1>1, <1>4
    <3> QED
      BY <1>1, <1>2, <1>4, <2>2, <3>1, <3>2, HeldFrame DEF SleepInv
  <2> QED
    BY <2>1, <2>2
<1>6. Gone'
  BY <1>1, <1>2, <1>3, <1>4 DEF SleepInv, Gone
<1>7. InChannel'
  <2>1. \A r \in Sem : ~On(lists, Waiting(r), me)
    BY <1>3, ListIds DEF Off, Wchan
  <2> QED
    BY <1>1, <1>2, <1>4, <2>1 DEF SleepInv, InChannel
<1>8. ASSUME NEW r \in Sem, r # s PROVE Accounted(r)'
  <2>1. AboutToSleep(r)' => AboutToSleep(r)
    BY <1>4 DEF AboutToSleep
  <2>2. PendingV(r) \subseteq PendingV(r)'
    BY <1>1, <1>4 DEF PendingV
  <2>3. Awake(r) \subseteq Awake(r)'
    <3> SUFFICES ASSUME NEW t \in Awake(r) PROVE t \in Awake(r)'
      OBVIOUS
    <3>1. /\ t \in Thread /\ inP[t] = r /\ ~On(lists, Waiting(r), t)
          /\ ~\E d \in CPU : curthread[d] = t /\ pc[d] \in {"P_wchan", "sleep"}
      BY DEF Awake
    <3>2. t # me
      BY <1>1, <1>4, <1>8, <3>1
    <3>3. ~\E d \in CPU : curthread'[d] = t /\ pc'[d] \in {"P_wchan", "sleep"}
      BY <1>1, <1>4, <3>1, <3>2 DEF me
    <3> QED
      BY <1>1, <1>4, <3>1, <3>2, <3>3 DEF Awake
  <2> QED
    BY <1>1, <1>2, <2>1, <2>2, <2>3, StillAccounted DEF SleepInv
<1>9. Accounted(s)'
  BY <1>1, ZeroAccounted
<1>10. ZombiesKept(lists', t_state') /\ DeadStay
  BY <1>1, <1>2, ZombieFrame
<1> QED
  BY <1>5, <1>6, <1>7, <1>8, <1>9, <1>10 DEF Keeps, SleepInv

LEMMA PBridgeKeeps ==
  ASSUME WInv, TypeOK', NEW c \in CPU, PBridge(c)
  PROVE  Keeps
<1> DEFINE s == arg[c]
<1>1. /\ pc[c] = "P_wchan" /\ wc_lock[s] = NONE
      /\ wc_lock' = [wc_lock EXCEPT ![s] = c]
      /\ sem_lock' = [sem_lock EXCEPT ![s] = NONE]
      /\ pc' = [pc EXCEPT ![c] = "sleep"]
      /\ UNCHANGED <<arg, curthread, lists, t_state, inP, sem_count>>
  BY DEF PBridge, Goto, procVars
<1>2. TypeOK /\ IInv /\ SleepInv /\ ZombiesKept(lists, t_state)
  BY DEF WInv, IInv
<1>3. s \in Sem /\ s \in Wchan /\ Held(c) /\ inP[curthread[c]] = s /\ sem_lock[s] = c
      /\ sem_count[s] = 0
  <2>1. s \in Sem /\ Held(c)
    BY <1>1, <1>2 DEF IInv, Local, Place, SleepInv
  <2> QED
    BY <1>1, <2>1 DEF Held, Wchan
<1>4. /\ pc'[c] = "sleep" /\ \A d \in CPU : d # c => pc'[d] = pc[d]
      /\ \A r \in Sem : r # s => sem_lock'[r] = sem_lock[r]
      /\ wc_lock'[s] = c /\ \A v \in Wchan : v # s => wc_lock'[v] = wc_lock[v]
      /\ NONE \notin CPU
  BY <1>1, <1>2, <1>3, ThreadAssumption DEF TypeOK
<1>5. \A d \in CPU : Held(d)'
  <2>1. Held(c)'
    BY <1>1, <1>3, <1>4 DEF Held
  <2>2. ASSUME NEW d \in CPU, d # c PROVE Held(d)'
    <3>1. \A r \in Sem : sem_lock[r] = d => sem_lock'[r] = d
      BY <1>3, <1>4, <2>2
    <3>2. \A v \in Wchan : wc_lock[v] = d => wc_lock'[v] = d
      BY <1>1, <1>4
    <3> QED
      BY <1>1, <1>2, <1>4, <2>2, <3>1, <3>2, HeldFrame DEF SleepInv
  <2> QED
    BY <2>1, <2>2
<1>6. Gone' /\ InChannel'
  BY <1>1, <1>2 DEF SleepInv, Gone, InChannel
<1>7. ASSUME NEW r \in Sem, r # s PROVE Accounted(r)'
  <2>1. AboutToSleep(r)' => AboutToSleep(r)
    BY <1>1, <1>4, <1>7 DEF AboutToSleep
  <2>2. PendingV(r) \subseteq PendingV(r)'
    BY <1>1, <1>4 DEF PendingV
  <2>3. Awake(r) \subseteq Awake(r)'
    BY <1>1, <1>4 DEF Awake
  <2> QED
    BY <1>1, <1>2, <2>1, <2>2, <2>3, StillAccounted DEF SleepInv
<1>8. ASSUME NEW r \in Sem, r = s PROVE Accounted(r)'
  BY <1>1, <1>3, <1>8, ZeroAccounted
<1>9. ZombiesKept(lists', t_state') /\ DeadStay
  BY <1>1, <1>2, ZombieFrame
<1> QED
  BY <1>5, <1>6, <1>7, <1>8, <1>9 DEF Keeps, SleepInv

LEMMA ClocksleepKeeps ==
  ASSUME WInv, TypeOK', NEW c \in CPU, clocksleep(c)
  PROVE  Keeps
<1> DEFINE me == curthread[c]
<1>1. /\ pc[c] = "thread" /\ inP[me] = NONE /\ wc_lock[lbolt] = NONE
      /\ wc_lock' = [wc_lock EXCEPT ![lbolt] = c]
      /\ arg' = [arg EXCEPT ![c] = lbolt]
      /\ pc' = [pc EXCEPT ![c] = "sleep"]
      /\ UNCHANGED <<curthread, lists, t_state, inP, sem_count, sem_lock>>
  BY DEF clocksleep, InThread, Goto, procVars
<1>2. TypeOK /\ IInv /\ SleepInv /\ ZombiesKept(lists, t_state)
  BY DEF WInv, IInv
<1>3. /\ pc'[c] = "sleep" /\ arg'[c] = lbolt /\ lbolt \notin Sem /\ lbolt \in Wchan
      /\ \A d \in CPU : d # c => pc'[d] = pc[d] /\ arg'[d] = arg[d]
      /\ wc_lock'[lbolt] = c /\ \A v \in Wchan : v # lbolt => wc_lock'[v] = wc_lock[v]
      /\ NONE \notin CPU /\ NONE \notin Sem
  BY <1>1, <1>2, ThreadAssumption DEF TypeOK, Wchan
<1>4. \A d \in CPU : Held(d)'
  <2>1. Held(c)'
    BY <1>3 DEF Held
  <2>2. ASSUME NEW d \in CPU, d # c PROVE Held(d)'
    <3>1. \A v \in Wchan : wc_lock[v] = d => wc_lock'[v] = d
      BY <1>1, <1>3
    <3> QED
      BY <1>1, <1>2, <1>3, <2>2, <3>1, HeldFrame DEF SleepInv
  <2> QED
    BY <2>1, <2>2
<1>5. Gone' /\ InChannel'
  BY <1>1, <1>2 DEF SleepInv, Gone, InChannel
<1>6. ASSUME NEW r \in Sem PROVE Accounted(r)'
  <2>1. AboutToSleep(r)' => AboutToSleep(r)
    BY <1>3 DEF AboutToSleep
  <2>2. PendingV(r) \subseteq PendingV(r)'
    BY <1>1, <1>3 DEF PendingV
  <2>3. Awake(r) \subseteq Awake(r)'
    <3> SUFFICES ASSUME NEW t \in Awake(r) PROVE t \in Awake(r)'
      OBVIOUS
    <3>1. /\ t \in Thread /\ inP[t] = r /\ ~On(lists, Waiting(r), t)
          /\ ~\E d \in CPU : curthread[d] = t /\ pc[d] \in {"P_wchan", "sleep"}
      BY DEF Awake
    <3>2. t # me
      BY <1>1, <1>3, <3>1
    <3>3. ~\E d \in CPU : curthread'[d] = t /\ pc'[d] \in {"P_wchan", "sleep"}
      BY <1>1, <1>3, <3>1, <3>2
    <3> QED
      BY <1>1, <3>1, <3>3 DEF Awake
  <2> QED
    BY <1>1, <1>2, <2>1, <2>2, <2>3, StillAccounted DEF SleepInv
<1>7. ZombiesKept(lists', t_state') /\ DeadStay
  BY <1>1, <1>2, ZombieFrame
<1> QED
  BY <1>4, <1>5, <1>6, <1>7 DEF Keeps, SleepInv

\* V counts one more unit, and is itself on its way to wake a sleeper for it.
LEMMA VKeeps ==
  ASSUME WInv, TypeOK', NEW c \in CPU, NEW s \in Sem, V(c, s)
  PROVE  Keeps
<1>1. /\ pc[c] \in {"thread", "idle"} /\ sem_lock[s] = NONE
      /\ sem_lock' = [sem_lock EXCEPT ![s] = c]
      /\ sem_count' = [sem_count EXCEPT ![s] = @ + 1]
      /\ arg' = [arg EXCEPT ![c] = s]
      /\ pc' = [pc EXCEPT ![c] = "V_wakeone"]
      /\ UNCHANGED <<curthread, lists, t_state, inP, wc_lock>>
  BY DEF V, InterruptsOn, Goto, procVars
<1>2. TypeOK /\ IInv /\ SleepInv /\ ZombiesKept(lists, t_state)
  BY DEF WInv, IInv
<1>3. /\ pc'[c] = "V_wakeone" /\ arg'[c] = s
      /\ \A d \in CPU : d # c => pc'[d] = pc[d] /\ arg'[d] = arg[d]
      /\ sem_lock'[s] = c /\ \A r \in Sem : r # s => sem_lock'[r] = sem_lock[r]
      /\ \A r \in Sem : r # s => sem_count'[r] = sem_count[r]
      /\ sem_count'[s] = sem_count[s] + 1 /\ sem_count[s] \in Nat
      /\ NONE \notin CPU
  BY <1>1, <1>2, ThreadAssumption DEF TypeOK
<1>4. \A d \in CPU : Held(d)'
  <2>1. Held(c)'
    BY <1>3 DEF Held
  <2>2. ASSUME NEW d \in CPU, d # c PROVE Held(d)'
    <3>1. \A r \in Sem : sem_lock[r] = d => sem_lock'[r] = d /\ sem_count'[r] = sem_count[r]
      BY <1>1, <1>3
    <3> QED
      BY <1>1, <1>2, <1>3, <2>2, <3>1, HeldFrame DEF SleepInv
  <2> QED
    BY <2>1, <2>2
<1>5. Gone' /\ InChannel'
  BY <1>1, <1>2 DEF SleepInv, Gone, InChannel
<1>6. \A r \in Sem : AboutToSleep(r)' => AboutToSleep(r)
  BY <1>3 DEF AboutToSleep
<1>7. \A r \in Sem : Awake(r) \subseteq Awake(r)'
  BY <1>1, <1>3 DEF Awake
<1>8. ASSUME NEW r \in Sem, r # s PROVE Accounted(r)'
  <2>1. PendingV(r) \subseteq PendingV(r)'
    BY <1>1, <1>3 DEF PendingV
  <2> QED
    BY <1>1, <1>2, <1>3, <1>6, <1>7, <1>8, <2>1, StillAccounted DEF SleepInv
<1>9. Accounted(s)'
  <2> DEFINE a == Cardinality(Awake(s))
             b == Cardinality(PendingV(s))
             x == Cardinality(Awake(s)')
             y == Cardinality(PendingV(s)')
             n == sem_count[s]
  <2>1. PendingV(s)' = PendingV(s) \cup {c} /\ c \notin PendingV(s)
    BY <1>1, <1>3 DEF PendingV
  <2>2. a \in Nat /\ b \in Nat /\ x \in Nat /\ y \in Nat /\ n \in Nat
    BY <1>3, Counted, CountedNext
  <2>3. y = b + 1
    BY <2>1, Counted, FS_AddElement
  <2>4. a <= x
    BY <1>7, CountedNext, FS_Subset
  <2>5. n <= a + b => n + 1 <= x + y
    <3> HIDE DEF a, b, x, y, n
    <3> QED
      BY <2>2, <2>3, <2>4
  <2>6. lists[Waiting(s)] # <<>> \/ AboutToSleep(s) => n <= a + b
    BY <1>2 DEF SleepInv, Accounted
  <2> QED
    BY <1>1, <1>3, <1>6, <2>5, <2>6 DEF Accounted
<1>10. ZombiesKept(lists', t_state') /\ DeadStay
  BY <1>1, <1>2, ZombieFrame
<1> QED
  BY <1>4, <1>5, <1>8, <1>9, <1>10 DEF Keeps, SleepInv

\* wchan_wakeone, once it has the channel's lock: nobody is about to sleep, so
\* either nobody waits at all or a sleeper takes the place of the V.
LEMMA WakeoneKeeps ==
  ASSUME WInv, TypeOK', NEW c \in CPU, wchan_wakeone(c)
  PROVE  Keeps
<1>1. /\ pc[c] = "V_wakeone" /\ wc_lock[arg[c]] = NONE
      /\ UNCHANGED <<curthread, t_state, inP, sem_count, wc_lock>>
      /\ \/ /\ lists[Waiting(arg[c])] = <<>>
            /\ sem_lock' = [sem_lock EXCEPT ![arg[c]] = NONE]
            /\ arg' = [arg EXCEPT ![c] = NONE]
            /\ pc' = [pc EXCEPT ![c] = Resume(c)]
            /\ lists' = lists
         \/ /\ lists[Waiting(arg[c])] # <<>>
            /\ lists' = MoveHead(lists, Waiting(arg[c]), Wake(c))
            /\ pc' = [pc EXCEPT ![c] = "make_runnable"]
            /\ UNCHANGED <<sem_lock, arg>>
  BY DEF wchan_wakeone, Goto, procVars
<1>2. TypeOK /\ IInv /\ SleepInv /\ ZombiesKept(lists, t_state) /\ Held(c)
  BY DEF WInv, IInv, SleepInv
<1>3. PICK s \in Sem : s = arg[c]
  BY <1>1, <1>2 DEF IInv, Local, Place
<1>4. s \in Wchan /\ sem_lock[s] = c /\ NONE \notin CPU /\ Resume(c) \in {"recheck", "thread"}
  BY <1>1, <1>2, <1>3, ThreadAssumption, ResumeLabel DEF Held, Wchan
<1>5. ~AboutToSleep(s)
  BY <1>1, <1>2, <1>3, <1>4 DEF AboutToSleep, SleepInv, Held
<1>6. CASE /\ lists[Waiting(s)] = <<>>
           /\ sem_lock' = [sem_lock EXCEPT ![s] = NONE]
           /\ arg' = [arg EXCEPT ![c] = NONE]
           /\ pc' = [pc EXCEPT ![c] = Resume(c)]
           /\ lists' = lists
  <2>1. /\ pc'[c] \in {"recheck", "thread"}
        /\ \A d \in CPU : d # c => pc'[d] = pc[d] /\ arg'[d] = arg[d]
        /\ \A r \in Sem : r # s => sem_lock'[r] = sem_lock[r]
    BY <1>2, <1>4, <1>6 DEF TypeOK
  <2>2. \A d \in CPU : Held(d)'
    <3>1. Held(c)'
      BY <2>1 DEF Held
    <3>2. ASSUME NEW d \in CPU, d # c PROVE Held(d)'
      <4>1. \A r \in Sem : sem_lock[r] = d => sem_lock'[r] = d
        BY <1>4, <2>1, <3>2
      <4> QED
        BY <1>1, <1>2, <2>1, <3>2, <4>1, HeldFrame DEF SleepInv
    <3> QED
      BY <3>1, <3>2
  <2>3. Gone' /\ InChannel'
    BY <1>1, <1>2, <1>6 DEF SleepInv, Gone, InChannel
  <2>4. \A r \in Sem : AboutToSleep(r)' => AboutToSleep(r)
    BY <2>1 DEF AboutToSleep
  <2>5. ASSUME NEW r \in Sem, r # s PROVE Accounted(r)'
    <3>1. PendingV(r) \subseteq PendingV(r)'
      BY <1>3, <2>1, <2>5 DEF PendingV
    <3>2. Awake(r) \subseteq Awake(r)'
      BY <1>1, <1>6, <2>1 DEF Awake
    <3> QED
      BY <1>1, <1>2, <1>6, <2>4, <3>1, <3>2, StillAccounted DEF SleepInv
  <2>6. Accounted(s)'
    BY <1>5, <1>6, <2>4 DEF Accounted
  <2>7. ZombiesKept(lists', t_state') /\ DeadStay
    BY <1>1, <1>2, <1>6, ZombieFrame
  <2> QED
    BY <2>2, <2>3, <2>5, <2>6, <2>7 DEF Keeps, SleepInv
<1>7. CASE /\ lists[Waiting(s)] # <<>>
           /\ lists' = MoveHead(lists, Waiting(s), Wake(c))
           /\ pc' = [pc EXCEPT ![c] = "make_runnable"]
           /\ UNCHANGED <<sem_lock, arg>>
  <2> DEFINE a == Waiting(s)
             b == Wake(c)
             h == Head(lists[a])
  <2>1. /\ a \in List /\ b \in List /\ a # b
        /\ \A r \in Sem : /\ Waiting(r) \in List /\ Waiting(r) # b
                          /\ r # s => Waiting(r) # a
        /\ \A d \in CPU : Zombies(d) \in List /\ Zombies(d) # a /\ Zombies(d) # b
    BY <1>4, ListIds DEF Wchan
  <2>2. /\ h \in Thread /\ On(lists, a, h)
        /\ \A m \in List, u \in Thread :
              On(lists', m, u) <=> (On(lists, m, u) /\ u # h) \/ (m = b /\ u = h)
        /\ \A m \in List : m \notin {a, b} => lists'[m] = lists[m]
    BY <1>2, <1>7, <2>1, CoreFacts, MoveHeadFacts
  <2> HIDE DEF a, b, h
  <2>3. pc'[c] = "make_runnable" /\ \A d \in CPU : d # c => pc'[d] = pc[d]
    BY <1>2, <1>7 DEF TypeOK
  <2>4. \A d \in CPU : Held(d)'
    <3>1. Held(c)'
      BY <1>3, <1>4, <1>7, <2>3 DEF Held
    <3>2. ASSUME NEW d \in CPU, d # c PROVE Held(d)'
      BY <1>1, <1>2, <1>7, <2>3, <3>2, HeldFrame DEF SleepInv
    <3> QED
      BY <3>1, <3>2
  <2>5. \A r \in Sem, t \in Thread :
           On(lists', Waiting(r), t) <=> On(lists, Waiting(r), t) /\ t # h
    BY <2>1, <2>2
  <2>6. Gone' /\ InChannel'
    BY <1>1, <1>2, <2>5 DEF SleepInv, Gone, InChannel
  <2>7. \A r \in Sem : AboutToSleep(r)' => AboutToSleep(r)
    BY <1>7, <2>3 DEF AboutToSleep
  <2>8. \A t \in Thread :
           (\E d \in CPU : curthread'[d] = t /\ pc'[d] \in {"P_wchan", "sleep"}) =>
              \E d \in CPU : curthread[d] = t /\ pc[d] \in {"P_wchan", "sleep"}
    BY <1>1, <2>3
  <2>9. \A r \in Sem : Awake(r) \subseteq Awake(r)'
    BY <1>1, <2>5, <2>8 DEF Awake
  <2>10. ASSUME NEW r \in Sem, r # s PROVE Accounted(r)'
    <3>1. PendingV(r) \subseteq PendingV(r)'
      BY <1>3, <1>7, <2>3, <2>10 DEF PendingV
    <3>2. lists'[Waiting(r)] = lists[Waiting(r)]
      BY <2>1, <2>2, <2>10
    <3> QED
      BY <1>1, <1>2, <2>7, <2>9, <3>1, <3>2, StillAccounted DEF SleepInv
  <2>11. h \in Awake(s)' /\ h \notin Awake(s)
    <3>1. inP[h] = s
      BY <1>2, <2>2 DEF SleepInv, InChannel, a
    <3>2. \A d \in CPU : pc[d] \in {"P_wchan", "sleep"} => curthread[d] # h
      BY <1>2, <2>1, <2>2 DEF IInv, Local, Place, Core, Off
    <3>3. ~\E d \in CPU : curthread'[d] = h /\ pc'[d] \in {"P_wchan", "sleep"}
      BY <2>2, <2>8, <3>2
    <3> QED
      BY <1>1, <2>2, <2>5, <3>1, <3>3 DEF Awake, a
  <2>12. Accounted(s)'
    <3> DEFINE e == Cardinality(Awake(s))
               f == Cardinality(PendingV(s))
               x == Cardinality(Awake(s)')
               y == Cardinality(PendingV(s)')
               n == sem_count[s]
    <3>1. e \in Nat /\ f \in Nat /\ x \in Nat /\ y \in Nat /\ n \in Nat
      BY <1>2, Counted, CountedNext DEF TypeOK
    <3>2. e + 1 <= x
      <4>1. Awake(s) \cup {h} \in SUBSET Awake(s)'
        BY <2>9, <2>11
      <4>2. Cardinality(Awake(s) \cup {h}) = e + 1
        BY <2>11, Counted, FS_AddElement
      <4>3. Cardinality(Awake(s) \cup {h}) <= x
        BY <4>1, CountedNext, FS_Subset
      <4> QED
        BY <4>2, <4>3
    <3>3. y + 1 = f
      <4>1. PendingV(s)' = PendingV(s) \ {c} /\ c \in PendingV(s)
        BY <1>1, <1>3, <1>7, <2>3 DEF PendingV
      <4>2. y = f - 1
        BY <4>1, Counted, FS_RemoveElement
      <4> HIDE DEF y, f
      <4> QED
        BY <3>1, <4>2
    <3>4. n <= e + f => n <= x + y
      <4> HIDE DEF e, f, x, y, n
      <4> QED
        BY <3>1, <3>2, <3>3
    <3>5. n <= e + f
      BY <1>2, <1>7 DEF SleepInv, Accounted
    <3>6. sem_count'[s] = n
      BY <1>1
    <3> QED
      BY <3>4, <3>5, <3>6 DEF Accounted
  <2>13. ZombiesKept(lists', t_state') /\ DeadStay
    <3>1. \A d \in CPU : lists'[Zombies(d)] = lists[Zombies(d)]
      BY <2>1, <2>2
    <3> QED
      BY <1>1, <1>2, <3>1, ZombieFrame
  <2> QED
    BY <2>4, <2>6, <2>10, <2>12, <2>13 DEF Keeps, SleepInv
<1> QED
  BY <1>1, <1>3, <1>6, <1>7

-----------------------------------------------------------------------------

LEMMA InitWInv == Init => WInv
<1> SUFFICES ASSUME Init PROVE WInv
  OBVIOUS
<1>1. IInv
  BY InitIInv
<1>2. /\ pc = [c \in CPU |-> "thread"] /\ lists = [l \in List |-> <<>>]
      /\ inP = [t \in Thread |-> NONE]
      /\ \A t \in Thread : t_state[t] # "zombie"
  BY DEF Init
<1>3. \A l \in List, t \in Thread : ~On(lists, l, t)
  BY <1>2 DEF On
<1>4. ZombiesKept(lists, t_state)
  BY <1>2, <1>3, ListIds DEF ZombiesKept
<1>5. SleepInv
  <2>1. \A c \in CPU : Held(c)
    BY <1>2 DEF Held
  <2>2. \A s \in Sem : Accounted(s)
    BY <1>2, ListIds DEF Accounted, AboutToSleep, Wchan
  <2> QED
    BY <1>2, <1>3, <2>1, <2>2, ListIds DEF SleepInv, Gone, InChannel, Wchan
<1> QED
  BY <1>1, <1>4, <1>5 DEF WInv

LEMMA NextKeeps == WInv /\ [Next]_vars => WInv' /\ [DeadStay]_vars
<1> SUFFICES ASSUME WInv, [Next]_vars PROVE WInv' /\ [DeadStay]_vars
  OBVIOUS
<1>1. IInv'
  BY NextIInv DEF WInv
<1>2. TypeOK'
  BY <1>1 DEF IInv
<1>3. CASE UNCHANGED vars
  <2>1. ZombiesKept(lists, t_state)' /\ SleepInv'
    BY <1>3 DEF vars, WInv, ZombiesKept, SleepInv, Held, Gone, InChannel, Accounted,
               AboutToSleep, Awake, PendingV
  <2> QED
    BY <1>1, <1>3, <2>1 DEF WInv
<1>4. ASSUME NEW c \in CPU, KernelStep(c) PROVE Keeps
  BY <1>2, <1>4, RecheckKeeps, StillKeeps, YieldSwitchesKeeps, WchanSleepKeeps, PBridgeKeeps,
     WakeoneKeeps, MakeRunnableKeeps, MoveKeeps DEF KernelStep
<1>5. ASSUME NEW c \in CPU, ThreadStep(c) PROVE Keeps
  BY <1>2, <1>5, ThreadExitKeeps, ClocksleepKeeps, MoveKeeps, ThreadForkKeeps, PTakeKeeps,
     PZeroKeeps DEF ThreadStep
<1>6. ASSUME NEW c \in CPU, Interrupt(c) PROVE Keeps
  BY <1>2, <1>6, StillKeeps, TimerclockKeeps, VKeeps DEF Interrupt
<1>7. Keeps => WInv' /\ DeadStay
  BY <1>1 DEF Keeps, WInv
<1> QED
  BY <1>3, <1>4, <1>5, <1>6, <1>7 DEF Next

\* The strengthened invariant holds in every reachable state: who holds which
\* spinlock inside P, V and wchan_sleep, and what each unit of a semaphore's
\* count is waiting for.
THEOREM SleepInductive == Spec => []WInv
  BY InitWInv, NextKeeps, PTL DEF Spec

\* P and V of synch.c lose no wakeup: while threads sleep on a semaphore, every
\* unit of its count has a woken thread or a V on its way to it.
THEOREM WakeupsAreNotLost == Spec => []NoLostWakeup
<1>1. WInv => NoLostWakeup
  BY DEF WInv, SleepInv, Accounted, NoLostWakeup
<1> QED
  BY <1>1, SleepInductive, PTL

\* A thread that has called thread_exit never runs again: thread_switch takes
\* its next thread off a run queue, and a zombie is linked on no other list than
\* the one exorcise() frees.
THEOREM DeadThreadsStayDead == Spec => ZombiesStayDead
<1>1. WInv /\ [Next]_vars => [DeadStay]_vars
  BY NextKeeps
<1> QED
  BY <1>1, SleepInductive, PTL DEF Spec, ZombiesStayDead, DeadStay

=============================================================================
