---------------------------- MODULE ThreadProofs ----------------------------
(***************************************************************************)
(* Safety of the thread system for any number of cpus, threads and         *)
(* semaphores: an inductive invariant IInv and what it implies.            *)
(***************************************************************************)
EXTENDS Thread, ThreadlistProofs

Off(L, t) == \A l \in List : ~On(L, l, t)

\* The lists whose threads belong to cpu c.
Owned(c) == {Run(c), Victims(c), Zombies(c)}

\* Where threads are, given the lists L, the thread states st and which cpus are
\* idle.  thread_switch passes through a point where its thread has been put
\* away and none has been picked: this is stated of that point too.
Core(L, st, idle) ==
  /\ Linked(L)
  /\ \A c \in CPU : t_cpu[curthread[c]] = c
  /\ \A c \in CPU, t \in Thread, l \in List : l \in Owned(c) /\ On(L, l, t) => t_cpu[t] = c
  /\ \A c \in CPU : ~idle[c] => Off(L, curthread[c])
  /\ \A p \in Thread : child[p] # NONE =>
        /\ Off(L, child[p])
        /\ st[child[p]] # "none"
        /\ \A c \in CPU : curthread[c] # child[p]
        /\ \A q \in Thread : child[q] = child[p] => q = p
  /\ \A t \in Thread : st[t] = "none" =>
        /\ Off(L, t)
        /\ \A c \in CPU : curthread[c] # t
        /\ \A p \in Thread : child[p] # t

\* What the place of cpu c in the code says of its locals.
Place(c) ==
  /\ pc[c] \in {"idle", "recheck"} => c_isidle[c]
  /\ pc[c] \in {"thread", "sleep", "P_wchan"} => ~c_isidle[c]
  /\ pc[c] \in {"P_wchan", "V_wakeone"} => arg[c] \in Sem
  /\ pc[c] \in {"sleep", "make_runnable"} => arg[c] \in Wchan
  /\ pc[c] = "make_runnable" => lists[Wake(c)] # <<>>

\* The counts thread_consider_migration works with stay valid: only cpu c takes
\* threads off its run queue.
Counts(c) ==
  /\ pc[c] = "mig_count" => mig[c].i <= NumCpus /\ mig[c].my <= Len(lists[Run(c)])
  /\ pc[c] = "mig_take" => /\ mig[c].i <= mig[c].send
                           /\ mig[c].send - mig[c].i <= Len(lists[Run(c)])
                           /\ mig[c].i <= Len(lists[Victims(c)])
  /\ pc[c] \in {"mig_next", "mig_push"} => mig[c].send <= Len(lists[Victims(c)])
  /\ pc[c] = "mig_push" => mig[c].i \in CPU /\ mig[c].i # c
  /\ pc[c] \notin {"mig_count", "mig_take", "mig_next", "mig_push"} => mig[c] = MigStart

Called(c) == pc[c] = "idle" /\ lists[Run(c)] # <<>> => ipi[c]

Local(c) == Place(c) /\ Counts(c) /\ Called(c)

IInv ==
  /\ TypeOK
  /\ Core(lists, t_state, c_isidle)
  /\ \A c \in CPU : Local(c)

-----------------------------------------------------------------------------

LEMMA ListIds ==
  /\ \A c \in CPU : /\ Run(c) \in List /\ Zombies(c) \in List
                    /\ Wake(c) \in List /\ Victims(c) \in List
  /\ \A w \in Wchan : Waiting(w) \in List
  /\ \A c, d \in CPU : /\ Run(c) = Run(d) => c = d
                       /\ Zombies(c) = Zombies(d) => c = d
                       /\ Wake(c) = Wake(d) => c = d
                       /\ Victims(c) = Victims(d) => c = d
                       /\ Run(c) # Zombies(d) /\ Run(c) # Wake(d) /\ Run(c) # Victims(d)
                       /\ Zombies(c) # Wake(d) /\ Zombies(c) # Victims(d)
                       /\ Wake(c) # Victims(d)
  /\ \A c \in CPU, w \in Wchan : /\ Waiting(w) # Run(c) /\ Waiting(w) # Zombies(c)
                                 /\ Waiting(w) # Wake(c) /\ Waiting(w) # Victims(c)
  /\ \A v, w \in Wchan : Waiting(v) = Waiting(w) => v = w
  BY DEF List, Run, Zombies, Wake, Victims, Waiting

\* A thread is on one list only.
LEMMA OnOneList ==
  ASSUME NEW L \in [List -> Seq(Thread)], Linked(L),
         NEW a \in List, NEW b \in List, NEW t \in Thread, On(L, a, t), On(L, b, t)
  PROVE  a = b
  BY DEF Linked, On

LEMMA HeadOn ==
  ASSUME NEW L \in [List -> Seq(Thread)], NEW a \in List, L[a] # <<>>
  PROVE  Head(L[a]) \in Thread /\ On(L, a, Head(L[a]))
  BY DEF On

State == {"none", "run", "ready", "sleep", "zombie"}

\* What SwitchTo leaves on the lists: everything but the thread it runs and the
\* zombies of the cpu.
LEMMA SwitchLists ==
  ASSUME NEW c \in CPU, NEW L \in [List -> Seq(Thread)], Linked(L), L[Run(c)] # <<>>,
         NEW next \in Thread, next = Head(L[Run(c)])
  PROVE  LET N == Exorcised(RemHead(L, Run(c)), c)
         IN  /\ N \in [List -> Seq(Thread)]
             /\ Linked(N)
             /\ On(L, Run(c), next)
             /\ \A m \in List, u \in Thread :
                   On(N, m, u) <=> On(L, m, u) /\ u # next /\ m # Zombies(c)
             /\ \A m \in List : m # Run(c) /\ m # Zombies(c) => N[m] = L[m]
<1> DEFINE R == RemHead(L, Run(c))
           N == Exorcised(R, c)
<1>1. Run(c) \in List /\ Zombies(c) \in List
  BY ListIds
<1>2. /\ R \in [List -> Seq(Thread)]
      /\ \A m \in List : m # Run(c) => R[m] = L[m]
      /\ On(L, Run(c), next)
      /\ \A m \in List, u \in Thread : On(R, m, u) <=> On(L, m, u) /\ u # next
      /\ Linked(R)
  BY <1>1, RemHeadFacts
<1> HIDE DEF R
<1>3. /\ N \in [List -> Seq(Thread)]
      /\ Linked(N)
      /\ \A m \in List : m # Zombies(c) => N[m] = R[m]
      /\ \A m \in List, u \in Thread : On(N, m, u) <=> On(R, m, u) /\ m # Zombies(c)
  BY <1>1, <1>2, ClearFacts DEF Exorcised
<1> HIDE DEF N
<1>4. \A m \in List, u \in Thread :
         On(N, m, u) <=> On(L, m, u) /\ u # next /\ m # Zombies(c)
  BY <1>2, <1>3
<1>5. \A m \in List : m # Run(c) /\ m # Zombies(c) => N[m] = L[m]
  BY <1>2, <1>3
<1> QED
  BY <1>2, <1>3, <1>4, <1>5 DEF N, R

\* Picking the next thread, or idling, once the current one has been put away.
LEMMA DispatchCore ==
  ASSUME NEW c \in CPU, NEW L \in [List -> Seq(Thread)], NEW st \in [Thread -> State],
         TypeOK, Core(L, st, [c_isidle EXCEPT ![c] = TRUE]), Dispatch(c, L, st),
         UNCHANGED child
  PROVE  /\ lists' \in [List -> Seq(Thread)]
         /\ t_state' \in [Thread -> State]
         /\ curthread' \in [CPU -> Thread]
         /\ c_isidle' \in [CPU -> BOOLEAN]
         /\ t_cpu' \in [Thread -> CPU]
         /\ Core(lists, t_state, c_isidle)'
         /\ pc' = [pc EXCEPT ![c] = IF c_isidle'[c] THEN "idle" ELSE "thread"]
         /\ \A d \in CPU : d # c => c_isidle'[d] = c_isidle[d]
         /\ \A l \in List : l # Run(c) /\ l # Zombies(c) => lists'[l] = L[l]
         /\ c_isidle'[c] => lists'[Run(c)] = <<>>
<1> DEFINE idle == [c_isidle EXCEPT ![c] = TRUE]
<1>1. idle \in [CPU -> BOOLEAN] /\ idle[c] /\ \A d \in CPU : d # c => idle[d] = c_isidle[d]
  BY DEF TypeOK
<1>2. CASE Idle(c, L, st)
  <2>1. /\ lists' = L /\ t_state' = st /\ c_isidle' = idle
        /\ curthread' = curthread /\ t_cpu' = t_cpu /\ child' = child
        /\ pc' = [pc EXCEPT ![c] = "idle"]
        /\ L[Run(c)] = <<>>
    BY <1>2 DEF Idle, Goto
  <2>2. Core(lists, t_state, c_isidle)'
    BY <2>1 DEF Core, Off
  <2> QED
    BY <1>1, <2>1, <2>2 DEF TypeOK
<1>3. ASSUME NEW next \in Thread, SwitchTo(c, next, L, st)
      PROVE  /\ lists' \in [List -> Seq(Thread)]
             /\ t_state' \in [Thread -> State]
             /\ curthread' \in [CPU -> Thread]
             /\ c_isidle' \in [CPU -> BOOLEAN]
             /\ t_cpu' \in [Thread -> CPU]
             /\ Core(lists, t_state, c_isidle)'
             /\ pc' = [pc EXCEPT ![c] = "thread"]
             /\ ~c_isidle'[c]
             /\ \A d \in CPU : d # c => c_isidle'[d] = c_isidle[d]
             /\ \A l \in List : l # Run(c) /\ l # Zombies(c) => lists'[l] = L[l]
  <2>1. /\ L[Run(c)] # <<>> /\ next = Head(L[Run(c)])
        /\ lists' = Exorcised(RemHead(L, Run(c)), c)
        /\ t_state' = [AfterExorcise(L, c, st) EXCEPT ![next] = "run"]
        /\ c_isidle' = [c_isidle EXCEPT ![c] = FALSE]
        /\ curthread' = [curthread EXCEPT ![c] = next]
        /\ t_cpu' = Forget(L, c)
        /\ pc' = [pc EXCEPT ![c] = "thread"]
        /\ child' = child
    BY <1>3 DEF SwitchTo, Goto
  <2>2. Linked(L)
    BY DEF Core
  <2>3. /\ lists' \in [List -> Seq(Thread)]
        /\ Linked(lists')
        /\ On(L, Run(c), next)
        /\ \A m \in List, u \in Thread :
              On(lists', m, u) <=> On(L, m, u) /\ u # next /\ m # Zombies(c)
        /\ \A m \in List : m # Run(c) /\ m # Zombies(c) => lists'[m] = L[m]
    BY <2>1, <2>2, SwitchLists
  <2>4. ~On(L, Zombies(c), next)
    BY <2>2, <2>3, OnOneList, ListIds
  <2>5. /\ t_cpu' \in [Thread -> CPU]
        /\ \A t \in Thread : ~On(L, Zombies(c), t) => t_cpu'[t] = t_cpu[t]
    <3>1. 0 \in CPU
      BY ThreadAssumption DEF CPU
    <3> QED
      BY <2>1, <3>1 DEF Forget, TypeOK
  <2>6. /\ t_state' \in [Thread -> State]
        /\ t_state'[next] = "run"
        /\ \A t \in Thread : t # next =>
              t_state'[t] = IF On(L, Zombies(c), t) THEN "none" ELSE st[t]
    BY <2>1 DEF AfterExorcise, State
  <2>7. /\ curthread' \in [CPU -> Thread] /\ curthread'[c] = next
        /\ \A d \in CPU : d # c => curthread'[d] = curthread[d]
    BY <2>1 DEF TypeOK
  <2>8. /\ c_isidle' \in [CPU -> BOOLEAN] /\ ~c_isidle'[c]
        /\ \A d \in CPU : d # c => c_isidle'[d] = c_isidle[d]
    BY <2>1 DEF TypeOK
  <2>9. /\ \A d \in CPU : t_cpu[curthread[d]] = d
        /\ \A d \in CPU, t \in Thread, l \in List : l \in Owned(d) /\ On(L, l, t) => t_cpu[t] = d
        /\ \A d \in CPU : d # c /\ ~c_isidle[d] => Off(L, curthread[d])
        /\ \A p \in Thread : child[p] # NONE =>
              /\ Off(L, child[p])
              /\ st[child[p]] # "none"
              /\ \A d \in CPU : curthread[d] # child[p]
              /\ \A q \in Thread : child[q] = child[p] => q = p
        /\ \A t \in Thread : st[t] = "none" =>
              /\ Off(L, t)
              /\ \A d \in CPU : curthread[d] # t
              /\ \A p \in Thread : child[p] # t
    BY <1>1 DEF Core
  <2>10. /\ child \in [Thread -> Thread \cup {NONE}] /\ curthread \in [CPU -> Thread]
         /\ Zombies(c) \in List /\ Run(c) \in List
         /\ \A d \in CPU : Run(d) \in Owned(d) /\ Zombies(d) \in Owned(d)
    BY ListIds DEF TypeOK, Owned
  <2>11. \A d \in CPU : ~On(L, Zombies(c), curthread'[d])
    <3> SUFFICES ASSUME NEW d \in CPU, On(L, Zombies(c), curthread'[d])
                 PROVE  FALSE
      OBVIOUS
    <3>1. d # c
      BY <2>4, <2>7
    <3>2. curthread'[d] = curthread[d] /\ curthread[d] \in Thread /\ t_cpu[curthread[d]] = d
      BY <2>7, <2>9, <2>10, <3>1
    <3>3. t_cpu[curthread[d]] = c
      BY <2>9, <2>10, <3>2
    <3> QED
      BY <3>1, <3>2, <3>3
  <2>12. \A d \in CPU : t_cpu'[curthread'[d]] = d
    <3> SUFFICES ASSUME NEW d \in CPU PROVE t_cpu'[curthread'[d]] = d
      OBVIOUS
    <3>1. curthread'[d] \in Thread
      BY <2>7
    <3>2. t_cpu'[curthread'[d]] = t_cpu[curthread'[d]]
      BY <2>5, <2>11, <3>1
    <3>3. CASE d = c
      BY <2>3, <2>7, <2>9, <2>10, <3>2, <3>3
    <3>4. CASE d # c
      BY <2>7, <2>9, <3>2, <3>4
    <3> QED
      BY <3>3, <3>4
  <2>13. ASSUME NEW d \in CPU, NEW t \in Thread, NEW l \in List, l \in Owned(d), On(lists', l, t)
         PROVE  t_cpu'[t] = d
    <3>1. On(L, l, t) /\ l # Zombies(c)
      BY <2>3, <2>13
    <3>2. ~On(L, Zombies(c), t)
      BY <2>2, <2>10, <3>1, OnOneList
    <3> QED
      BY <2>5, <2>9, <2>13, <3>1, <3>2
  <2>14. \A t \in Thread : Off(L, t) \/ t = next => Off(lists', t)
    BY <2>3 DEF Off
  <2>15. \A d \in CPU : ~c_isidle'[d] => Off(lists', curthread'[d])
    BY <2>7, <2>8, <2>9, <2>10, <2>14
  <2>16. ASSUME NEW p \in Thread, child[p] # NONE
         PROVE  /\ Off(lists', child[p])
                /\ t_state'[child[p]] # "none"
                /\ \A d \in CPU : curthread'[d] # child[p]
                /\ \A q \in Thread : child[q] = child[p] => q = p
    <3>1. child[p] \in Thread /\ Off(L, child[p])
      BY <2>9, <2>10, <2>16
    <3>2. child[p] # next /\ ~On(L, Zombies(c), child[p])
      BY <2>3, <2>10, <3>1 DEF Off
    <3> QED
      BY <2>6, <2>7, <2>9, <2>14, <2>16, <3>1, <3>2
  <2>17. ASSUME NEW t \in Thread, t_state'[t] = "none"
         PROVE  /\ Off(lists', t)
                /\ \A d \in CPU : curthread'[d] # t
                /\ \A p \in Thread : child[p] # t
    <3>1. t # next
      BY <2>6, <2>17
    <3>2. CASE On(L, Zombies(c), t)
      <4>1. Off(lists', t)
        BY <2>2, <2>3, <2>10, <3>2, OnOneList DEF Off
      <4>2. \A p \in Thread : child[p] # t
        BY <2>9, <2>10, <3>2, ThreadAssumption DEF Off
      <4> QED
        BY <2>11, <3>2, <4>1, <4>2
    <3>3. CASE ~On(L, Zombies(c), t)
      BY <2>6, <2>7, <2>9, <2>14, <2>17, <3>1, <3>3
    <3> QED
      BY <3>2, <3>3
  <2>18. Core(lists, t_state, c_isidle)'
    BY <2>1, <2>3, <2>12, <2>13, <2>15, <2>16, <2>17 DEF Core, Off
  <2> QED
    BY <2>1, <2>3, <2>5, <2>6, <2>7, <2>8, <2>18
<1> QED
  BY <1>2, <1>3 DEF Dispatch

-----------------------------------------------------------------------------
(* Frames *)

\* What cpu c knows survives a step that leaves its variables alone, except that
\* threads may be added to its run queue by someone who calls it if it is idle.
LEMMA LocalFrame ==
  ASSUME TypeOK, lists' \in [List -> Seq(Thread)], NEW d \in CPU, Local(d),
         pc'[d] = pc[d], arg'[d] = arg[d], c_isidle'[d] = c_isidle[d], mig'[d] = mig[d],
         lists'[Wake(d)] = lists[Wake(d)], lists'[Victims(d)] = lists[Victims(d)],
         \/ lists'[Run(d)] = lists[Run(d)] /\ (ipi[d] => ipi'[d])
         \/ Len(lists'[Run(d)]) >= Len(lists[Run(d)]) /\ (c_isidle[d] => ipi'[d])
  PROVE  Local(d)'
<1>1. Place(d)'
  BY DEF Local, Place
<1>2. Len(lists[Run(d)]) \in Nat /\ Len(lists'[Run(d)]) \in Nat
  <2>1. Run(d) \in List /\ lists \in [List -> Seq(Thread)]
    BY ListIds DEF TypeOK
  <2>2. lists[Run(d)] \in Seq(Thread) /\ lists'[Run(d)] \in Seq(Thread)
    BY <2>1
  <2> QED
    BY <2>2
<1> DEFINE n == Len(lists[Run(d)])
           m == Len(lists'[Run(d)])
<1>3. /\ mig[d].my \in Nat /\ mig[d].i \in Nat /\ mig[d].send \in Nat
      /\ n \in Nat /\ m \in Nat /\ n <= m
  <2>1. mig[d].my \in Nat /\ mig[d].i \in Nat /\ mig[d].send \in Nat
    BY DEF TypeOK, MigLocals
  <2>2. m = n \/ m >= n
    OBVIOUS
  <2>3. n \in Nat /\ m \in Nat
    BY <1>2
  <2> HIDE DEF n, m
  <2> QED
    BY <2>1, <2>2, <2>3
<1>4. Counts(d)'
  <2> HIDE DEF n, m
  <2>1. pc[d] = "mig_count" => mig[d].i <= NumCpus /\ mig[d].my <= m
    <3>1. pc[d] = "mig_count" => mig[d].i <= NumCpus /\ mig[d].my <= n
      BY DEF Local, Counts, n
    <3> QED
      BY <1>3, <3>1
  <2>2. pc[d] = "mig_take" => mig[d].send - mig[d].i <= m
    <3>1. pc[d] = "mig_take" => mig[d].send - mig[d].i <= n
      BY DEF Local, Counts, n
    <3> QED
      BY <1>3, <3>1
  <2> QED
    BY <2>1, <2>2 DEF Local, Counts, m
<1>5. Called(d)'
  BY DEF Local, Place, Called
<1> QED
  BY <1>1, <1>4, <1>5 DEF Local

\* Nothing that Core speaks of changes.
LEMMA CoreFrame ==
  ASSUME Core(lists, t_state, c_isidle),
         UNCHANGED <<lists, t_state, c_isidle, t_cpu, curthread, child>>
  PROVE  Core(lists, t_state, c_isidle)'
  BY DEF Core, Off

\* A step of cpu c that moves no thread.
LEMMA QuietStep ==
  ASSUME IInv, TypeOK', NEW c \in CPU,
         UNCHANGED <<lists, t_state, c_isidle, t_cpu, curthread, child>>,
         \A d \in CPU : d # c => /\ pc'[d] = pc[d] /\ arg'[d] = arg[d]
                                 /\ mig'[d] = mig[d] /\ ipi'[d] = ipi[d],
         Local(c)'
  PROVE  IInv'
<1>1. Core(lists, t_state, c_isidle)'
  BY CoreFrame DEF IInv
<1>2. ASSUME NEW d \in CPU, d # c PROVE Local(d)'
  BY <1>2, LocalFrame DEF IInv, TypeOK
<1> QED
  BY <1>1, <1>2 DEF IInv
-----------------------------------------------------------------------------
(* Steps that move no thread *)

LEMMA ResumeLabel ==
  ASSUME NEW c \in CPU, TypeOK
  PROVE  Resume(c) \in {"recheck", "thread"} /\ (Resume(c) = "recheck" <=> c_isidle[c])
  BY DEF Resume, TypeOK

\* A handler of cpu c returns.
LEMMA ResumeLocal ==
  ASSUME TypeOK, NEW c \in CPU, Local(c), mig[c] = MigStart,
         UNCHANGED <<c_isidle, mig>>, pc' = [pc EXCEPT ![c] = Resume(c)]
  PROVE  Local(c)'
<1>1. pc'[c] = Resume(c)
  BY DEF TypeOK
<1> QED
  BY <1>1, ResumeLabel DEF Local, Place, Counts, Called

LEMMA YieldReturnsStep ==
  ASSUME IInv, NEW c \in CPU, YieldReturns(c)
  PROVE  IInv'
<1>1. /\ pc[c] = "yield" /\ pc' = [pc EXCEPT ![c] = Resume(c)]
      /\ UNCHANGED <<arg, curthread, c_isidle, ipi, lists, rqlock, mig, t_state, t_cpu,
                     inP, child, sem_count, sem_lock, wc_lock>>
  BY DEF YieldReturns, Goto, migVars, procVars, semVars
<1>2. TypeOK /\ Local(c) /\ mig[c] = MigStart
  BY <1>1 DEF IInv, Local, Counts
<1>3. TypeOK'
  BY <1>1, <1>2, ResumeLabel DEF TypeOK, PC
<1>4. Local(c)'
  BY <1>1, <1>2, ResumeLocal
<1> QED
  BY <1>1, <1>2, <1>3, <1>4, QuietStep DEF TypeOK

LEMMA IpiInterruptStep ==
  ASSUME IInv, NEW c \in CPU, IpiInterrupt(c)
  PROVE  IInv'
<1>1. /\ pc[c] \in {"thread", "idle"} /\ pc' = [pc EXCEPT ![c] = Resume(c)]
      /\ ipi' = [ipi EXCEPT ![c] = FALSE]
      /\ UNCHANGED <<arg, curthread, c_isidle, lists, rqlock, mig, t_state, t_cpu,
                     inP, child, sem_count, sem_lock, wc_lock>>
  BY DEF IpiInterrupt, InterruptsOn, Goto, migVars, procVars, semVars
<1>2. TypeOK /\ Local(c) /\ mig[c] = MigStart
  BY <1>1 DEF IInv, Local, Counts
<1>3. TypeOK'
  BY <1>1, <1>2, ResumeLabel DEF TypeOK, PC
<1>4. Local(c)'
  BY <1>1, <1>2, ResumeLocal
<1> QED
  BY <1>1, <1>2, <1>3, <1>4, QuietStep DEF TypeOK

LEMMA HardclockStep ==
  ASSUME IInv, NEW c \in CPU, hardclock(c)
  PROVE  IInv'
<1>1. /\ pc[c] \in {"thread", "idle"}
      /\ UNCHANGED <<arg, curthread, c_isidle, ipi, lists, rqlock, mig, t_state, t_cpu,
                     inP, child, sem_count, sem_lock, wc_lock>>
  BY DEF hardclock, InterruptsOn, migVars, procVars, semVars
<1>2. PICK label \in {"yield", "mig_count"} : pc' = [pc EXCEPT ![c] = label]
  BY DEF hardclock, Goto
<1>3. TypeOK /\ Local(c) /\ mig[c] = MigStart
  BY <1>1 DEF IInv, Local, Counts
<1>4. TypeOK'
  BY <1>1, <1>2, <1>3 DEF TypeOK, PC
<1>5. Local(c)'
  <2>1. pc'[c] = label /\ mig'[c] = MigStart
    BY <1>1, <1>2, <1>3 DEF TypeOK
  <2>2. mig'[c].i = 0 /\ mig'[c].my = 0
    BY <2>1 DEF MigStart
  <2>3. Len(lists'[Run(c)]) \in Nat /\ NumCpus \in Nat
    <3>1. lists'[Run(c)] \in Seq(Thread)
      BY <1>4, ListIds DEF TypeOK
    <3> QED
      BY <3>1, ThreadAssumption
  <2>4. 0 <= NumCpus /\ 0 <= Len(lists'[Run(c)])
    BY <2>3
  <2>5. Place(c)' /\ Called(c)'
    BY <2>1 DEF Place, Called
  <2>6. Counts(c)'
    BY <2>1, <2>2, <2>4 DEF Counts
  <2> QED
    BY <2>5, <2>6 DEF Local
<1> QED
  BY <1>1, <1>2, <1>3, <1>4, <1>5, QuietStep DEF TypeOK

LEMMA PTakeStep ==
  ASSUME IInv, NEW c \in CPU, NEW s \in Sem, PTake(c, s)
  PROVE  IInv'
<1>1. /\ sem_count[s] > 0
      /\ sem_count' = [sem_count EXCEPT ![s] = @ - 1]
      /\ inP' = [inP EXCEPT ![curthread[c]] = NONE]
      /\ UNCHANGED <<pc, arg, curthread, c_isidle, ipi, lists, rqlock, mig, t_state, t_cpu,
                     child, sem_lock, wc_lock>>
  BY DEF PTake, migVars
<1>2. TypeOK /\ Local(c)
  BY DEF IInv
<1>3. sem_count' \in [Sem -> Nat]
  BY <1>1, <1>2 DEF TypeOK
<1>4. TypeOK'
  BY <1>1, <1>2, <1>3 DEF TypeOK
<1>5. Local(c)'
  BY <1>1, <1>2 DEF Local, Place, Counts, Called
<1> QED
  BY <1>1, <1>4, <1>5, QuietStep

LEMMA PZeroStep ==
  ASSUME IInv, NEW c \in CPU, NEW s \in Sem, PZero(c, s)
  PROVE  IInv'
<1>1. /\ pc[c] = "thread"
      /\ sem_lock' = [sem_lock EXCEPT ![s] = c]
      /\ inP' = [inP EXCEPT ![curthread[c]] = s]
      /\ arg' = [arg EXCEPT ![c] = s]
      /\ pc' = [pc EXCEPT ![c] = "P_wchan"]
      /\ UNCHANGED <<curthread, c_isidle, ipi, lists, rqlock, mig, t_state, t_cpu,
                     child, sem_count, wc_lock>>
  BY DEF PZero, AtP, Goto, migVars
<1>2. TypeOK /\ Local(c)
  BY DEF IInv
<1>3. TypeOK'
  BY <1>1, <1>2 DEF TypeOK, PC, Wchan
<1>4. Local(c)'
  <2>1. pc'[c] = "P_wchan" /\ arg'[c] = s
    BY <1>1, <1>2 DEF TypeOK
  <2> QED
    BY <1>1, <1>2, <2>1 DEF Local, Place, Counts, Called
<1> QED
  BY <1>1, <1>2, <1>3, <1>4, QuietStep DEF TypeOK

LEMMA PBridgeStep ==
  ASSUME IInv, NEW c \in CPU, PBridge(c)
  PROVE  IInv'
<1>1. /\ pc[c] = "P_wchan"
      /\ wc_lock' = [wc_lock EXCEPT ![arg[c]] = c]
      /\ sem_lock' = [sem_lock EXCEPT ![arg[c]] = NONE]
      /\ pc' = [pc EXCEPT ![c] = "sleep"]
      /\ UNCHANGED <<arg, curthread, c_isidle, ipi, lists, rqlock, mig, t_state, t_cpu,
                     inP, child, sem_count>>
  BY DEF PBridge, Goto, migVars, procVars
<1>2. TypeOK /\ Local(c)
  BY DEF IInv
<1>3. TypeOK'
  BY <1>1, <1>2 DEF TypeOK, PC
<1>4. Local(c)'
  <2>1. pc'[c] = "sleep" /\ arg'[c] \in Wchan
    BY <1>1, <1>2 DEF TypeOK, Local, Place, Wchan
  <2> QED
    BY <1>1, <1>2, <2>1 DEF Local, Place, Counts, Called
<1> QED
  BY <1>1, <1>2, <1>3, <1>4, QuietStep DEF TypeOK

LEMMA VStep ==
  ASSUME IInv, NEW c \in CPU, NEW s \in Sem, V(c, s)
  PROVE  IInv'
<1>1. /\ pc[c] \in {"thread", "idle"}
      /\ sem_lock' = [sem_lock EXCEPT ![s] = c]
      /\ sem_count' = [sem_count EXCEPT ![s] = @ + 1]
      /\ arg' = [arg EXCEPT ![c] = s]
      /\ pc' = [pc EXCEPT ![c] = "V_wakeone"]
      /\ UNCHANGED <<curthread, c_isidle, ipi, lists, rqlock, mig, t_state, t_cpu,
                     inP, child, wc_lock>>
  BY DEF V, InterruptsOn, Goto, migVars, procVars
<1>2. TypeOK /\ Local(c)
  BY DEF IInv
<1>3. TypeOK'
  BY <1>1, <1>2 DEF TypeOK, PC, Wchan
<1>4. Local(c)'
  <2>1. pc'[c] = "V_wakeone" /\ arg'[c] = s
    BY <1>1, <1>2 DEF TypeOK
  <2> QED
    BY <1>1, <1>2, <2>1 DEF Local, Place, Counts, Called
<1> QED
  BY <1>1, <1>2, <1>3, <1>4, QuietStep DEF TypeOK

LEMMA ClocksleepStep ==
  ASSUME IInv, NEW c \in CPU, clocksleep(c)
  PROVE  IInv'
<1>1. /\ pc[c] = "thread"
      /\ wc_lock' = [wc_lock EXCEPT ![lbolt] = c]
      /\ arg' = [arg EXCEPT ![c] = lbolt]
      /\ pc' = [pc EXCEPT ![c] = "sleep"]
      /\ UNCHANGED <<curthread, c_isidle, ipi, lists, rqlock, mig, t_state, t_cpu,
                     inP, child, sem_count, sem_lock>>
  BY DEF clocksleep, InThread, Goto, migVars, procVars
<1>2. TypeOK /\ Local(c)
  BY DEF IInv
<1>3. TypeOK'
  BY <1>1, <1>2 DEF TypeOK, PC, Wchan
<1>4. Local(c)'
  <2>1. pc'[c] = "sleep" /\ arg'[c] \in Wchan
    BY <1>1, <1>2 DEF TypeOK, Wchan
  <2> QED
    BY <1>1, <1>2, <2>1 DEF Local, Place, Counts, Called
<1> QED
  BY <1>1, <1>2, <1>3, <1>4, QuietStep DEF TypeOK


\* Facts about the locals of a migration and the lengths it compares them with.
LEMMA MigFacts ==
  ASSUME TypeOK, NEW c \in CPU
  PROVE  /\ mig[c] \in MigLocals
         /\ mig[c].i \in Nat /\ mig[c].total \in Nat /\ mig[c].my \in Nat
         /\ mig[c].share \in Nat /\ mig[c].send \in Nat
         /\ \A d \in CPU : /\ lists[Run(d)] \in Seq(Thread) /\ Len(lists[Run(d)]) \in Nat
                           /\ lists[Victims(d)] \in Seq(Thread) /\ Len(lists[Victims(d)]) \in Nat
         /\ NumCpus \in Nat /\ NumCpus > 0 /\ c \in Nat /\ c < NumCpus
         /\ CPU = {n \in Nat : n < NumCpus}
<1>1. mig[c] \in MigLocals
  BY DEF TypeOK
<1>2. /\ mig[c].i \in Nat /\ mig[c].total \in Nat /\ mig[c].my \in Nat
      /\ mig[c].share \in Nat /\ mig[c].send \in Nat
  BY <1>1 DEF MigLocals
<1>3. ASSUME NEW d \in CPU
      PROVE  lists[Run(d)] \in Seq(Thread) /\ lists[Victims(d)] \in Seq(Thread)
  BY ListIds DEF TypeOK
<1>4. ASSUME NEW d \in CPU
      PROVE  Len(lists[Run(d)]) \in Nat /\ Len(lists[Victims(d)]) \in Nat
  BY <1>3
<1>5. NumCpus \in Nat /\ NumCpus > 0
  BY ThreadAssumption
<1>6. CPU = {n \in Nat : n < NumCpus} /\ c \in Nat /\ c < NumCpus
  BY <1>5 DEF CPU
<1> QED
  BY <1>1, <1>2, <1>3, <1>4, <1>5, <1>6

LEMMA MigCountStep ==
  ASSUME IInv, NEW c \in CPU, MigCount(c)
  PROVE  IInv'
<1> DEFINE i == mig[c].i
           n == Len(lists[Run(i)])
<1>1. /\ pc[c] = "mig_count" /\ i < NumCpus
      /\ mig' = [mig EXCEPT ![c] = [mig[c] EXCEPT !.i = i + 1, !.total = mig[c].total + n,
                                                  !.my = IF i = c THEN n ELSE mig[c].my]]
      /\ UNCHANGED <<pc, arg, curthread, c_isidle, ipi, lists, rqlock, t_state, t_cpu,
                     inP, child, sem_count, sem_lock, wc_lock>>
  BY DEF MigCount, ThisCpu, procVars, semVars, IInv, TypeOK, MigLocals
<1>2. TypeOK /\ Local(c)
  BY DEF IInv
<1>3. /\ mig[c].i \in Nat /\ mig[c].total \in Nat /\ mig[c].my \in Nat
      /\ mig[c].share \in Nat /\ mig[c].send \in Nat /\ NumCpus \in Nat
      /\ i \in CPU /\ n \in Nat
  BY <1>1, <1>2, MigFacts
<1>4. mig[c].my <= Len(lists[Run(c)])
  BY <1>1, <1>2 DEF Local, Counts
<1> HIDE DEF n
<1>5. /\ mig'[c] = [mig[c] EXCEPT !.i = i + 1, !.total = mig[c].total + n,
                                  !.my = IF i = c THEN n ELSE mig[c].my]
      /\ \A d \in CPU : d # c => mig'[d] = mig[d]
  BY <1>1, <1>2 DEF TypeOK
<1>6. mig[c] \in MigLocals
  BY <1>2, MigFacts
<1>7. /\ mig'[c] \in MigLocals
      /\ mig'[c].i = i + 1
      /\ mig'[c].my = IF i = c THEN n ELSE mig[c].my
  <2> DEFINE my == IF i = c THEN n ELSE mig[c].my
             total == mig[c].total + n
             j == i + 1
  <2>1. my \in Nat /\ total \in Nat /\ j \in Nat
    BY <1>3
  <2>2. mig'[c] = [mig[c] EXCEPT !.i = j, !.total = total, !.my = my]
    BY <1>5
  <2> HIDE DEF my, total, j
  <2>3. mig'[c] \in MigLocals /\ mig'[c].i = j /\ mig'[c].my = my
    BY <1>6, <2>1, <2>2 DEF MigLocals
  <2> QED
    BY <2>3 DEF my, j
<1>8. mig' \in [CPU -> MigLocals]
  BY <1>1, <1>2, <1>5, <1>7 DEF TypeOK
<1>9. TypeOK'
  BY <1>1, <1>2, <1>8 DEF TypeOK
<1>10. mig'[c].i <= NumCpus /\ mig'[c].my <= Len(lists[Run(c)])
  <2>1. mig'[c].i <= NumCpus
    BY <1>1, <1>3, <1>7
  <2>2. mig'[c].my <= Len(lists[Run(c)])
    BY <1>3, <1>4, <1>7 DEF n
  <2> QED
    BY <2>1, <2>2
<1>11. Local(c)'
  BY <1>1, <1>2, <1>10 DEF Local, Place, Counts, Called
<1> QED
  BY <1>1, <1>5, <1>9, <1>11, QuietStep

LEMMA MigDecideStep ==
  ASSUME IInv, NEW c \in CPU, MigDecide(c)
  PROVE  IInv'
<1> DEFINE share == DIVROUNDUP(mig[c].total, NumCpus)
<1>1. /\ pc[c] = "mig_count"
      /\ UNCHANGED <<arg, curthread, c_isidle, ipi, lists, rqlock, t_state, t_cpu,
                     inP, child, sem_count, sem_lock, wc_lock>>
      /\ \/ /\ mig' = [mig EXCEPT ![c] = MigStart]
            /\ pc' = [pc EXCEPT ![c] = "yield"]
         \/ /\ mig[c].my >= share
            /\ mig' = [mig EXCEPT ![c] = [MigStart EXCEPT !.share = share,
                                                          !.send = mig[c].my - share]]
            /\ pc' = [pc EXCEPT ![c] = "mig_take"]
  <2>1. mig[c].my \in Nat /\ share \in Int
    <3>1. mig[c].total \in Nat /\ mig[c].my \in Nat /\ NumCpus \in Nat \ {0}
      BY MigFacts, ThreadAssumption DEF IInv
    <3>2. \A x \in Nat, y \in Nat \ {0} : (x + y - 1) \div y \in Int
      OBVIOUS
    <3> QED
      BY <3>1, <3>2 DEF DIVROUNDUP
  <2> HIDE DEF share
  <2>2. ~Short(mig[c].my, share) => mig[c].my >= share
    BY <2>1 DEF Short
  <2> QED
    BY <2>2 DEF MigDecide, Goto, procVars, semVars, share
<1>2. TypeOK /\ Local(c)
  BY DEF IInv
<1>3. MigStart \in MigLocals /\ MigStart.i = 0
  BY DEF MigStart, MigLocals
<1>4. CASE /\ mig' = [mig EXCEPT ![c] = MigStart]
           /\ pc' = [pc EXCEPT ![c] = "yield"]
  <2>1. TypeOK'
    BY <1>1, <1>2, <1>3, <1>4 DEF TypeOK, PC
  <2>2. pc'[c] = "yield" /\ mig'[c] = MigStart
    BY <1>2, <1>4 DEF TypeOK
  <2>3. Local(c)'
    BY <2>2 DEF Local, Place, Counts, Called
  <2> QED
    BY <1>1, <1>2, <1>4, <2>1, <2>3, QuietStep DEF TypeOK
<1>5. CASE /\ mig[c].my >= share
           /\ mig' = [mig EXCEPT ![c] = [MigStart EXCEPT !.share = share,
                                                         !.send = mig[c].my - share]]
           /\ pc' = [pc EXCEPT ![c] = "mig_take"]
  <2>1. share \in Nat
    <3>1. /\ mig[c].total \in Nat /\ NumCpus \in Nat \ {0}
      BY <1>2, MigFacts, ThreadAssumption
    <3>2. \A a \in Nat, b \in Nat \ {0} : (a + b - 1) \div b \in Nat
      OBVIOUS
    <3> QED
      BY <3>1, <3>2 DEF DIVROUNDUP
  <2> HIDE DEF share
  <2> DEFINE send == mig[c].my - share
             rec == [MigStart EXCEPT !.share = share, !.send = send]
  <2>2. mig[c].my \in Nat /\ mig[c].my <= Len(lists[Run(c)]) /\ Len(lists[Run(c)]) \in Nat
    BY <1>1, <1>2, MigFacts DEF Local, Counts
  <2>3. send \in Nat /\ send <= Len(lists[Run(c)])
    BY <1>5, <2>1, <2>2
  <2> HIDE DEF send
  <2>4. rec \in MigLocals /\ rec.i = 0 /\ rec.send = send
    BY <2>1, <2>3 DEF MigStart, MigLocals
  <2>5. mig' = [mig EXCEPT ![c] = rec]
    BY <1>5 DEF send
  <2> HIDE DEF rec
  <2>6. TypeOK'
    BY <1>1, <1>2, <1>5, <2>4, <2>5 DEF TypeOK, PC
  <2>7. pc'[c] = "mig_take" /\ mig'[c] = rec
    BY <1>2, <1>5, <2>5 DEF TypeOK
  <2>8. Len(lists[Victims(c)]) \in Nat
    BY <1>2, MigFacts
  <2>9. /\ 0 <= send /\ send - 0 <= Len(lists[Run(c)]) /\ 0 <= Len(lists[Victims(c)])
    BY <2>2, <2>3, <2>8
  <2>10. Local(c)'
    BY <1>1, <2>4, <2>7, <2>9 DEF Local, Place, Counts, Called
  <2> QED
    BY <1>1, <1>2, <1>5, <2>5, <2>6, <2>10, QuietStep DEF TypeOK
<1> QED
  BY <1>1, <1>4, <1>5


\* An assignment to one local of the migration.
LEMMA MigSetI ==
  ASSUME TypeOK, NEW c \in CPU, NEW x \in Nat, mig' = [mig EXCEPT ![c].i = x]
  PROVE  /\ mig' \in [CPU -> MigLocals]
         /\ mig'[c].i = x /\ mig'[c].send = mig[c].send
         /\ \A d \in CPU : d # c => mig'[d] = mig[d]
<1>1. /\ mig'[c] = [mig[c] EXCEPT !.i = x]
      /\ \A d \in CPU : d # c => mig'[d] = mig[d]
  BY DEF TypeOK
<1>2. mig'[c] \in MigLocals /\ mig'[c].i = x /\ mig'[c].send = mig[c].send
  <2>1. mig[c] \in MigLocals
    BY MigFacts
  <2> QED
    BY <1>1, <2>1 DEF MigLocals
<1> QED
  BY <1>1, <1>2 DEF TypeOK

LEMMA MigSetSend ==
  ASSUME TypeOK, NEW c \in CPU, NEW x \in Nat, mig' = [mig EXCEPT ![c].send = x]
  PROVE  /\ mig' \in [CPU -> MigLocals]
         /\ mig'[c].send = x /\ mig'[c].i = mig[c].i
         /\ \A d \in CPU : d # c => mig'[d] = mig[d]
<1>1. /\ mig'[c] = [mig[c] EXCEPT !.send = x]
      /\ \A d \in CPU : d # c => mig'[d] = mig[d]
  BY DEF TypeOK
<1>2. mig'[c] \in MigLocals /\ mig'[c].send = x /\ mig'[c].i = mig[c].i
  <2>1. mig[c] \in MigLocals
    BY MigFacts
  <2> QED
    BY <1>1, <2>1 DEF MigLocals
<1> QED
  BY <1>1, <1>2 DEF TypeOK

LEMMA MigTakenStep ==
  ASSUME IInv, NEW c \in CPU, MigTaken(c)
  PROVE  IInv'
<1>1. /\ pc[c] = "mig_take" /\ mig[c].i = mig[c].send
      /\ rqlock' = [rqlock EXCEPT ![c] = NONE]
      /\ mig' = [mig EXCEPT ![c].i = 0]
      /\ pc' = [pc EXCEPT ![c] = "mig_next"]
      /\ UNCHANGED <<arg, curthread, c_isidle, ipi, lists, t_state, t_cpu,
                     inP, child, sem_count, sem_lock, wc_lock>>
  BY DEF MigTaken, Goto, procVars, semVars
<1>2. TypeOK /\ Local(c)
  BY DEF IInv
<1>3. /\ mig' \in [CPU -> MigLocals]
      /\ mig'[c].send = mig[c].send
      /\ \A d \in CPU : d # c => mig'[d] = mig[d]
  BY <1>1, <1>2, MigSetI
<1>4. TypeOK'
  BY <1>1, <1>2, <1>3 DEF TypeOK, PC
<1>5. pc'[c] = "mig_next" /\ mig'[c].send <= Len(lists[Victims(c)])
  BY <1>1, <1>2, <1>3 DEF TypeOK, Local, Counts
<1>6. Local(c)'
  BY <1>1, <1>5 DEF Local, Place, Counts, Called
<1> QED
  BY <1>1, <1>2, <1>3, <1>4, <1>6, QuietStep DEF TypeOK

LEMMA MigNextStep ==
  ASSUME IInv, NEW c \in CPU, MigNext(c)
  PROVE  IInv'
<1> DEFINE d == mig[c].i
<1>1. /\ pc[c] = "mig_next" /\ d < NumCpus
      /\ UNCHANGED <<arg, curthread, c_isidle, ipi, lists, t_state, t_cpu,
                     inP, child, sem_count, sem_lock, wc_lock>>
      /\ \/ /\ mig' = [mig EXCEPT ![c].i = d + 1]
            /\ UNCHANGED <<pc, rqlock>>
         \/ /\ d # c
            /\ rqlock' = [rqlock EXCEPT ![d] = c]
            /\ pc' = [pc EXCEPT ![c] = "mig_push"]
            /\ UNCHANGED mig
  BY DEF MigNext, MigMore, Goto, procVars, semVars
<1>2. TypeOK /\ Local(c)
  BY DEF IInv
<1>3. d \in CPU /\ d \in Nat /\ d + 1 \in Nat
  BY <1>1, <1>2, MigFacts
<1>4. mig[c].send <= Len(lists[Victims(c)])
  BY <1>1, <1>2 DEF Local, Counts
<1>5. CASE /\ mig' = [mig EXCEPT ![c].i = d + 1]
           /\ UNCHANGED <<pc, rqlock>>
  <2>1. /\ mig' \in [CPU -> MigLocals]
        /\ mig'[c].send = mig[c].send
        /\ \A e \in CPU : e # c => mig'[e] = mig[e]
    BY <1>2, <1>3, <1>5, MigSetI
  <2>2. TypeOK'
    BY <1>1, <1>2, <1>5, <2>1 DEF TypeOK
  <2>3. Local(c)'
    BY <1>1, <1>4, <1>5, <2>1 DEF Local, Place, Counts, Called
  <2> QED
    BY <1>1, <1>5, <2>1, <2>2, <2>3, QuietStep
<1>6. CASE /\ d # c
           /\ rqlock' = [rqlock EXCEPT ![d] = c]
           /\ pc' = [pc EXCEPT ![c] = "mig_push"]
           /\ UNCHANGED mig
  <2>1. TypeOK'
    BY <1>1, <1>2, <1>6 DEF TypeOK, PC
  <2>2. pc'[c] = "mig_push"
    BY <1>2, <1>6 DEF TypeOK
  <2>3. Local(c)'
    BY <1>1, <1>3, <1>4, <1>6, <2>2 DEF Local, Place, Counts, Called
  <2> QED
    BY <1>1, <1>2, <1>6, <2>1, <2>3, QuietStep DEF TypeOK
<1> QED
  BY <1>1, <1>5, <1>6

LEMMA MigUnlockStep ==
  ASSUME IInv, NEW c \in CPU, MigUnlock(c)
  PROVE  IInv'
<1> DEFINE d == mig[c].i
<1>1. /\ pc[c] = "mig_push"
      /\ rqlock' = [rqlock EXCEPT ![d] = NONE]
      /\ mig' = [mig EXCEPT ![c].i = d + 1]
      /\ pc' = [pc EXCEPT ![c] = "mig_next"]
      /\ UNCHANGED <<arg, curthread, c_isidle, ipi, lists, t_state, t_cpu,
                     inP, child, sem_count, sem_lock, wc_lock>>
  BY DEF MigUnlock, Goto, procVars, semVars
<1>2. TypeOK /\ Local(c)
  BY DEF IInv
<1>3. d \in Nat /\ d + 1 \in Nat
  BY <1>2, MigFacts
<1>4. /\ mig' \in [CPU -> MigLocals]
      /\ mig'[c].send = mig[c].send
      /\ \A e \in CPU : e # c => mig'[e] = mig[e]
  BY <1>1, <1>2, <1>3, MigSetI
<1>5. TypeOK'
  BY <1>1, <1>2, <1>4 DEF TypeOK, PC
<1>6. pc'[c] = "mig_next" /\ mig'[c].send <= Len(lists[Victims(c)])
  BY <1>1, <1>2, <1>4 DEF TypeOK, Local, Counts
<1>7. Local(c)'
  BY <1>1, <1>6 DEF Local, Place, Counts, Called
<1> QED
  BY <1>1, <1>2, <1>4, <1>5, <1>7, QuietStep DEF TypeOK

LEMMA ThreadForkStep ==
  ASSUME IInv, NEW c \in CPU, NEW new \in Thread, thread_fork(c, new)
  PROVE  IInv'
<1> DEFINE me == curthread[c]
<1>1. /\ child[me] = NONE /\ t_state[new] = "none"
      /\ t_state' = [t_state EXCEPT ![new] = "ready"]
      /\ t_cpu' = [t_cpu EXCEPT ![new] = t_cpu[me]]
      /\ child' = [child EXCEPT ![me] = new, ![new] = NONE]
      /\ inP' = [inP EXCEPT ![new] = NONE]
      /\ UNCHANGED <<pc, arg, curthread, c_isidle, ipi, lists, rqlock, mig,
                     sem_count, sem_lock, wc_lock>>
  BY DEF thread_fork, InThread, SetState, migVars, semVars
<1>2. TypeOK /\ Core(lists, t_state, c_isidle) /\ \A d \in CPU : Local(d)
  BY DEF IInv
<1>3. me \in Thread /\ t_cpu[me] \in CPU
  BY <1>2 DEF TypeOK
<1>4. TypeOK'
  BY <1>1, <1>2, <1>3 DEF TypeOK
<1>5. /\ Off(lists, new) /\ \A d \in CPU : curthread[d] # new
      /\ \A p \in Thread : child[p] # new
  BY <1>1, <1>2 DEF Core
<1>6. me # new
  BY <1>5
<1>7. /\ \A t \in Thread : t # new => t_state'[t] = t_state[t] /\ t_cpu'[t] = t_cpu[t]
      /\ t_state'[new] = "ready"
      /\ \A p \in Thread : p # me /\ p # new => child'[p] = child[p]
      /\ child'[me] = new /\ child'[new] = NONE
      /\ \A d \in CPU : curthread[d] \in Thread
      /\ child \in [Thread -> Thread \cup {NONE}] /\ NONE \notin Thread
  BY <1>1, <1>2, <1>3, <1>6, ThreadAssumption DEF TypeOK
<1> HIDE DEF me
<1>8. \A d \in CPU : t_cpu'[curthread[d]] = d
  BY <1>2, <1>5, <1>7 DEF Core
<1>9. \A d \in CPU, t \in Thread, l \in List :
         l \in Owned(d) /\ On(lists, l, t) => t_cpu'[t] = d
  BY <1>2, <1>5, <1>7 DEF Core, Off
<1>10. ASSUME NEW p \in Thread, child'[p] # NONE
       PROVE  /\ Off(lists, child'[p])
              /\ t_state'[child'[p]] # "none"
              /\ \A d \in CPU : curthread[d] # child'[p]
              /\ \A q \in Thread : child'[q] = child'[p] => q = p
  <2>1. CASE p = me
    BY <1>5, <1>7, <2>1
  <2>2. CASE p # me
    <3>1. p # new /\ child'[p] = child[p] /\ child[p] # new /\ child[p] \in Thread
      BY <1>5, <1>7, <1>10, <2>2
    <3>2. /\ Off(lists, child[p])
          /\ t_state[child[p]] # "none"
          /\ \A d \in CPU : curthread[d] # child[p]
          /\ \A q \in Thread : child[q] = child[p] => q = p
      BY <1>2, <1>10, <3>1 DEF Core
    <3> QED
      BY <1>7, <1>10, <3>1, <3>2
  <2> QED
    BY <2>1, <2>2
<1>11. ASSUME NEW t \in Thread, t_state'[t] = "none"
       PROVE  /\ Off(lists, t)
              /\ \A d \in CPU : curthread[d] # t
              /\ \A p \in Thread : child'[p] # t
  <2>1. t # new /\ t_state[t] = "none"
    BY <1>7, <1>11
  <2>2. /\ Off(lists, t) /\ \A d \in CPU : curthread[d] # t
        /\ \A p \in Thread : child[p] # t
    BY <1>2, <2>1 DEF Core
  <2> QED
    BY <1>7, <2>1, <2>2
<1>12. Core(lists, t_state, c_isidle)'
  BY <1>1, <1>2, <1>8, <1>9, <1>10, <1>11 DEF Core, Off
<1>13. \A d \in CPU : Local(d)'
  BY <1>1, <1>2 DEF Local, Place, Counts, Called
<1> QED
  BY <1>4, <1>12, <1>13 DEF IInv


-----------------------------------------------------------------------------
(* Steps through thread_switch *)

\* thread_switch puts the current thread of c on a list of c or of no cpu.
LEMMA PutAway ==
  ASSUME IInv, NEW c \in CPU, ~c_isidle[c], NEW l \in List, NEW s \in State, s # "none",
         \A d \in CPU : l \in Owned(d) => d = c
  PROVE  /\ AddTail(lists, l, curthread[c]) \in [List -> Seq(Thread)]
         /\ SetState(curthread[c], s) \in [Thread -> State]
         /\ Core(AddTail(lists, l, curthread[c]), SetState(curthread[c], s),
                 [c_isidle EXCEPT ![c] = TRUE])
         /\ \A m \in List : m # l => AddTail(lists, l, curthread[c])[m] = lists[m]
<1> DEFINE me == curthread[c]
           L == AddTail(lists, l, me)
           st == SetState(me, s)
           idle == [c_isidle EXCEPT ![c] = TRUE]
<1>1. TypeOK /\ Core(lists, t_state, c_isidle)
  BY DEF IInv
<1>2. /\ lists \in [List -> Seq(Thread)] /\ me \in Thread
      /\ \A d \in CPU : curthread[d] \in Thread
      /\ child \in [Thread -> Thread \cup {NONE}]
  BY <1>1 DEF TypeOK
<1>3. /\ Linked(lists) /\ Off(lists, me) /\ t_cpu[me] = c
      /\ \A d \in CPU : t_cpu[curthread[d]] = d
      /\ \A d \in CPU, t \in Thread, k \in List : k \in Owned(d) /\ On(lists, k, t) => t_cpu[t] = d
      /\ \A d \in CPU : ~c_isidle[d] => Off(lists, curthread[d])
      /\ \A p \in Thread : child[p] # NONE =>
            /\ Off(lists, child[p])
            /\ t_state[child[p]] # "none"
            /\ \A d \in CPU : curthread[d] # child[p]
            /\ \A q \in Thread : child[q] = child[p] => q = p
      /\ \A t \in Thread : t_state[t] = "none" =>
            /\ Off(lists, t)
            /\ \A d \in CPU : curthread[d] # t
            /\ \A p \in Thread : child[p] # t
  BY <1>1 DEF Core
<1>4. /\ L \in [List -> Seq(Thread)]
      /\ \A m \in List : m # l => L[m] = lists[m]
      /\ \A m \in List, u \in Thread : On(L, m, u) <=> On(lists, m, u) \/ (m = l /\ u = me)
      /\ Linked(L)
  BY <1>2, <1>3, AddTailFacts DEF Off
<1>5. /\ st \in [Thread -> State]
      /\ st[me] = s
      /\ \A t \in Thread : t # me => st[t] = t_state[t]
  BY <1>1, <1>2 DEF TypeOK, SetState, State
<1>6. \A d \in CPU : ~idle[d] => d # c /\ ~c_isidle[d]
  BY <1>1 DEF TypeOK
<1> HIDE DEF L, st, idle, me
<1>7. \A t \in Thread : t # me /\ Off(lists, t) => Off(L, t)
  BY <1>4 DEF Off
<1>8. \A d \in CPU, t \in Thread, k \in List : k \in Owned(d) /\ On(L, k, t) => t_cpu[t] = d
  BY <1>3, <1>4
<1>9. \A d \in CPU : d # c => curthread[d] # me
  BY <1>3
<1>10. \A d \in CPU : ~idle[d] => Off(L, curthread[d])
  BY <1>2, <1>3, <1>6, <1>7, <1>9
<1>11. ASSUME NEW p \in Thread, child[p] # NONE
       PROVE  /\ Off(L, child[p]) /\ st[child[p]] # "none"
  <2>1. child[p] \in Thread /\ child[p] # me /\ Off(lists, child[p])
    BY <1>2, <1>3, <1>11 DEF me
  <2> QED
    BY <1>3, <1>5, <1>7, <1>11, <2>1
<1>12. ASSUME NEW t \in Thread, st[t] = "none"
       PROVE  /\ Off(L, t)
              /\ \A d \in CPU : curthread[d] # t
              /\ \A p \in Thread : child[p] # t
  <2>1. t # me /\ t_state[t] = "none"
    BY <1>5, <1>12
  <2> QED
    BY <1>3, <1>7, <2>1
<1>13. Core(L, st, idle)
  BY <1>3, <1>4, <1>8, <1>10, <1>11, <1>12 DEF Core
<1> QED
  BY <1>4, <1>5, <1>13 DEF L, st, idle, me

\* The whole of thread_switch, from there.
LEMMA Dispatched ==
  ASSUME IInv, NEW c \in CPU, NEW L \in [List -> Seq(Thread)], NEW st \in [Thread -> State],
         Core(L, st, [c_isidle EXCEPT ![c] = TRUE]), Dispatch(c, L, st),
         UNCHANGED <<child, ipi, mig>>, mig[c] = MigStart,
         \A d \in CPU : d # c => /\ arg'[d] = arg[d]
                                 /\ L[Run(d)] = lists[Run(d)]
                                 /\ L[Wake(d)] = lists[Wake(d)]
                                 /\ L[Victims(d)] = lists[Victims(d)],
         arg' \in [CPU -> Wchan \cup {NONE}],
         inP' \in [Thread -> Sem \cup {NONE}],
         sem_count' \in [Sem -> Nat],
         sem_lock' \in [Sem -> CPU \cup {NONE}],
         wc_lock' \in [Wchan -> CPU \cup {NONE}],
         rqlock' = rqlock
  PROVE  IInv'
<1>1. TypeOK /\ \A d \in CPU : Local(d)
  BY DEF IInv
<1>2. /\ lists' \in [List -> Seq(Thread)]
      /\ t_state' \in [Thread -> State]
      /\ curthread' \in [CPU -> Thread]
      /\ c_isidle' \in [CPU -> BOOLEAN]
      /\ t_cpu' \in [Thread -> CPU]
      /\ Core(lists, t_state, c_isidle)'
      /\ pc' = [pc EXCEPT ![c] = IF c_isidle'[c] THEN "idle" ELSE "thread"]
      /\ \A d \in CPU : d # c => c_isidle'[d] = c_isidle[d]
      /\ \A l \in List : l # Run(c) /\ l # Zombies(c) => lists'[l] = L[l]
      /\ c_isidle'[c] => lists'[Run(c)] = <<>>
  BY <1>1, DispatchCore
<1>3. /\ pc' \in [CPU -> PC]
      /\ pc'[c] = IF c_isidle'[c] THEN "idle" ELSE "thread"
      /\ \A d \in CPU : d # c => pc'[d] = pc[d]
  BY <1>1, <1>2 DEF TypeOK, PC
<1>4. TypeOK'
  <2>1. /\ child' \in [Thread -> Thread \cup {NONE}]
        /\ ipi' \in [CPU -> BOOLEAN]
        /\ mig' \in [CPU -> MigLocals]
        /\ rqlock' \in [CPU -> CPU \cup {NONE}]
    BY <1>1 DEF TypeOK
  <2> QED
    BY <1>2, <1>3, <2>1 DEF TypeOK, State
<1>5. Local(c)'
  BY <1>2, <1>3 DEF Local, Place, Counts, Called
<1>6. ASSUME NEW d \in CPU, d # c PROVE Local(d)'
  <2>1. /\ Run(d) \in List /\ Wake(d) \in List /\ Victims(d) \in List
        /\ Run(d) # Run(c) /\ Run(d) # Zombies(c)
        /\ Wake(d) # Run(c) /\ Wake(d) # Zombies(c)
        /\ Victims(d) # Run(c) /\ Victims(d) # Zombies(c)
    BY <1>6, ListIds
  <2>2. /\ lists'[Run(d)] = lists[Run(d)] /\ lists'[Wake(d)] = lists[Wake(d)]
        /\ lists'[Victims(d)] = lists[Victims(d)]
    BY <1>2, <1>6, <2>1
  <2>3. pc'[d] = pc[d] /\ arg'[d] = arg[d] /\ c_isidle'[d] = c_isidle[d]
        /\ mig'[d] = mig[d] /\ ipi'[d] = ipi[d]
    BY <1>2, <1>3, <1>6
  <2> QED
    BY <1>1, <1>2, <2>2, <2>3, LocalFrame
<1> QED
  BY <1>2, <1>4, <1>5, <1>6 DEF IInv

LEMMA RecheckStep ==
  ASSUME IInv, NEW c \in CPU, Recheck(c)
  PROVE  IInv'
<1>1. /\ pc[c] = "recheck" /\ Dispatch(c, lists, t_state)
      /\ UNCHANGED <<arg, ipi, rqlock, mig, inP, child, sem_count, sem_lock, wc_lock>>
  BY DEF Recheck, migVars, procVars, semVars
<1>2. TypeOK /\ Core(lists, t_state, c_isidle) /\ Local(c)
  BY DEF IInv
<1>3. c_isidle[c] /\ mig[c] = MigStart
  BY <1>1, <1>2 DEF Local, Place, Counts
<1>4. [c_isidle EXCEPT ![c] = TRUE] = c_isidle
  BY <1>2, <1>3 DEF TypeOK
<1>5. /\ lists \in [List -> Seq(Thread)] /\ t_state \in [Thread -> State]
      /\ arg' \in [CPU -> Wchan \cup {NONE}]
      /\ inP' \in [Thread -> Sem \cup {NONE}]
      /\ sem_count' \in [Sem -> Nat]
      /\ sem_lock' \in [Sem -> CPU \cup {NONE}]
      /\ wc_lock' \in [Wchan -> CPU \cup {NONE}]
  BY <1>1, <1>2 DEF TypeOK, State
<1> QED
  BY <1>1, <1>2, <1>3, <1>4, <1>5, Dispatched

LEMMA YieldSwitchesStep ==
  ASSUME IInv, NEW c \in CPU, YieldSwitches(c)
  PROVE  IInv'
<1> DEFINE L == AddTail(lists, Run(c), curthread[c])
           st == SetState(curthread[c], "ready")
<1>1. /\ pc[c] = "yield" /\ ~c_isidle[c] /\ Dispatch(c, L, st)
      /\ UNCHANGED <<arg, ipi, rqlock, mig, inP, child, sem_count, sem_lock, wc_lock>>
  BY DEF YieldSwitches, migVars, procVars, semVars
<1>2. TypeOK /\ mig[c] = MigStart
  BY <1>1 DEF IInv, Local, Counts
<1>3. Run(c) \in List /\ \A d \in CPU : Run(c) \in Owned(d) => d = c
  BY ListIds DEF Owned
<1>4. /\ L \in [List -> Seq(Thread)] /\ st \in [Thread -> State]
      /\ Core(L, st, [c_isidle EXCEPT ![c] = TRUE])
      /\ \A m \in List : m # Run(c) => L[m] = lists[m]
  BY <1>1, <1>3, PutAway DEF State
<1> HIDE DEF L, st
<1>5. \A d \in CPU : d # c => /\ L[Run(d)] = lists[Run(d)]
                              /\ L[Wake(d)] = lists[Wake(d)]
                              /\ L[Victims(d)] = lists[Victims(d)]
  BY <1>4, ListIds
<1>6. /\ arg' \in [CPU -> Wchan \cup {NONE}]
      /\ inP' \in [Thread -> Sem \cup {NONE}]
      /\ sem_count' \in [Sem -> Nat]
      /\ sem_lock' \in [Sem -> CPU \cup {NONE}]
      /\ wc_lock' \in [Wchan -> CPU \cup {NONE}]
  BY <1>1, <1>2 DEF TypeOK
<1> QED
  BY <1>1, <1>2, <1>4, <1>5, <1>6, Dispatched

LEMMA ThreadExitStep ==
  ASSUME IInv, NEW c \in CPU, thread_exit(c)
  PROVE  IInv'
<1> DEFINE L == AddTail(lists, Zombies(c), curthread[c])
           st == SetState(curthread[c], "zombie")
<1>1. /\ pc[c] = "thread" /\ Dispatch(c, L, st)
      /\ UNCHANGED <<arg, ipi, rqlock, mig, inP, child, sem_count, sem_lock, wc_lock>>
  BY DEF thread_exit, InThread, migVars, procVars, semVars
<1>2. TypeOK /\ mig[c] = MigStart /\ ~c_isidle[c]
  BY <1>1 DEF IInv, Local, Counts, Place
<1>3. Zombies(c) \in List /\ \A d \in CPU : Zombies(c) \in Owned(d) => d = c
  BY ListIds DEF Owned
<1>4. /\ L \in [List -> Seq(Thread)] /\ st \in [Thread -> State]
      /\ Core(L, st, [c_isidle EXCEPT ![c] = TRUE])
      /\ \A m \in List : m # Zombies(c) => L[m] = lists[m]
  BY <1>2, <1>3, PutAway DEF State
<1> HIDE DEF L, st
<1>5. \A d \in CPU : d # c => /\ L[Run(d)] = lists[Run(d)]
                              /\ L[Wake(d)] = lists[Wake(d)]
                              /\ L[Victims(d)] = lists[Victims(d)]
  BY <1>4, ListIds
<1>6. /\ arg' \in [CPU -> Wchan \cup {NONE}]
      /\ inP' \in [Thread -> Sem \cup {NONE}]
      /\ sem_count' \in [Sem -> Nat]
      /\ sem_lock' \in [Sem -> CPU \cup {NONE}]
      /\ wc_lock' \in [Wchan -> CPU \cup {NONE}]
  BY <1>1, <1>2 DEF TypeOK
<1> QED
  BY <1>1, <1>2, <1>4, <1>5, <1>6, Dispatched

LEMMA WchanSleepStep ==
  ASSUME IInv, NEW c \in CPU, wchan_sleep(c)
  PROVE  IInv'
<1> DEFINE w == arg[c]
           L == AddTail(lists, Waiting(w), curthread[c])
           st == SetState(curthread[c], "sleep")
<1>1. /\ pc[c] = "sleep" /\ Dispatch(c, L, st)
      /\ wc_lock' = [wc_lock EXCEPT ![w] = NONE]
      /\ arg' = [arg EXCEPT ![c] = NONE]
      /\ UNCHANGED <<ipi, rqlock, mig, inP, child, sem_count, sem_lock>>
  BY DEF wchan_sleep, migVars, procVars
<1>2. TypeOK /\ mig[c] = MigStart /\ ~c_isidle[c] /\ w \in Wchan
  BY <1>1 DEF IInv, Local, Counts, Place
<1>3. Waiting(w) \in List /\ \A d \in CPU : Waiting(w) \notin Owned(d)
  BY <1>2, ListIds DEF Owned
<1> HIDE DEF w
<1>4. /\ L \in [List -> Seq(Thread)] /\ st \in [Thread -> State]
      /\ Core(L, st, [c_isidle EXCEPT ![c] = TRUE])
      /\ \A m \in List : m # Waiting(w) => L[m] = lists[m]
  BY <1>2, <1>3, PutAway DEF State
<1> HIDE DEF L, st
<1>5. \A d \in CPU : d # c => /\ L[Run(d)] = lists[Run(d)]
                              /\ L[Wake(d)] = lists[Wake(d)]
                              /\ L[Victims(d)] = lists[Victims(d)]
  BY <1>2, <1>4, ListIds
<1>6. /\ arg' \in [CPU -> Wchan \cup {NONE}]
      /\ \A d \in CPU : d # c => arg'[d] = arg[d]
      /\ inP' \in [Thread -> Sem \cup {NONE}]
      /\ sem_count' \in [Sem -> Nat]
      /\ sem_lock' \in [Sem -> CPU \cup {NONE}]
      /\ wc_lock' \in [Wchan -> CPU \cup {NONE}]
  BY <1>1, <1>2 DEF TypeOK
<1>7. \A d \in CPU : d # c => /\ arg'[d] = arg[d]
                              /\ L[Run(d)] = lists[Run(d)]
                              /\ L[Wake(d)] = lists[Wake(d)]
                              /\ L[Victims(d)] = lists[Victims(d)]
  BY <1>5, <1>6
<1> QED
  BY <1>1, <1>2, <1>4, <1>6, <1>7, Dispatched


-----------------------------------------------------------------------------
(* Steps that move threads between lists *)

\* Threads change lists and cpus, but none is linked anew.
LEMMA CoreMove ==
  ASSUME Core(lists, t_state, c_isidle),
         UNCHANGED <<t_state, c_isidle, curthread, child>>,
         TypeOK,
         Linked(lists'),
         \A t \in Thread : Off(lists, t) => Off(lists', t),
         \A d \in CPU : t_cpu'[curthread[d]] = d,
         \A d \in CPU, t \in Thread, l \in List : l \in Owned(d) /\ On(lists', l, t) => t_cpu'[t] = d
  PROVE  Core(lists, t_state, c_isidle)'
<1>1. /\ \A d \in CPU : curthread[d] \in Thread
      /\ child \in [Thread -> Thread \cup {NONE}]
  BY DEF TypeOK
<1>2. \A d \in CPU : ~c_isidle[d] => Off(lists', curthread[d])
  BY <1>1 DEF Core
<1>3. ASSUME NEW p \in Thread, child[p] # NONE
      PROVE  /\ Off(lists', child[p])
             /\ t_state[child[p]] # "none"
             /\ \A d \in CPU : curthread[d] # child[p]
             /\ \A q \in Thread : child[q] = child[p] => q = p
  <2>1. child[p] \in Thread /\ Off(lists, child[p])
    BY <1>1, <1>3 DEF Core
  <2> QED
    BY <1>3, <2>1 DEF Core
<1>4. ASSUME NEW t \in Thread, t_state[t] = "none"
      PROVE  /\ Off(lists', t)
             /\ \A d \in CPU : curthread[d] # t
             /\ \A p \in Thread : child[p] # t
  BY <1>4 DEF Core
<1> QED
  BY <1>2, <1>3, <1>4 DEF Core, Off

LEMMA UnidleFacts ==
  ASSUME TypeOK, NEW d \in CPU, Unidle(d)
  PROVE  /\ ipi' \in [CPU -> BOOLEAN]
         /\ c_isidle[d] => ipi'[d]
         /\ \A e \in CPU : ipi[e] => ipi'[e]
  BY DEF TypeOK, Unidle

\* Facts about the current state used below.
LEMMA CoreFacts ==
  ASSUME IInv
  PROVE  /\ TypeOK /\ lists \in [List -> Seq(Thread)] /\ Linked(lists)
         /\ \A d \in CPU : t_cpu[curthread[d]] = d /\ Local(d)
         /\ \A d \in CPU, t \in Thread, l \in List :
               l \in Owned(d) /\ On(lists, l, t) => t_cpu[t] = d
  BY DEF IInv, Core, TypeOK

LEMMA ForkMakeRunnableStep ==
  ASSUME IInv, NEW c \in CPU, ForkMakeRunnable(c)
  PROVE  IInv'
<1> DEFINE me == curthread[c]
           new == child[me]
           d == t_cpu[new]
<1>1. /\ new # NONE
      /\ lists' = AddTail(lists, Run(d), new)
      /\ Unidle(d)
      /\ child' = [child EXCEPT ![me] = NONE]
      /\ UNCHANGED <<pc, arg, curthread, c_isidle, rqlock, mig, t_state, t_cpu, inP,
                     sem_count, sem_lock, wc_lock>>
  BY DEF ForkMakeRunnable, Enqueue, migVars, semVars
<1>2. TypeOK /\ Core(lists, t_state, c_isidle) /\ \A e \in CPU : Local(e)
  BY DEF IInv
<1>3. /\ me \in Thread /\ new \in Thread /\ d \in CPU /\ Run(d) \in List
      /\ \A e \in CPU : curthread[e] \in Thread
      /\ child \in [Thread -> Thread \cup {NONE}]
      /\ lists \in [List -> Seq(Thread)] /\ NONE \notin Thread
  BY <1>1, <1>2, ListIds, ThreadAssumption DEF TypeOK
<1>4. /\ Linked(lists) /\ Off(lists, new) /\ t_state[new] # "none"
      /\ \A e \in CPU : curthread[e] # new
      /\ \A q \in Thread : child[q] = new => q = me
  BY <1>1, <1>2, <1>3 DEF Core
<1>5. /\ lists' \in [List -> Seq(Thread)]
      /\ Len(lists'[Run(d)]) = Len(lists[Run(d)]) + 1
      /\ \A m \in List : m # Run(d) => lists'[m] = lists[m]
      /\ \A m \in List, u \in Thread :
            On(lists', m, u) <=> On(lists, m, u) \/ (m = Run(d) /\ u = new)
      /\ Linked(lists')
  BY <1>1, <1>3, <1>4, AddTailFacts DEF Off
<1>6. /\ ipi' \in [CPU -> BOOLEAN] /\ (c_isidle[d] => ipi'[d])
      /\ \A e \in CPU : ipi[e] => ipi'[e]
  BY <1>1, <1>2, <1>3, UnidleFacts
<1>7. TypeOK'
  BY <1>1, <1>2, <1>3, <1>5, <1>6 DEF TypeOK
<1>8. /\ child'[me] = NONE
      /\ \A p \in Thread : p # me => child'[p] = child[p]
  BY <1>1, <1>3
<1>9. \A t \in Thread : t # new /\ Off(lists, t) => Off(lists', t)
  BY <1>5 DEF Off
<1>10. \A e \in CPU, t \in Thread, l \in List : l \in Owned(e) /\ On(lists', l, t) => t_cpu[t] = e
  <2> SUFFICES ASSUME NEW e \in CPU, NEW t \in Thread, NEW l \in List,
                      l \in Owned(e), On(lists', l, t)
               PROVE  t_cpu[t] = e
    OBVIOUS
  <2>1. CASE On(lists, l, t)
    BY <1>2, <2>1 DEF Core
  <2>2. CASE l = Run(d) /\ t = new
    BY <1>3, <2>2, ListIds DEF Owned
  <2> QED
    BY <1>5, <2>1, <2>2
<1> HIDE DEF me, new, d
<1>11. \A e \in CPU : ~c_isidle[e] => Off(lists', curthread[e])
  BY <1>2, <1>3, <1>4, <1>9 DEF Core
<1>12. ASSUME NEW p \in Thread, child'[p] # NONE
       PROVE  /\ Off(lists', child'[p])
              /\ t_state[child'[p]] # "none"
              /\ \A e \in CPU : curthread[e] # child'[p]
              /\ \A q \in Thread : child'[q] = child'[p] => q = p
  <2>1. p # me /\ child'[p] = child[p] /\ child[p] \in Thread /\ child[p] # new
    BY <1>3, <1>4, <1>8, <1>12
  <2>2. /\ Off(lists, child[p])
        /\ t_state[child[p]] # "none"
        /\ \A e \in CPU : curthread[e] # child[p]
        /\ \A q \in Thread : child[q] = child[p] => q = p
    BY <1>2, <1>12, <2>1 DEF Core
  <2> QED
    BY <1>8, <1>9, <1>12, <2>1, <2>2
<1>13. ASSUME NEW t \in Thread, t_state[t] = "none"
       PROVE  /\ Off(lists', t)
              /\ \A e \in CPU : curthread[e] # t
              /\ \A p \in Thread : child'[p] # t
  <2>1. /\ t # new /\ Off(lists, t) /\ \A e \in CPU : curthread[e] # t
        /\ \A p \in Thread : child[p] # t
    BY <1>2, <1>4, <1>13 DEF Core
  <2> QED
    BY <1>3, <1>8, <1>9, <2>1
<1>14. Core(lists, t_state, c_isidle)'
  BY <1>1, <1>2, <1>5, <1>10, <1>11, <1>12, <1>13 DEF Core, Off
<1>15. ASSUME NEW e \in CPU PROVE Local(e)'
  <2>1. lists'[Wake(e)] = lists[Wake(e)] /\ lists'[Victims(e)] = lists[Victims(e)]
    BY <1>3, <1>5, ListIds
  <2>2. \/ lists'[Run(e)] = lists[Run(e)] /\ (ipi[e] => ipi'[e])
        \/ Len(lists'[Run(e)]) >= Len(lists[Run(e)]) /\ (c_isidle[e] => ipi'[e])
    <3>1. CASE e = d
      <4>1. Len(lists[Run(d)]) \in Nat
        BY <1>2, <1>3, MigFacts
      <4> QED
        BY <1>5, <1>6, <3>1, <4>1
    <3>2. CASE e # d
      BY <1>3, <1>5, <1>6, <3>2, ListIds
    <3> QED
      BY <3>1, <3>2
  <2> QED
    BY <1>1, <1>2, <1>5, <2>1, <2>2, LocalFrame
<1> QED
  BY <1>7, <1>14, <1>15 DEF IInv

LEMMA WchanWakeoneStep ==
  ASSUME IInv, NEW c \in CPU, wchan_wakeone(c)
  PROVE  IInv'
<1> DEFINE w == arg[c]
<1>1. /\ pc[c] = "V_wakeone"
      /\ UNCHANGED <<curthread, c_isidle, ipi, rqlock, mig, t_state, t_cpu, inP, child,
                     sem_count, wc_lock>>
      /\ \/ /\ sem_lock' = [sem_lock EXCEPT ![w] = NONE]
            /\ arg' = [arg EXCEPT ![c] = NONE]
            /\ pc' = [pc EXCEPT ![c] = Resume(c)]
            /\ lists' = lists
         \/ /\ lists[Waiting(w)] # <<>>
            /\ lists' = MoveHead(lists, Waiting(w), Wake(c))
            /\ pc' = [pc EXCEPT ![c] = "make_runnable"]
            /\ UNCHANGED <<sem_lock, arg>>
  BY DEF wchan_wakeone, Goto, migVars, procVars
<1>2. TypeOK /\ Local(c) /\ mig[c] = MigStart /\ w \in Wchan
  BY <1>1 DEF IInv, Local, Place, Counts, Wchan
<1>3. CASE /\ sem_lock' = [sem_lock EXCEPT ![w] = NONE]
           /\ arg' = [arg EXCEPT ![c] = NONE]
           /\ pc' = [pc EXCEPT ![c] = Resume(c)]
           /\ lists' = lists
  <2>1. TypeOK'
    BY <1>1, <1>2, <1>3, ResumeLabel DEF TypeOK, PC
  <2>2. Local(c)'
    BY <1>1, <1>2, <1>3, ResumeLocal
  <2> QED
    BY <1>1, <1>2, <1>3, <2>1, <2>2, QuietStep DEF TypeOK
<1>4. CASE /\ lists[Waiting(w)] # <<>>
           /\ lists' = MoveHead(lists, Waiting(w), Wake(c))
           /\ pc' = [pc EXCEPT ![c] = "make_runnable"]
           /\ UNCHANGED <<sem_lock, arg>>
  <2> DEFINE a == Waiting(w)
             b == Wake(c)
             h == Head(lists[a])
  <2>1. a \in List /\ b \in List /\ a # b /\ \A d \in CPU : a \notin Owned(d) /\ b \notin Owned(d)
    BY <1>2, ListIds DEF Owned
  <2>2. /\ lists' \in [List -> Seq(Thread)] /\ Linked(lists')
        /\ h \in Thread /\ On(lists, a, h)
        /\ \A m \in List, u \in Thread :
              On(lists', m, u) <=> (On(lists, m, u) /\ u # h) \/ (m = b /\ u = h)
        /\ \A m \in List : m \notin {a, b} => lists'[m] = lists[m]
        /\ Len(lists'[b]) = Len(lists[b]) + 1
    BY <1>4, <2>1, CoreFacts, MoveHeadFacts
  <2>3. TypeOK'
    BY <1>1, <1>2, <1>4, <2>2 DEF TypeOK, PC
  <2> HIDE DEF h
  <2>4. \A t \in Thread : Off(lists, t) => Off(lists', t)
    BY <2>1, <2>2 DEF Off
  <2>5. \A d \in CPU, t \in Thread, l \in List : l \in Owned(d) /\ On(lists', l, t) => t_cpu[t] = d
    BY <2>1, <2>2, CoreFacts
  <2>6. Core(lists, t_state, c_isidle)'
    BY <1>1, <2>2, <2>4, <2>5, CoreFacts, CoreMove DEF IInv
  <2>7. \A d \in CPU : /\ lists'[Run(d)] = lists[Run(d)] /\ lists'[Victims(d)] = lists[Victims(d)]
                       /\ d # c => lists'[Wake(d)] = lists[Wake(d)]
    BY <1>2, <2>2, ListIds
  <2>8. Local(c)'
    <3>1. lists'[b] # <<>>
      <4>1. lists[b] \in Seq(Thread)
        BY <2>1, CoreFacts
      <4>2. Len(lists[b]) \in Nat
        BY <4>1
      <4>3. Len(lists'[b]) # 0
        BY <2>2, <4>2
      <4> QED
        BY <4>3
    <3>2. pc'[c] = "make_runnable"
      BY <1>2, <1>4 DEF TypeOK
    <3> QED
      BY <1>1, <1>2, <1>4, <3>1, <3>2 DEF Local, Place, Counts, Called
  <2>9. ASSUME NEW d \in CPU, d # c PROVE Local(d)'
    <3>1. pc'[d] = pc[d] /\ arg'[d] = arg[d]
      BY <1>2, <1>4, <2>9 DEF TypeOK
    <3> QED
      BY <1>1, <2>2, <2>7, <2>9, <3>1, CoreFacts, LocalFrame
  <2> QED
    BY <2>3, <2>6, <2>8, <2>9 DEF IInv
<1> QED
  BY <1>1, <1>3, <1>4


LEMMA MakeRunnableStep ==
  ASSUME IInv, NEW c \in CPU, MakeRunnable(c)
  PROVE  IInv'
<1> DEFINE a == Wake(c)
           h == Head(lists[a])
           d == t_cpu[h]
           b == Run(d)
           last == Len(lists[a]) = 1
<1>1. /\ pc[c] = "make_runnable"
      /\ lists' = MoveHead(lists, a, b)
      /\ Unidle(d)
      /\ pc' = IF last THEN [pc EXCEPT ![c] = Resume(c)] ELSE pc
      /\ arg' = IF last THEN [arg EXCEPT ![c] = NONE] ELSE arg
      /\ sem_lock' = IF last /\ arg[c] \in Sem
                     THEN [sem_lock EXCEPT ![arg[c]] = NONE] ELSE sem_lock
      /\ UNCHANGED <<curthread, c_isidle, rqlock, mig, t_state, t_cpu, inP, child,
                     sem_count, wc_lock>>
  BY DEF MakeRunnable, Enqueue, MoveHead, migVars, procVars
<1>2. TypeOK /\ Local(c) /\ mig[c] = MigStart /\ lists[a] # <<>> /\ arg[c] \in Wchan
  BY <1>1 DEF IInv, Local, Place, Counts
<1>3. a \in List /\ h \in Thread /\ On(lists, a, h)
  BY <1>2, ListIds, HeadOn DEF TypeOK
<1>4. d \in CPU /\ b \in List /\ a # b /\ \A e \in CPU : a \notin Owned(e)
  BY <1>2, <1>3, ListIds DEF TypeOK, Owned
<1>5. /\ lists' \in [List -> Seq(Thread)] /\ Linked(lists')
      /\ \A m \in List, u \in Thread :
            On(lists', m, u) <=> (On(lists, m, u) /\ u # h) \/ (m = b /\ u = h)
      /\ \A m \in List : m \notin {a, b} => lists'[m] = lists[m]
      /\ Len(lists'[a]) = Len(lists[a]) - 1
      /\ Len(lists'[b]) = Len(lists[b]) + 1
  BY <1>1, <1>2, <1>3, <1>4, CoreFacts, MoveHeadFacts
<1>6. /\ ipi' \in [CPU -> BOOLEAN] /\ (c_isidle[d] => ipi'[d])
      /\ \A e \in CPU : ipi[e] => ipi'[e]
  BY <1>1, <1>2, <1>4, UnidleFacts
<1>7. Len(lists[b]) \in Nat /\ Len(lists[a]) \in Nat
  <2>1. lists[a] \in Seq(Thread) /\ lists[b] \in Seq(Thread)
    BY <1>3, <1>4, CoreFacts
  <2> QED
    BY <2>1
<1>8. Len(lists'[b]) >= Len(lists[b])
  BY <1>5, <1>7
<1> HIDE DEF h, last
<1>9. /\ pc' \in [CPU -> PC] /\ arg' \in [CPU -> Wchan \cup {NONE}]
      /\ sem_lock' \in [Sem -> CPU \cup {NONE}]
      /\ \A e \in CPU : e # c => pc'[e] = pc[e] /\ arg'[e] = arg[e]
      /\ last => pc'[c] = Resume(c)
      /\ ~last => pc'[c] = "make_runnable" /\ arg'[c] = arg[c]
  BY <1>1, <1>2, ResumeLabel DEF TypeOK, PC
<1>10. TypeOK'
  BY <1>1, <1>2, <1>5, <1>6, <1>9 DEF TypeOK
<1>11. \A t \in Thread : Off(lists, t) => Off(lists', t)
  BY <1>3, <1>5 DEF Off
<1>12. \A e \in CPU, t \in Thread, l \in List : l \in Owned(e) /\ On(lists', l, t) => t_cpu[t] = e
  <2> SUFFICES ASSUME NEW e \in CPU, NEW t \in Thread, NEW l \in List,
                      l \in Owned(e), On(lists', l, t)
               PROVE  t_cpu[t] = e
    OBVIOUS
  <2>1. CASE On(lists, l, t)
    BY <2>1, CoreFacts
  <2>2. CASE l = b /\ t = h
    BY <1>4, <2>2, ListIds DEF Owned
  <2> QED
    BY <1>5, <2>1, <2>2
<1>13. Core(lists, t_state, c_isidle)'
  BY <1>1, <1>5, <1>11, <1>12, CoreFacts, CoreMove DEF IInv
<1>14. \A e \in CPU : /\ lists'[Victims(e)] = lists[Victims(e)]
                      /\ e # c => lists'[Wake(e)] = lists[Wake(e)]
                      /\ e # d => lists'[Run(e)] = lists[Run(e)]
  BY <1>4, <1>5, ListIds
<1>15. Local(c)'
  <2>1. CASE last
    BY <1>1, <1>2, <1>9, <2>1, ResumeLabel DEF Local, Place, Counts, Called
  <2>2. CASE ~last
    <3>1. lists'[a] # <<>>
      <4>1. Len(lists[a]) # 1 /\ Len(lists[a]) # 0
        BY <1>2, <2>2, CoreFacts, <1>3 DEF last
      <4>2. Len(lists'[a]) # 0
        BY <1>5, <1>7, <4>1
      <4> QED
        BY <4>2
    <3> QED
      BY <1>1, <1>2, <1>9, <2>2, <3>1 DEF Local, Place, Counts, Called
  <2> QED
    BY <2>1, <2>2
<1>16. ASSUME NEW e \in CPU, e # c PROVE Local(e)'
  <2>1. \/ lists'[Run(e)] = lists[Run(e)] /\ (ipi[e] => ipi'[e])
        \/ Len(lists'[Run(e)]) >= Len(lists[Run(e)]) /\ (c_isidle[e] => ipi'[e])
    BY <1>6, <1>8, <1>14
  <2> QED
    BY <1>1, <1>5, <1>9, <1>14, <1>16, <2>1, CoreFacts, LocalFrame
<1> QED
  BY <1>10, <1>13, <1>15, <1>16 DEF IInv

LEMMA TimerclockStep ==
  ASSUME IInv, NEW c \in CPU, timerclock(c)
  PROVE  IInv'
<1> DEFINE a == Waiting(lbolt)
           b == Wake(c)
<1>1. /\ pc[c] \in {"thread", "idle"}
      /\ lists' = MoveAll(lists, a, b)
      /\ \/ pc' = [pc EXCEPT ![c] = Resume(c)] /\ arg' = arg
         \/ /\ lists[a] # <<>>
            /\ pc' = [pc EXCEPT ![c] = "make_runnable"]
            /\ arg' = [arg EXCEPT ![c] = lbolt]
      /\ UNCHANGED <<curthread, c_isidle, ipi, rqlock, mig, t_state, t_cpu, inP, child,
                     sem_count, sem_lock, wc_lock>>
  BY DEF timerclock, InterruptsOn, Goto, migVars, procVars, semVars
<1>2. TypeOK /\ Local(c) /\ mig[c] = MigStart /\ lbolt \in Wchan
  BY <1>1 DEF IInv, Local, Counts, Wchan
<1>3. a \in List /\ b \in List /\ a # b /\ \A e \in CPU : a \notin Owned(e) /\ b \notin Owned(e)
  BY <1>2, ListIds DEF Owned
<1>4. /\ lists' \in [List -> Seq(Thread)] /\ Linked(lists')
      /\ \A m \in List, u \in Thread :
            On(lists', m, u) <=> (On(lists, m, u) /\ m # a) \/ (m = b /\ On(lists, a, u))
      /\ \A m \in List : m \notin {a, b} => lists'[m] = lists[m]
      /\ lists[a] # <<>> => lists'[b] # <<>>
  <2>1. lists \in [List -> Seq(Thread)] /\ Linked(lists)
    BY CoreFacts
  <2> QED
    BY <1>1, <1>3, <2>1, MoveAllFacts
<1>5. /\ pc' \in [CPU -> PC] /\ arg' \in [CPU -> Wchan \cup {NONE}]
      /\ \A e \in CPU : e # c => pc'[e] = pc[e] /\ arg'[e] = arg[e]
  <2>1. CASE pc' = [pc EXCEPT ![c] = Resume(c)] /\ arg' = arg
    BY <1>2, <2>1, ResumeLabel DEF TypeOK, PC
  <2>2. CASE /\ pc' = [pc EXCEPT ![c] = "make_runnable"]
             /\ arg' = [arg EXCEPT ![c] = lbolt]
    BY <1>2, <2>2 DEF TypeOK, PC
  <2> QED
    BY <1>1, <2>1, <2>2
<1>6. TypeOK'
  BY <1>1, <1>2, <1>4, <1>5 DEF TypeOK
<1>7. \A t \in Thread : Off(lists, t) => Off(lists', t)
  BY <1>3, <1>4 DEF Off
<1>8. \A e \in CPU, t \in Thread, l \in List : l \in Owned(e) /\ On(lists', l, t) => t_cpu[t] = e
  BY <1>3, <1>4, CoreFacts
<1>9. Core(lists, t_state, c_isidle)'
  BY <1>1, <1>4, <1>7, <1>8, CoreFacts, CoreMove DEF IInv
<1>10. \A e \in CPU : /\ lists'[Run(e)] = lists[Run(e)] /\ lists'[Victims(e)] = lists[Victims(e)]
                      /\ e # c => lists'[Wake(e)] = lists[Wake(e)]
  BY <1>2, <1>4, ListIds
<1>11. Local(c)'
  <2>1. CASE pc' = [pc EXCEPT ![c] = Resume(c)] /\ arg' = arg
    BY <1>1, <1>2, <2>1, ResumeLocal
  <2>2. CASE /\ lists[a] # <<>>
             /\ pc' = [pc EXCEPT ![c] = "make_runnable"]
             /\ arg' = [arg EXCEPT ![c] = lbolt]
    <3>1. lists'[b] # <<>>
      BY <1>4, <2>2
    <3>2. pc'[c] = "make_runnable" /\ arg'[c] = lbolt
      BY <1>2, <2>2 DEF TypeOK
    <3> QED
      BY <1>1, <1>2, <3>1, <3>2 DEF Local, Place, Counts, Called
  <2> QED
    BY <1>1, <2>1, <2>2
<1>12. ASSUME NEW e \in CPU, e # c PROVE Local(e)'
  BY <1>1, <1>4, <1>5, <1>10, <1>12, CoreFacts, LocalFrame
<1> QED
  BY <1>6, <1>9, <1>11, <1>12 DEF IInv

LEMMA MigTakeStep ==
  ASSUME IInv, NEW c \in CPU, MigTake(c)
  PROVE  IInv'
<1> DEFINE a == Run(c)
           b == Victims(c)
           x == mig[c].i + 1
<1>1. /\ pc[c] = "mig_take" /\ mig[c].i < mig[c].send
      /\ rqlock' = [rqlock EXCEPT ![c] = c]
      /\ lists' = MoveTail(lists, a, b)
      /\ mig' = [mig EXCEPT ![c].i = x]
      /\ UNCHANGED <<pc, arg, curthread, c_isidle, ipi, t_state, t_cpu, inP, child,
                     sem_count, sem_lock, wc_lock>>
  BY DEF MigTake, procVars, semVars
<1>2. TypeOK /\ Local(c)
  BY DEF IInv
<1>3. /\ mig[c].i \in Nat /\ mig[c].send \in Nat /\ x \in Nat
      /\ lists[a] \in Seq(Thread) /\ Len(lists[a]) \in Nat /\ Len(lists[b]) \in Nat
  BY <1>2, MigFacts
<1>4. /\ mig[c].send - mig[c].i <= Len(lists[a])
      /\ mig[c].i <= Len(lists[b])
  BY <1>1, <1>2 DEF Local, Counts
<1>5. lists[a] # <<>>
  <2>1. Len(lists[a]) # 0
    BY <1>1, <1>3, <1>4
  <2> QED
    BY <2>1
<1>6. a \in List /\ b \in List /\ a # b /\ \A e \in CPU : a \in Owned(e) \/ b \in Owned(e) => e = c
  BY ListIds DEF Owned
<1>7. /\ lists' \in [List -> Seq(Thread)] /\ Linked(lists')
      /\ \E h \in Thread : /\ On(lists, a, h)
                          /\ \A m \in List, u \in Thread :
                                On(lists', m, u) <=> (On(lists, m, u) /\ u # h) \/ (m = b /\ u = h)
      /\ \A m \in List : m \notin {a, b} => lists'[m] = lists[m]
      /\ Len(lists'[a]) = Len(lists[a]) - 1
      /\ Len(lists'[b]) = Len(lists[b]) + 1
  <2>1. lists \in [List -> Seq(Thread)] /\ Linked(lists)
    BY CoreFacts
  <2> HIDE DEF a, b
  <2>2. lists' = MoveTail(lists, a, b)
    BY <1>1
  <2> DEFINE N == MoveTail(lists, a, b)
  <2>3. /\ N \in [List -> Seq(Thread)] /\ Linked(N)
        /\ \E h \in Thread : /\ On(lists, a, h)
                            /\ \A m \in List, u \in Thread :
                                  On(N, m, u) <=> (On(lists, m, u) /\ u # h) \/ (m = b /\ u = h)
        /\ \A m \in List : m \notin {a, b} => N[m] = lists[m]
        /\ Len(N[a]) = Len(lists[a]) - 1
        /\ Len(N[b]) = Len(lists[b]) + 1
    BY <1>5, <1>6, <2>1, MoveTailFacts
  <2> QED
    BY <2>2, <2>3
<1>8. PICK h \in Thread : /\ On(lists, a, h)
                         /\ \A m \in List, u \in Thread :
                               On(lists', m, u) <=> (On(lists, m, u) /\ u # h) \/ (m = b /\ u = h)
  BY <1>7
<1>9. /\ mig' \in [CPU -> MigLocals]
      /\ mig'[c].i = x /\ mig'[c].send = mig[c].send
      /\ \A d \in CPU : d # c => mig'[d] = mig[d]
  BY <1>1, <1>2, <1>3, MigSetI
<1>10. TypeOK'
  BY <1>1, <1>2, <1>7, <1>9 DEF TypeOK
<1>11. \A t \in Thread : Off(lists, t) => Off(lists', t)
  BY <1>6, <1>8 DEF Off
<1>12. \A e \in CPU, t \in Thread, l \in List : l \in Owned(e) /\ On(lists', l, t) => t_cpu[t] = e
  <2>1. t_cpu[h] = c
    <3>1. a \in Owned(c)
      BY DEF Owned
    <3> QED
      BY <1>6, <1>8, <3>1, CoreFacts
  <2> QED
    BY <1>6, <1>8, <2>1, CoreFacts
<1>13. Core(lists, t_state, c_isidle)'
  BY <1>1, <1>7, <1>11, <1>12, CoreFacts, CoreMove DEF IInv
<1>14. \A e \in CPU : /\ lists'[Wake(e)] = lists[Wake(e)]
                      /\ e # c => /\ lists'[Run(e)] = lists[Run(e)]
                                  /\ lists'[Victims(e)] = lists[Victims(e)]
  BY <1>7, ListIds
<1>15. /\ mig'[c].i <= mig'[c].send
       /\ mig'[c].send - mig'[c].i <= Len(lists'[a])
       /\ mig'[c].i <= Len(lists'[b])
  BY <1>1, <1>3, <1>4, <1>7, <1>9
<1>16. Local(c)'
  BY <1>1, <1>15 DEF Local, Place, Counts, Called
<1>17. ASSUME NEW e \in CPU, e # c PROVE Local(e)'
  BY <1>1, <1>7, <1>9, <1>14, <1>17, CoreFacts, LocalFrame
<1> QED
  BY <1>10, <1>13, <1>16, <1>17 DEF IInv


LEMMA MigPushStep ==
  ASSUME IInv, NEW c \in CPU, MigPush(c)
  PROVE  IInv'
<1> DEFINE d == mig[c].i
           a == Victims(c)
           h == Head(lists[a])
           x == mig[c].send - 1
<1>1. /\ pc[c] = "mig_push" /\ mig[c].send > 0
      /\ mig' = [mig EXCEPT ![c].send = x]
      /\ UNCHANGED <<pc, arg, curthread, c_isidle, rqlock, t_state, inP, child,
                     sem_count, sem_lock, wc_lock>>
      /\ \/ /\ lists' = MoveHead(lists, a, a)
            /\ UNCHANGED <<t_cpu, ipi>>
         \/ /\ h # curthread[c]
            /\ t_cpu' = [t_cpu EXCEPT ![h] = d]
            /\ lists' = MoveHead(lists, a, Run(d))
            /\ Unidle(d)
  BY DEF MigPush, MigRoom, Current, procVars, semVars
<1>2. /\ TypeOK /\ Local(c) /\ mig[c].send <= Len(lists[a]) /\ d \in CPU /\ d # c
      /\ lists \in [List -> Seq(Thread)] /\ Linked(lists)
  BY <1>1, CoreFacts DEF Local, Counts
<1>3. x \in Nat /\ Len(lists[a]) \in Nat /\ x <= Len(lists[a]) - 1 /\ Len(lists[a]) # 0
  <2>1. mig[c].send \in Nat /\ Len(lists[a]) \in Nat
    BY <1>2, MigFacts
  <2> QED
    BY <1>1, <1>2, <2>1
<1>4. lists[a] # <<>> /\ a \in List /\ Run(d) \in List /\ a # Run(d) /\ a \in Owned(c)
  BY <1>2, <1>3, ListIds DEF Owned
<1>5. h \in Thread /\ On(lists, a, h)
  BY <1>2, <1>4, HeadOn
<1>6. /\ mig' \in [CPU -> MigLocals]
      /\ mig'[c].send = x /\ mig'[c].i = d
      /\ \A e \in CPU : e # c => mig'[e] = mig[e]
  BY <1>1, <1>2, <1>3, MigSetSend
<1>7. CASE /\ lists' = MoveHead(lists, a, a)
           /\ UNCHANGED <<t_cpu, ipi>>
  <2>1. /\ lists' \in [List -> Seq(Thread)] /\ Linked(lists')
        /\ \A m \in List, u \in Thread :
              On(lists', m, u) <=> (On(lists, m, u) /\ u # h) \/ (m = a /\ u = h)
        /\ \A m \in List : m # a => lists'[m] = lists[m]
        /\ Len(lists'[a]) = Len(lists[a])
    <3> DEFINE N == MoveHead(lists, a, a)
    <3>1. /\ N \in [List -> Seq(Thread)] /\ Linked(N)
          /\ \A m \in List, u \in Thread :
                On(N, m, u) <=> (On(lists, m, u) /\ u # h) \/ (m = a /\ u = h)
          /\ \A m \in List : m \notin {a, a} => N[m] = lists[m]
          /\ a = a => Len(N[a]) = Len(lists[a])
      BY <1>2, <1>4, MoveHeadFacts
    <3> HIDE DEF N, h
    <3> QED
      BY <1>7, <3>1 DEF N
  <2> HIDE DEF h
  <2>2. TypeOK'
    BY <1>1, <1>2, <1>6, <1>7, <2>1 DEF TypeOK
  <2>3. \A t \in Thread : Off(lists, t) => Off(lists', t)
    BY <1>4, <1>5, <2>1 DEF Off
  <2>4. \A e \in CPU, t \in Thread, l \in List : l \in Owned(e) /\ On(lists', l, t) => t_cpu[t] = e
    BY <1>4, <1>5, <2>1, CoreFacts
  <2>5. Core(lists, t_state, c_isidle)'
    BY <1>1, <1>7, <2>1, <2>3, <2>4, CoreFacts, CoreMove DEF IInv
  <2>6. x <= Len(lists'[a])
    BY <1>3, <2>1
  <2>7. Local(c)'
    BY <1>1, <1>2, <1>6, <2>6 DEF Local, Place, Counts, Called
  <2>8. \A e \in CPU : /\ lists'[Run(e)] = lists[Run(e)] /\ lists'[Wake(e)] = lists[Wake(e)]
                       /\ e # c => lists'[Victims(e)] = lists[Victims(e)]
    BY <2>1, ListIds
  <2>9. ASSUME NEW e \in CPU, e # c PROVE Local(e)'
    BY <1>1, <1>6, <1>7, <2>1, <2>8, <2>9, CoreFacts, LocalFrame
  <2> QED
    BY <2>2, <2>5, <2>7, <2>9 DEF IInv
<1>8. CASE /\ h # curthread[c]
           /\ t_cpu' = [t_cpu EXCEPT ![h] = d]
           /\ lists' = MoveHead(lists, a, Run(d))
           /\ Unidle(d)
  <2> DEFINE b == Run(d)
  <2>1. /\ lists' \in [List -> Seq(Thread)] /\ Linked(lists')
        /\ \A m \in List, u \in Thread :
              On(lists', m, u) <=> (On(lists, m, u) /\ u # h) \/ (m = b /\ u = h)
        /\ \A m \in List : m \notin {a, b} => lists'[m] = lists[m]
        /\ Len(lists'[a]) = Len(lists[a]) - 1
        /\ Len(lists'[b]) = Len(lists[b]) + 1
    BY <1>2, <1>4, <1>8, MoveHeadFacts
  <2>2. /\ ipi' \in [CPU -> BOOLEAN] /\ (c_isidle[d] => ipi'[d])
        /\ \A e \in CPU : ipi[e] => ipi'[e]
    BY <1>2, <1>8, UnidleFacts
  <2> HIDE DEF h
  <2>3. /\ t_cpu' \in [Thread -> CPU] /\ t_cpu'[h] = d
        /\ \A t \in Thread : t # h => t_cpu'[t] = t_cpu[t]
        /\ \A e \in CPU : curthread[e] \in Thread
    BY <1>2, <1>5, <1>8 DEF TypeOK
  <2>4. TypeOK'
    BY <1>1, <1>2, <1>6, <2>1, <2>2, <2>3 DEF TypeOK
  <2>5. \A t \in Thread : Off(lists, t) => Off(lists', t)
    BY <1>4, <1>5, <2>1 DEF Off
  <2>6. \A e \in CPU : t_cpu'[curthread[e]] = e
    <3> SUFFICES ASSUME NEW e \in CPU PROVE t_cpu'[curthread[e]] = e
      OBVIOUS
    <3>1. t_cpu[curthread[e]] = e /\ t_cpu[h] = c
      BY <1>4, <1>5, CoreFacts
    <3>2. curthread[e] # h
      BY <1>8, <3>1
    <3> QED
      BY <2>3, <3>1, <3>2
  <2>7. \A e \in CPU, t \in Thread, l \in List : l \in Owned(e) /\ On(lists', l, t) => t_cpu'[t] = e
    <3> SUFFICES ASSUME NEW e \in CPU, NEW t \in Thread, NEW l \in List,
                        l \in Owned(e), On(lists', l, t)
                 PROVE  t_cpu'[t] = e
      OBVIOUS
    <3>1. CASE On(lists, l, t) /\ t # h
      BY <2>3, <3>1, CoreFacts
    <3>2. CASE l = b /\ t = h
      <4>1. d = e
        BY <1>2, <3>2, ListIds DEF Owned
      <4> QED
        BY <2>3, <3>2, <4>1
    <3> QED
      BY <2>1, <3>1, <3>2
  <2>8. Core(lists, t_state, c_isidle)'
    BY <1>1, <2>1, <2>5, <2>6, <2>7, CoreFacts, CoreMove DEF IInv
  <2>9. x <= Len(lists'[a])
    BY <1>3, <2>1
  <2>10. Local(c)'
    BY <1>1, <1>2, <1>6, <2>9 DEF Local, Place, Counts, Called
  <2>11. \A e \in CPU : /\ lists'[Wake(e)] = lists[Wake(e)]
                        /\ e # c => lists'[Victims(e)] = lists[Victims(e)]
                        /\ e # d => lists'[Run(e)] = lists[Run(e)]
    BY <1>2, <2>1, ListIds
  <2>12. Len(lists'[b]) >= Len(lists[b])
    <3>1. Len(lists[b]) \in Nat
      BY <1>2, MigFacts
    <3> QED
      BY <2>1, <3>1
  <2>13. ASSUME NEW e \in CPU, e # c PROVE Local(e)'
    <3>1. \/ lists'[Run(e)] = lists[Run(e)] /\ (ipi[e] => ipi'[e])
          \/ Len(lists'[Run(e)]) >= Len(lists[Run(e)]) /\ (c_isidle[e] => ipi'[e])
      BY <2>2, <2>11, <2>12
    <3> QED
      BY <1>1, <1>6, <2>1, <2>11, <2>13, <3>1, CoreFacts, LocalFrame
  <2> QED
    BY <2>4, <2>8, <2>10, <2>13 DEF IInv
<1> QED
  BY <1>1, <1>7, <1>8

LEMMA MigBackStep ==
  ASSUME IInv, NEW c \in CPU, MigBack(c)
  PROVE  IInv'
<1> DEFINE a == Victims(c)
           b == Run(c)
<1>1. /\ pc[c] = "mig_next"
      /\ lists' = MoveAll(lists, a, b)
      /\ mig' = [mig EXCEPT ![c] = MigStart]
      /\ pc' = [pc EXCEPT ![c] = "yield"]
      /\ UNCHANGED <<arg, curthread, c_isidle, ipi, rqlock, t_state, t_cpu, inP, child,
                     sem_count, sem_lock, wc_lock>>
  BY DEF MigBack, Goto, procVars, semVars
<1>2. TypeOK
  BY DEF IInv
<1>3. a \in List /\ b \in List /\ a # b /\ a \in Owned(c) /\ \A e \in CPU : b \in Owned(e) => e = c
  BY ListIds DEF Owned
<1>4. /\ lists' \in [List -> Seq(Thread)] /\ Linked(lists')
      /\ \A m \in List, u \in Thread :
            On(lists', m, u) <=> (On(lists, m, u) /\ m # a) \/ (m = b /\ On(lists, a, u))
      /\ \A m \in List : m \notin {a, b} => lists'[m] = lists[m]
  <2>1. lists \in [List -> Seq(Thread)] /\ Linked(lists)
    BY CoreFacts
  <2> QED
    BY <1>1, <1>3, <2>1, MoveAllFacts
<1>5. /\ pc' \in [CPU -> PC] /\ mig' \in [CPU -> MigLocals]
      /\ pc'[c] = "yield" /\ mig'[c] = MigStart
      /\ \A e \in CPU : e # c => pc'[e] = pc[e] /\ mig'[e] = mig[e]
  <2>1. MigStart \in MigLocals
    BY DEF MigStart, MigLocals
  <2> QED
    BY <1>1, <1>2, <2>1 DEF TypeOK, PC
<1>6. TypeOK'
  BY <1>1, <1>2, <1>4, <1>5 DEF TypeOK
<1>7. \A t \in Thread : Off(lists, t) => Off(lists', t)
  BY <1>3, <1>4 DEF Off
<1>8. \A e \in CPU, t \in Thread, l \in List : l \in Owned(e) /\ On(lists', l, t) => t_cpu[t] = e
  <2> SUFFICES ASSUME NEW e \in CPU, NEW t \in Thread, NEW l \in List,
                      l \in Owned(e), On(lists', l, t)
               PROVE  t_cpu[t] = e
    OBVIOUS
  <2>1. CASE On(lists, l, t)
    BY <2>1, CoreFacts
  <2>2. CASE l = b /\ On(lists, a, t)
    BY <1>3, <2>2, CoreFacts
  <2> QED
    BY <1>4, <2>1, <2>2
<1>9. Core(lists, t_state, c_isidle)'
  BY <1>1, <1>4, <1>7, <1>8, CoreFacts, CoreMove DEF IInv
<1>10. \A e \in CPU : e # c => /\ lists'[Run(e)] = lists[Run(e)]
                               /\ lists'[Victims(e)] = lists[Victims(e)]
                               /\ lists'[Wake(e)] = lists[Wake(e)]
  BY <1>4, ListIds
<1>11. Local(c)'
  BY <1>5 DEF Local, Place, Counts, Called
<1>12. ASSUME NEW e \in CPU, e # c PROVE Local(e)'
  BY <1>1, <1>4, <1>5, <1>10, <1>12, CoreFacts, LocalFrame
<1> QED
  BY <1>6, <1>9, <1>11, <1>12 DEF IInv

-----------------------------------------------------------------------------
(* The invariant *)

LEMMA InitIInv == Init => IInv
<1> SUFFICES ASSUME Init PROVE IInv
  OBVIOUS
<1>1. /\ pc = [c \in CPU |-> "thread"] /\ arg = [c \in CPU |-> NONE]
      /\ curthread \in [CPU -> Thread]
      /\ c_isidle = [c \in CPU |-> FALSE] /\ ipi = [c \in CPU |-> FALSE]
      /\ lists = [l \in List |-> <<>>]
      /\ rqlock = [c \in CPU |-> NONE] /\ mig = [c \in CPU |-> MigStart]
      /\ t_cpu \in [Thread -> CPU] /\ \A c \in CPU : t_cpu[curthread[c]] = c
      /\ inP = [t \in Thread |-> NONE] /\ child = [t \in Thread |-> NONE]
      /\ sem_count \in [Sem -> 0 .. MaxCount]
      /\ sem_lock = [s \in Sem |-> NONE] /\ wc_lock = [w \in Wchan |-> NONE]
  BY DEF Init
<1>2. /\ t_state \in [Thread -> State]
      /\ \A t \in Thread : t_state[t] = "none" => \A c \in CPU : curthread[c] # t
  BY DEF Init, State
<1>3. TypeOK
  <2>1. MigStart \in MigLocals
    BY DEF MigStart, MigLocals
  <2>2. mig \in [CPU -> MigLocals]
    BY <1>1, <2>1
  <2>3. lists \in [List -> Seq(Thread)]
    BY <1>1
  <2>4. sem_count \in [Sem -> Nat]
    BY <1>1, ThreadAssumption
  <2>5. pc \in [CPU -> PC]
    BY <1>1 DEF PC
  <2> QED
    BY <1>1, <1>2, <2>2, <2>3, <2>4, <2>5 DEF TypeOK, State
<1>4. Linked(lists) /\ \A t \in Thread : Off(lists, t)
  BY <1>1 DEF Linked, Off, On
<1>5. \A l \in List, t \in Thread : ~On(lists, l, t)
  BY <1>4 DEF Off
<1>6. Core(lists, t_state, c_isidle)
  <2>1. NONE \notin Thread
    BY ThreadAssumption
  <2> QED
    BY <1>1, <1>2, <1>4, <1>5, <2>1 DEF Core
<1>7. \A c \in CPU : Local(c)
  BY <1>1 DEF Local, Place, Counts, Called
<1> QED
  BY <1>3, <1>6, <1>7 DEF IInv

LEMMA NextIInv == IInv /\ [Next]_vars => IInv'
<1> SUFFICES ASSUME IInv, [Next]_vars PROVE IInv'
  OBVIOUS
<1>1. CASE UNCHANGED vars
  BY <1>1 DEF vars, IInv, TypeOK, Core, Off, Local, Place, Counts, Called
<1>2. ASSUME NEW c \in CPU, KernelStep(c) PROVE IInv'
  BY <1>2, RecheckStep, YieldReturnsStep, YieldSwitchesStep, WchanSleepStep, PBridgeStep,
     WchanWakeoneStep, MakeRunnableStep, MigCountStep, MigDecideStep, MigTakeStep,
     MigTakenStep, MigNextStep, MigPushStep, MigUnlockStep, MigBackStep DEF KernelStep
<1>3. ASSUME NEW c \in CPU, ThreadStep(c) PROVE IInv'
  BY <1>3, ThreadExitStep, ClocksleepStep, ForkMakeRunnableStep, ThreadForkStep,
     PTakeStep, PZeroStep DEF ThreadStep
<1>4. ASSUME NEW c \in CPU, Interrupt(c) PROVE IInv'
  BY <1>4, IpiInterruptStep, HardclockStep, TimerclockStep, VStep DEF Interrupt
<1> QED
  BY <1>1, <1>2, <1>3, <1>4 DEF Next

\* The inductive invariant holds in every reachable state.
THEOREM Inductive == Spec => []IInv
  BY InitIInv, NextIInv, PTL DEF Spec

\* Type correctness; in particular to_send of thread_consider_migration, which
\* is unsigned in the code, never becomes negative.
THEOREM TypeCorrect == Spec => []TypeOK
<1>1. IInv => TypeOK
  BY DEF IInv
<1> QED
  BY <1>1, Inductive, PTL

\* The stack of a thread is never live on two cpus, whatever migrations happen.
THEOREM ThreadsRunOnOneCpu == Spec => []OneCpuPerThread
<1>1. IInv => OneCpuPerThread
  <2> SUFFICES ASSUME IInv, NEW c \in CPU, NEW d \in CPU \ {c}
               PROVE  /\ t_cpu[curthread[c]] = c
                      /\ curthread[d] # curthread[c]
                      /\ ~On(lists, Run(d), curthread[c])
    BY CoreFacts DEF OneCpuPerThread
  <2>1. t_cpu[curthread[c]] = c /\ t_cpu[curthread[d]] = d /\ curthread[c] \in Thread
    BY CoreFacts DEF TypeOK
  <2>2. Run(d) \in Owned(d) /\ Run(d) \in List
    BY ListIds DEF Owned
  <2> QED
    BY <2>1, <2>2, CoreFacts
<1> QED
  BY <1>1, Inductive, PTL

\* The asserts of threadlist.c on list nodes never fail.
THEOREM ListNodesAreConsistent == Spec => []OneListPerThread
<1>1. IInv => OneListPerThread
  BY DEF IInv, Core, OneListPerThread, OnNoList, Off
<1> QED
  BY <1>1, Inductive, PTL

\* thread_destroy frees a structure only when nothing refers to it any more.
THEOREM NoUseAfterFree == Spec => []NoDanglingThread
<1>1. IInv => NoDanglingThread
  BY DEF IInv, Core, NoDanglingThread, OnNoList, Off
<1> QED
  BY <1>1, Inductive, PTL

\* The unchecked results of threadlist_remtail and threadlist_remhead in
\* thread_consider_migration are never NULL.
THEOREM MigrationNeverRunsDry == Spec => []MigrationFindsThreads
<1>1. IInv => MigrationFindsThreads
  <2> SUFFICES ASSUME IInv, NEW c \in CPU
               PROVE  /\ pc[c] = "mig_take" => Len(lists[Run(c)]) >= mig[c].send - mig[c].i
                      /\ pc[c] \in {"mig_next", "mig_push"} => Len(lists[Victims(c)]) >= mig[c].send
    BY DEF MigrationFindsThreads
  <2>1. Local(c) /\ TypeOK
    BY CoreFacts
  <2>2. /\ mig[c].i \in Nat /\ mig[c].send \in Nat /\ Len(lists[Run(c)]) \in Nat
        /\ Len(lists[Victims(c)]) \in Nat
    BY <2>1, MigFacts
  <2> QED
    BY <2>1, <2>2 DEF Local, Counts
<1> QED
  BY <1>1, Inductive, PTL

\* No cpu sleeps in cpu_idle() with work on its run queue and no interrupt due.
THEOREM IdleCpusAreCalled == Spec => []IdleCpuIsCalled
<1>1. IInv => IdleCpuIsCalled
  BY DEF IInv, Local, Called, IdleCpuIsCalled
<1> QED
  BY <1>1, Inductive, PTL


=============================================================================
