--------------------------- MODULE ProgramProofs ---------------------------
(***************************************************************************)
(* Parts that share no state with the rest, for every size of their        *)
(* tables: JobsAreRemembered of the shell, TimeIsRight of the clock,       *)
(* GrepIsComplete and NobodyIsForgotten of the labs, InterruptStateAgrees  *)
(* of the traps, HandlesAreKept of the emulator's file system,             *)
(* DevicesAreFound of the table of devices, MenuDoesAsTold of the menu,    *)
(* BusAgrees of the bus.                                                   *)
(***************************************************************************)
EXTENDS Shell, Clock, FGrep, BlockingQueue, Trap, Emufs, Knowndevs, Menu, Lamebus,
        FiniteSetTheorems, FunctionTheorems, SequenceTheorems, WellFoundedInduction, TLAPS

-----------------------------------------------------------------------------
(* The shell's jobs *)

ProcState == {"free", "run", "exited"}

\* A table b, the processes pr, the jobs js and the foreground process agree: the table
\* has the jobs, once each, and a pid is in use for a job or for the foreground only.
Jobs(b, pr, js, fg) ==
  /\ b \in [Slot -> {0} \cup Pid]
  /\ pr \in [Pid -> ProcState]
  /\ \A p : p \in js <=> p # 0 /\ \E i \in Slot : b[i] = p
  /\ \A i, j \in Slot : b[i] = b[j] /\ b[i] # 0 => i = j
  /\ \A p \in Pid : pr[p] # "free" <=> p \in js \cup fg
  /\ fg \subseteq Pid /\ fg \cap js = {}

Fg == IF at = "fg" THEN {target} ELSE {}

ShellInv ==
  /\ Jobs(bgpids, proc, jobs, Fg)
  /\ at \in {"prompt", "fg", "wait", "waitall", "exited"}
  /\ at \in {"fg", "wait"} => target \in Pid
  /\ at = "waitall" => target \in Nat

LEMMA LeastOfNats ==
  ASSUME NEW S \in SUBSET Nat, S # {}
  PROVE  \E m \in S : \A k \in S : m <= k
<1>1. \A m \in S : m \in Nat
  OBVIOUS
<1> DEFINE R == OpToRel(<, Nat)
<1>2. \A x, y \in Nat : x < y => <<x, y>> \in R
  BY DEF OpToRel
<1>3. PICK m \in S : \A k \in S : ~(<<k, m>> \in R)
  <2> HIDE DEF R
  <2>1. IsWellFoundedOn(R, Nat)
    BY NatLessThanWellFounded DEF R
  <2> QED
    BY <2>1, WFMin
<1> HIDE DEF R
<1>4. \A k \in S : ~(k < m)
  BY <1>1, <1>2, <1>3
<1> QED
  BY <1>1, <1>4

\* waitpoll frees the slots and the pids of the same jobs.
LEMMA WaitpollKeepsJobs ==
  ASSUME NEW b, NEW pr, NEW js, Jobs(b, pr, js, {}), waitpoll(b, pr, js)
  PROVE  Jobs(bgpids, proc, jobs, {})'
<1> DEFINE gone == Polled(b, pr)
<1>1. 0 \notin Pid
  BY ShellAssumption
<1>2. gone \subseteq js
  BY DEF Polled, Jobs
<1>3. /\ bgpids' = [i \in Slot |-> IF b[i] \in gone THEN 0 ELSE b[i]]
      /\ proc' = [p \in Pid |-> IF p \in gone THEN "free" ELSE pr[p]]
      /\ jobs' = js \ gone
  BY DEF waitpoll
<1> HIDE DEF gone
<1>4. bgpids' \in [Slot -> {0} \cup Pid] /\ proc' \in [Pid -> ProcState]
  BY <1>3 DEF Jobs, ProcState
<1>5. \A i \in Slot : bgpids'[i] = IF b[i] \in gone THEN 0 ELSE b[i]
  BY <1>3
<1>6. 0 \notin gone
  BY <1>2 DEF Jobs
<1>7. \A p : p \in jobs' <=> p # 0 /\ \E i \in Slot : bgpids'[i] = p
  BY <1>3, <1>5, <1>6 DEF Jobs
<1>8. \A i, j \in Slot : bgpids'[i] = bgpids'[j] /\ bgpids'[i] # 0 => i = j
  BY <1>5 DEF Jobs
<1>9. \A p \in Pid : proc'[p] # "free" <=> p \in jobs'
  BY <1>2, <1>3 DEF Jobs
<1> QED
  BY <1>4, <1>7, <1>8, <1>9 DEF Jobs

\* A new process takes the first free slot.
LEMMA RememberKeepsJobs ==
  ASSUME Jobs(bgpids, proc, jobs, {}), can_bg, NEW p \in Pid, proc[p] = "free"
  PROVE  Jobs(remember_bg(p), [proc EXCEPT ![p] = "run"], jobs \cup {p}, {})
<1> DEFINE free == {i \in Slot : bgpids[i] = 0}
           s == CHOOSE i \in free : \A j \in free : i <= j
           b == [bgpids EXCEPT ![s] = p]
<1>1. free \in SUBSET Nat /\ free # {}
  BY ShellAssumption DEF Slot, can_bg
<1>2. s \in free
  <2> HIDE DEF free
  <2> QED
    BY <1>1, LeastOfNats
<1>3. s \in Slot /\ bgpids[s] = 0
  BY <1>2
<1>4. remember_bg(p) = b
  BY DEF remember_bg
<1> HIDE DEF s, free
<1>5. p # 0 /\ p \notin jobs
  BY ShellAssumption DEF Jobs
<1>6. b \in [Slot -> {0} \cup Pid] /\ [proc EXCEPT ![p] = "run"] \in [Pid -> ProcState]
  BY <1>3 DEF Jobs, ProcState
<1>7. \A i \in Slot : b[i] = IF i = s THEN p ELSE bgpids[i]
  BY <1>3 DEF Jobs
<1> HIDE DEF b
<1>8. \A q : q \in jobs \cup {p} <=> q # 0 /\ \E i \in Slot : b[i] = q
  <2>1. ASSUME NEW q, q \in jobs \cup {p} PROVE q # 0 /\ \E i \in Slot : b[i] = q
    <3>1. CASE q = p
      BY <1>3, <1>5, <1>7, <3>1
    <3>2. CASE q \in jobs
      <4>1. q # 0
        BY <3>2 DEF Jobs
      <4>2. PICK i \in Slot : bgpids[i] = q
        BY <3>2 DEF Jobs
      <4> QED
        BY <1>3, <1>7, <4>1, <4>2
    <3> QED
      BY <2>1, <3>1, <3>2
  <2>2. ASSUME NEW q, q # 0, NEW i \in Slot, b[i] = q PROVE q \in jobs \cup {p}
    BY <1>7, <2>2 DEF Jobs
  <2> QED
    BY <2>1, <2>2
<1>9. \A i \in Slot : bgpids[i] # p
  BY <1>5 DEF Jobs
<1>10. \A i, j \in Slot : b[i] = b[j] /\ b[i] # 0 => i = j
  BY <1>7, <1>9 DEF Jobs
<1>11. \A q \in Pid : [proc EXCEPT ![p] = "run"][q] # "free" <=> q \in jobs \cup {p}
  BY DEF Jobs
<1> QED
  BY <1>4, <1>6, <1>8, <1>10, <1>11 DEF Jobs

\* A job, or a process that is none, is waited for and forgotten.
LEMMA ForgetKeepsJobs ==
  ASSUME Jobs(bgpids, proc, jobs, {}), NEW p \in Pid
  PROVE  Jobs(Forget(p), [proc EXCEPT ![p] = "free"], jobs \ {p}, {})
<1> DEFINE b == Forget(p)
<1>1. p # 0
  BY ShellAssumption
<1>2. b \in [Slot -> {0} \cup Pid] /\ [proc EXCEPT ![p] = "free"] \in [Pid -> ProcState]
  BY DEF Jobs, ProcState, Forget
<1>3. \A i \in Slot : b[i] = IF bgpids[i] = p THEN 0 ELSE bgpids[i]
  BY DEF Forget
<1> HIDE DEF b
<1>4. \A q : q \in jobs \ {p} <=> q # 0 /\ \E i \in Slot : b[i] = q
  BY <1>1, <1>3 DEF Jobs
<1>5. \A i, j \in Slot : b[i] = b[j] /\ b[i] # 0 => i = j
  BY <1>3 DEF Jobs
<1>6. \A q \in Pid : [proc EXCEPT ![p] = "free"][q] # "free" <=> q \in jobs \ {p}
  BY DEF Jobs
<1> QED
  BY <1>2, <1>4, <1>5, <1>6 DEF Jobs, b

\* The foreground process is no job.
LEMMA CollectKeepsJobs ==
  ASSUME NEW p \in Pid, Jobs(bgpids, proc, jobs, {p})
  PROVE  Jobs(bgpids, [proc EXCEPT ![p] = "free"], jobs \ {p}, {})
<1>1. jobs \ {p} = jobs
  BY DEF Jobs
<1>2. [proc EXCEPT ![p] = "free"] \in [Pid -> ProcState]
  BY DEF Jobs, ProcState
<1>3. \A q \in Pid : [proc EXCEPT ![p] = "free"][q] # "free" <=> q \in jobs
  BY DEF Jobs
<1> QED
  BY <1>1, <1>2, <1>3 DEF Jobs

LEMMA ShellInit == shInit => ShellInv
<1> SUFFICES ASSUME shInit PROVE ShellInv
  OBVIOUS
<1>1. bgpids \in [Slot -> {0} \cup Pid] /\ proc \in [Pid -> ProcState]
  BY DEF shInit, ProcState
<1>2. jobs = {} /\ Fg = {} /\ \A i \in Slot : bgpids[i] = 0
  BY DEF shInit, Fg
<1>3. \A p \in Pid : proc[p] = "free"
  BY DEF shInit
<1> QED
  BY <1>1, <1>2, <1>3 DEF shInit, ShellInv, Jobs

LEMMA ShellSteps == ShellInv /\ [shNext]_shVars => ShellInv'
<1> SUFFICES ASSUME ShellInv, [shNext]_shVars PROVE ShellInv'
  OBVIOUS
<1> DEFINE Prompts == at' = "prompt" /\ Jobs(bgpids, proc, jobs, {})'
<1>1. ASSUME at # "fg" PROVE Jobs(bgpids, proc, jobs, {})
  BY <1>1 DEF ShellInv, Fg
<1>2. ASSUME Prompts PROVE ShellInv'
  BY <1>2 DEF ShellInv, Fg
<1>3. ASSUME at' # "fg", at # "fg", UNCHANGED <<bgpids, proc, jobs>>,
             at' \in {"prompt", "wait", "waitall", "exited"},
             at' = "wait" => target' \in Pid, at' = "waitall" => target' \in Nat
      PROVE  ShellInv'
  BY <1>1, <1>3 DEF ShellInv, Fg, Jobs
<1>4. CASE Background
  <2>1. /\ at = "prompt" /\ can_bg /\ at' = "prompt"
        /\ \E p \in Pid : /\ proc[p] = "free"
                          /\ waitpoll(remember_bg(p), [proc EXCEPT ![p] = "run"], jobs \cup {p})
    BY <1>4 DEF Background
  <2>2. PICK p \in Pid : /\ proc[p] = "free"
                         /\ waitpoll(remember_bg(p), [proc EXCEPT ![p] = "run"], jobs \cup {p})
    BY <2>1
  <2>3. Jobs(remember_bg(p), [proc EXCEPT ![p] = "run"], jobs \cup {p}, {})
    BY <1>1, <2>1, <2>2, RememberKeepsJobs
  <2>4. Jobs(bgpids, proc, jobs, {})'
    BY <2>2, <2>3, WaitpollKeepsJobs
  <2> QED
    BY <1>2, <2>1, <2>4
<1>5. CASE Foreground
  <2>1. PICK p \in Pid : /\ proc[p] = "free" /\ proc' = [proc EXCEPT ![p] = "run"] /\ target' = p
                         /\ at = "prompt" /\ at' = "fg" /\ UNCHANGED <<bgpids, jobs>>
    BY <1>5 DEF Foreground
  <2>2. Jobs(bgpids, proc, jobs, {})
    BY <1>1, <2>1
  <2>3. proc' \in [Pid -> ProcState]
    BY <2>1, <2>2 DEF Jobs, ProcState
  <2>4. \A q \in Pid : proc'[q] # "free" <=> q \in jobs \cup {p}
    BY <2>1, <2>2 DEF Jobs
  <2>5. p \notin jobs
    BY <2>1, <2>2 DEF Jobs
  <2>6. Jobs(bgpids, proc', jobs, {p})
    BY <2>2, <2>3, <2>4, <2>5 DEF Jobs
  <2>7. Fg' = {p}
    BY <2>1 DEF Fg
  <2> QED
    BY <2>1, <2>6, <2>7 DEF ShellInv
<1>6. CASE ForegroundDone
  <2>1. at = "fg" /\ at' = "prompt" /\ target \in Pid
        /\ waitpoll(bgpids, [proc EXCEPT ![target] = "free"], jobs \ {target})
    BY <1>6 DEF ForegroundDone, ShellInv
  <2>2. Jobs(bgpids, proc, jobs, {target})
    BY <2>1 DEF ShellInv, Fg
  <2>3. Jobs(bgpids, [proc EXCEPT ![target] = "free"], jobs \ {target}, {})
    BY <2>1, <2>2, CollectKeepsJobs
  <2>4. Jobs(bgpids, proc, jobs, {})'
    BY <2>1, <2>3, WaitpollKeepsJobs
  <2> QED
    BY <1>2, <2>1, <2>4
<1>7. CASE WaitDone
  <2>1. at = "wait" /\ at' = "prompt" /\ target \in Pid
        /\ waitpoll(Forget(target), [proc EXCEPT ![target] = "free"], jobs \ {target})
    BY <1>7 DEF WaitDone, ShellInv
  <2>2. Jobs(Forget(target), [proc EXCEPT ![target] = "free"], jobs \ {target}, {})
    BY <1>1, <2>1, ForgetKeepsJobs
  <2>3. Jobs(bgpids, proc, jobs, {})'
    BY <2>1, <2>2, WaitpollKeepsJobs
  <2> QED
    BY <1>2, <2>1, <2>3
<1>8. CASE WaitAll
  BY <1>3, <1>8 DEF WaitAll
<1>9. CASE WaitSlot
  <2>1. /\ at = "waitall" /\ at' = "waitall" /\ target \in Nat /\ target' = target + 1
        /\ target < MAXBG /\ bgpids[target] # 0
        /\ proc' = [proc EXCEPT ![bgpids[target]] = "free"] /\ jobs' = jobs \ {bgpids[target]}
        /\ bgpids' = [bgpids EXCEPT ![target] = 0]
    BY <1>9 DEF WaitSlot, ShellInv, Reaped
  <2>2. Jobs(bgpids, proc, jobs, {})
    BY <1>1, <2>1
  <2>3. target \in Slot
    BY <2>1, ShellAssumption DEF Slot
  <2>4. PICK p \in Pid : p = bgpids[target]
    BY <2>1, <2>2, <2>3 DEF Jobs
  <2>5. bgpids' = Forget(p)
    <3>1. bgpids' \in [Slot -> {0} \cup Pid] /\ Forget(p) \in [Slot -> {0} \cup Pid]
      BY <2>1, <2>2, <2>3 DEF Jobs, Forget
    <3>2. \A i \in Slot : bgpids[i] = p => i = target
      BY <2>1, <2>2, <2>3, <2>4 DEF Jobs
    <3>3. \A i \in Slot : bgpids'[i] = Forget(p)[i]
      BY <2>1, <2>2, <2>3, <2>4, <3>2 DEF Jobs, Forget
    <3> QED
      BY <3>1, <3>3
  <2>6. Jobs(Forget(p), [proc EXCEPT ![p] = "free"], jobs \ {p}, {})
    BY <2>2, ForgetKeepsJobs
  <2>7. Jobs(bgpids', proc', jobs', {})
    BY <2>1, <2>4, <2>5, <2>6
  <2> QED
    BY <2>1, <2>7 DEF ShellInv, Fg
<1>10. CASE SkipSlot
  BY <1>3, <1>10 DEF SkipSlot, ShellInv
<1>11. CASE WaitAllDone
  <2>1. Jobs(bgpids, proc, jobs, {}) /\ waitpoll(bgpids, proc, jobs) /\ at' = "prompt"
    BY <1>1, <1>11 DEF WaitAllDone
  <2> QED
    BY <1>2, <2>1, WaitpollKeepsJobs
<1>12. CASE Builtin
  <2>1. Jobs(bgpids, proc, jobs, {}) /\ waitpoll(bgpids, proc, jobs) /\ at' = "prompt"
    BY <1>1, <1>12 DEF Builtin
  <2> QED
    BY <1>2, <2>1, WaitpollKeepsJobs
<1>13. CASE cmd_exit
  BY <1>3, <1>13 DEF cmd_exit
<1>14. ASSUME NEW p \in Pid, cmd_wait(p) PROVE ShellInv'
  BY <1>3, <1>14 DEF cmd_wait
<1>15. ASSUME NEW p \in Pid, ChildExits(p) PROVE ShellInv'
  <2>1. /\ proc[p] = "run" /\ proc' = [proc EXCEPT ![p] = "exited"]
        /\ UNCHANGED <<bgpids, at, target, jobs>>
    BY <1>15 DEF ChildExits
  <2>2. Jobs(bgpids, proc, jobs, Fg) /\ Fg' = Fg
    BY <2>1 DEF ShellInv, Fg
  <2>3. proc' \in [Pid -> ProcState]
    BY <2>1, <2>2 DEF Jobs, ProcState
  <2>4. \A q \in Pid : proc'[q] # "free" <=> q \in jobs \cup Fg
    BY <2>1, <2>2 DEF Jobs
  <2>5. Jobs(bgpids, proc', jobs, Fg)
    BY <2>2, <2>3, <2>4 DEF Jobs
  <2> QED
    BY <2>1, <2>2, <2>5 DEF ShellInv
<1>16. CASE UNCHANGED shVars
  BY <1>16 DEF shVars, ShellInv, Fg, Jobs
<1> QED
  BY <1>4, <1>5, <1>6, <1>7, <1>8, <1>9, <1>10, <1>11, <1>12, <1>13, <1>14, <1>15, <1>16
     DEF shNext

\* The shell's table has every background job nobody has waited for, once, and nothing
\* else, for any size of the table and any pids: remember_bg, cmd_wait and waitpoll of
\* user/bin/sh/sh.c forget a job exactly when its status was collected, so a pid that
\* the kernel uses again never meets an old slot.
THEOREM ShellRemembersJobs == shSpec => []JobsAreRemembered
<1>1. shInit => ShellInv
  BY ShellInit
<1>2. ShellInv /\ [shNext]_shVars => ShellInv'
  BY ShellSteps
<1>3. ShellInv => JobsAreRemembered
  <2> SUFFICES ASSUME ShellInv PROVE JobsAreRemembered
    OBVIOUS
  <2>1. Jobs(bgpids, proc, jobs, Fg)
    BY DEF ShellInv
  <2>2. {bgpids[i] : i \in Slot} \ {0} = jobs
    BY <2>1 DEF Jobs
  <2>3. \A p \in Pid : proc[p] # "free" => p \in jobs \/ (at = "fg" /\ target = p)
    BY <2>1 DEF Jobs, Fg
  <2>4. \A i, j \in Slot : bgpids[i] = bgpids[j] /\ bgpids[i] # 0 => i = j
    BY <2>1 DEF Jobs
  <2> QED
    BY <2>2, <2>3, <2>4 DEF JobsAreRemembered
<1> QED
  BY <1>1, <1>2, <1>3, PTL DEF shSpec

-----------------------------------------------------------------------------
(* The time of day *)

LEMMA SecondIsPositive == Second \in Nat /\ Second > 0
BY ClockAssumption

LEMMA DivMod ==
  ASSUME NEW t \in Nat
  PROVE  /\ t \div Second \in Nat /\ t % Second \in Nat /\ t % Second < Second
         /\ t = (t \div Second) * Second + (t % Second)
<1>1. Second \in Nat /\ Second > 0
  BY SecondIsPositive
<1>2. t \div Second \in Nat
  BY <1>1
<1>3. t % Second \in Nat /\ t % Second < Second
  BY <1>1
<1>4. t = (t \div Second) * Second + (t % Second)
  BY <1>1
<1> QED
  BY <1>2, <1>3, <1>4

LEMMA Multiples ==
  ASSUME NEW a \in Nat, NEW b \in Nat, a < b
  PROVE  a * Second + Second <= b * Second
<1>4. Second \in Nat /\ Second > 0
  BY SecondIsPositive
<1>1. PICK d \in Nat : b = a + 1 + d
  <2>1. b - a - 1 \in Nat /\ b = a + 1 + (b - a - 1)
    OBVIOUS
  <2> QED
    BY <2>1
<1>2. d * Second \in Nat
  BY <1>4
<1>3. b * Second = a * Second + Second + d * Second
  BY <1>1, <1>4
<1> QED
  BY <1>2, <1>3, <1>4

\* Two times less than a second apart, the later of which is far enough into its
\* second, or the earlier of which is soon enough in its own, have the same seconds.
LEMMA SameSecond ==
  ASSUME NEW t \in Nat, NEW u \in Nat, t <= u, u <= t + Latency,
         u % Second >= Small \/ t % Second < Small
  PROVE  t \div Second = u \div Second
<1> DEFINE q == t \div Second
           r == u \div Second
           m == t % Second
           n == u % Second
<1>1. q \in Nat /\ m \in Nat /\ m < Second /\ t = q * Second + m
  BY DivMod
<1>2. r \in Nat /\ n \in Nat /\ n < Second /\ u = r * Second + n
  BY DivMod
<1>3. n >= Small \/ m < Small
  OBVIOUS
<1> HIDE DEF q, r, m, n
<1>4. q * Second \in Nat /\ r * Second \in Nat
  BY <1>1, <1>2, SecondIsPositive
<1> DEFINE qs == q * Second
           rs == r * Second
<1>5. q < r => qs + Second <= rs
  BY <1>1, <1>2, Multiples
<1>6. r < q => rs + Second <= qs
  BY <1>1, <1>2, Multiples
<1> HIDE DEF qs, rs
<1>7. qs \in Nat /\ rs \in Nat /\ t = qs + m /\ u = rs + n
  BY <1>1, <1>2, <1>4 DEF qs, rs
<1>8. ~(q < r)
  BY <1>1, <1>2, <1>3, <1>5, <1>7, ClockAssumption
<1>9. ~(r < q)
  BY <1>1, <1>2, <1>6, <1>7, ClockAssumption
<1> QED
  BY <1>1, <1>2, <1>8, <1>9 DEF q, r

ClockType ==
  /\ now \in Nat /\ asked \in Nat
  /\ gpc \in {"idle", "secs1", "nsecs", "secs2"}
  /\ reg \in [secs1 : Nat, nsecs : Nat]
  /\ before \in [secs : Nat, nsecs : Nat, from : Nat, to : Nat, some : BOOLEAN]

\* What was read so far the card showed during the call, which is not too long.
ReadsAreFresh ==
  /\ gpc # "idle" => asked <= now /\ now <= asked + Latency /\ before.to <= asked
  /\ gpc = "nsecs" => \E t \in asked .. now : reg.secs1 = t \div Second
  /\ gpc = "secs2" =>
       \E t, u \in asked .. now : t <= u /\ reg.secs1 = t \div Second /\ reg.nsecs = u % Second

ClockInv ==
  /\ ClockType
  /\ before.to <= now /\ before.nsecs < Second
  /\ ReadsAreFresh
  /\ TimeIsRight

\* ltimer_gettime answers the time at which it read the nanoseconds.
LEMMA AnswerIsRight ==
  ASSUME ClockInv, gpc = "secs2"
  PROVE  /\ SecsOf \in Nat /\ reg.nsecs \in Nat /\ reg.nsecs < Second
         /\ SecsOf * Second + reg.nsecs \in asked .. now
<1>1. PICK t \in asked .. now : \E v \in asked .. now :
         t <= v /\ reg.secs1 = t \div Second /\ reg.nsecs = v % Second
  BY DEF ClockInv, ReadsAreFresh
<1>2. PICK u \in asked .. now : t <= u /\ reg.secs1 = t \div Second /\ reg.nsecs = u % Second
  BY <1>1
<1>3. /\ now \in Nat /\ asked \in Nat /\ asked <= now /\ now <= asked + Latency
      /\ t \in Nat /\ u \in Nat
  BY DEF ClockInv, ClockType, ReadsAreFresh
<1>4. u <= now /\ now <= u + Latency /\ t <= u /\ u <= t + Latency
  BY <1>2, <1>3, ClockAssumption
<1>5. SecsOf = u \div Second
  <2>1. CASE reg.nsecs < Small
    <3>1. u \div Second = now \div Second
      BY <1>2, <1>3, <1>4, <2>1, SameSecond
    <3> QED
      BY <2>1, <3>1 DEF SecsOf, SEC
  <2>2. CASE ~(reg.nsecs < Small)
    <3>1. u % Second \in Nat
      BY <1>3, DivMod
    <3>2. u % Second >= Small
      BY <1>2, <2>2, <3>1, ClockAssumption
    <3>3. t \div Second = u \div Second
      BY <1>3, <1>4, <3>2, SameSecond
    <3> QED
      BY <1>2, <2>2, <3>3 DEF SecsOf
  <2> QED
    BY <2>1, <2>2
<1>6. /\ u \div Second \in Nat /\ u % Second \in Nat /\ u % Second < Second
      /\ u = (u \div Second) * Second + (u % Second)
  BY <1>3, DivMod
<1> QED
  BY <1>2, <1>5, <1>6

\* getinterval subtracts two times.
LEMMA IntervalIsRight ==
  ASSUME NEW a, NEW b, a.secs \in Nat, b.secs \in Nat, a.nsecs \in Nat, b.nsecs \in Nat,
         a.nsecs < Second, b.nsecs < Second
  PROVE  /\ getinterval(a, b).nsecs < Second
         /\ Ticks(getinterval(a, b)) = Ticks(b) - Ticks(a)
<1> DEFINE s == a.secs
           t == b.secs
           m == a.nsecs
           n == b.nsecs
<1>1. s \in Nat /\ t \in Nat /\ m \in Nat /\ n \in Nat /\ m < Second /\ n < Second
  OBVIOUS
<1>2. Ticks(a) = s * Second + m /\ Ticks(b) = t * Second + n
  BY DEF Ticks
<1>3. getinterval(a, b) = IF n < m THEN [secs |-> t - 1 - s, nsecs |-> n + Second - m]
                          ELSE [secs |-> t - s, nsecs |-> n - m]
  BY DEF getinterval
<1> HIDE DEF s, t, m, n
<1>4. (t - 1 - s) * Second = t * Second - Second - s * Second
  BY <1>1, SecondIsPositive
<1>5. (t - s) * Second = t * Second - s * Second
  BY <1>1, SecondIsPositive
<1>6. t * Second \in Nat /\ s * Second \in Nat
  BY <1>1, SecondIsPositive
<1>7. CASE n < m
  <2>1. getinterval(a, b).nsecs = n + Second - m /\ getinterval(a, b).secs = t - 1 - s
    BY <1>3, <1>7
  <2>2. Ticks(getinterval(a, b)) = (t - 1 - s) * Second + (n + Second - m)
    BY <2>1 DEF Ticks
  <2> QED
    BY <1>1, <1>2, <1>4, <1>6, <1>7, <2>1, <2>2, SecondIsPositive
<1>8. CASE ~(n < m)
  <2>1. getinterval(a, b).nsecs = n - m /\ getinterval(a, b).secs = t - s
    BY <1>3, <1>8
  <2>2. Ticks(getinterval(a, b)) = (t - s) * Second + (n - m)
    BY <2>1 DEF Ticks
  <2> QED
    BY <1>1, <1>2, <1>5, <1>6, <1>8, <2>1, <2>2, SecondIsPositive
<1> QED
  BY <1>7, <1>8

LEMMA ClockInit == clockInit => ClockInv
<1> SUFFICES ASSUME clockInit PROVE ClockInv
  OBVIOUS
<1>1. ClockType /\ ReadsAreFresh /\ before.to <= now /\ before.nsecs < Second
  BY SecondIsPositive DEF clockInit, ClockType, ReadsAreFresh, NoReads, NoAnswer
<1>2. Ticks(before) = 0 /\ Ticks(took) = 0
  BY SecondIsPositive DEF clockInit, Ticks, NoAnswer, NoInterval
<1>3. TimeIsRight
  BY <1>2, SecondIsPositive DEF clockInit, TimeIsRight, NoAnswer, NoInterval
<1> QED
  BY <1>1, <1>3 DEF ClockInv

LEMMA ClockSteps == ClockInv /\ [clockNext]_clockVars => ClockInv'
<1> SUFFICES ASSUME ClockInv, [clockNext]_clockVars PROVE ClockInv'
  OBVIOUS
<1>1. ClockType /\ ReadsAreFresh /\ TimeIsRight /\ before.to <= now /\ before.nsecs < Second
  BY DEF ClockInv
<1>2. now \in Nat /\ asked \in Nat /\ before.to \in Nat /\ Latency \in Nat
  BY <1>1, ClockAssumption DEF ClockType
<1>3. ASSUME UNCHANGED <<before, took>> PROVE TimeIsRight'
  BY <1>1, <1>3 DEF TimeIsRight, Ticks
<1>4. CASE Tick
  <2>1. /\ now' = now + 1 /\ UNCHANGED <<gpc, reg, asked, before, took>>
        /\ gpc # "idle" => now < asked + Latency
    BY <1>4 DEF Tick
  <2>2. ClockType'
    BY <1>1, <2>1 DEF ClockType
  <2>3. asked .. now \subseteq asked .. now'
    BY <1>2, <2>1
  <2>4. gpc' # "idle" => asked' <= now' /\ now' <= asked' + Latency /\ before'.to <= asked'
    BY <1>1, <1>2, <2>1 DEF ReadsAreFresh
  <2>5. ReadsAreFresh'
    BY <1>1, <2>1, <2>3, <2>4 DEF ReadsAreFresh
  <2>6. before'.to <= now' /\ before'.nsecs < Second
    BY <1>1, <1>2, <2>1
  <2> QED
    BY <1>3, <2>1, <2>2, <2>5, <2>6 DEF ClockInv
<1>5. CASE gettime
  <2>1. gpc' = "secs1" /\ asked' = now /\ took' = NoInterval /\ UNCHANGED <<now, reg, before>>
    BY <1>5 DEF gettime
  <2>2. ClockType'
    BY <1>1, <2>1 DEF ClockType
  <2>3. ReadsAreFresh'
    BY <1>1, <1>2, <2>1 DEF ReadsAreFresh
  <2>4. Ticks(took') = 0 /\ Ticks(before') = Ticks(before)
    BY <2>1, SecondIsPositive DEF Ticks, NoInterval
  <2>5. TimeIsRight'
    BY <1>1, <2>1, <2>4, SecondIsPositive DEF TimeIsRight, NoInterval
  <2> QED
    BY <1>1, <2>1, <2>2, <2>3, <2>5 DEF ClockInv
<1>6. CASE ReadSecs1
  <2>1. /\ gpc = "secs1" /\ gpc' = "nsecs" /\ reg' = [reg EXCEPT !.secs1 = now \div Second]
        /\ UNCHANGED <<now, asked, before, took>>
    BY <1>6 DEF ReadSecs1, SEC
  <2>2. now \div Second \in Nat
    BY <1>2, DivMod
  <2>3. ClockType'
    BY <1>1, <2>1, <2>2 DEF ClockType
  <2>4. reg'.secs1 = now \div Second
    BY <1>1, <2>1 DEF ClockType
  <2>5. asked <= now /\ now <= asked + Latency /\ before.to <= asked
    BY <1>1, <2>1 DEF ReadsAreFresh
  <2>6. now \in asked .. now
    BY <1>2, <2>5
  <2>7. ReadsAreFresh'
    BY <2>1, <2>4, <2>5, <2>6 DEF ReadsAreFresh
  <2> QED
    BY <1>1, <1>3, <2>1, <2>3, <2>7 DEF ClockInv
<1>7. CASE ReadNsecs
  <2>1. /\ gpc = "nsecs" /\ gpc' = "secs2" /\ reg' = [reg EXCEPT !.nsecs = now % Second]
        /\ UNCHANGED <<now, asked, before, took>>
    BY <1>7 DEF ReadNsecs, NSEC
  <2>2. now % Second \in Nat
    BY <1>2, DivMod
  <2>3. ClockType'
    BY <1>1, <2>1, <2>2 DEF ClockType
  <2>4. reg'.secs1 = reg.secs1 /\ reg'.nsecs = now % Second
    BY <1>1, <2>1 DEF ClockType
  <2>5. asked <= now /\ now <= asked + Latency /\ before.to <= asked
    BY <1>1, <2>1 DEF ReadsAreFresh
  <2>6. PICK t \in asked .. now : reg.secs1 = t \div Second
    BY <1>1, <2>1 DEF ReadsAreFresh
  <2>7. now \in asked .. now /\ t <= now
    BY <1>2, <2>5
  <2>8. \E v, w \in asked .. now : v <= w /\ reg'.secs1 = v \div Second /\ reg'.nsecs = w % Second
    BY <2>4, <2>6, <2>7
  <2>9. ReadsAreFresh'
    BY <2>1, <2>5, <2>8 DEF ReadsAreFresh
  <2> QED
    BY <1>1, <1>3, <2>1, <2>3, <2>9 DEF ClockInv
<1>8. CASE ReadSecs2
  <2> DEFINE answer == [secs |-> SecsOf, nsecs |-> reg.nsecs, from |-> asked, to |-> now,
                        some |-> TRUE]
             i == getinterval(before, answer)
  <2>1. /\ gpc = "secs2" /\ gpc' = "idle" /\ reg' = NoReads /\ asked' = 0
        /\ before' = answer /\ now' = now
        /\ took' = IF before.some
                   THEN [secs |-> i.secs, nsecs |-> i.nsecs,
                         least |-> asked - before.to, most |-> now - before.from]
                   ELSE took
    BY <1>8 DEF ReadSecs2
  <2>2. /\ SecsOf \in Nat /\ reg.nsecs \in Nat /\ reg.nsecs < Second
        /\ SecsOf * Second + reg.nsecs \in asked .. now
    BY <2>1, AnswerIsRight
  <2>3. ClockType'
    BY <1>2, <2>1, <2>2 DEF ClockType, NoReads
  <2>4. ReadsAreFresh' /\ before'.to <= now' /\ before'.nsecs < Second
    BY <1>2, <2>1, <2>2 DEF ReadsAreFresh
  <2>5. Ticks(answer) \in asked .. now
    BY <2>2 DEF Ticks
  <2>6. before'.from <= Ticks(before') /\ Ticks(before') <= before'.to
    BY <1>2, <2>1, <2>5
  <2>7. took'.nsecs < Second /\ took'.least <= Ticks(took') /\ Ticks(took') <= took'.most
    <3>1. CASE ~before.some
      BY <1>1, <2>1, <3>1 DEF TimeIsRight
    <3>2. CASE before.some
      <4>1. i.nsecs < Second /\ Ticks(i) = Ticks(answer) - Ticks(before)
        <5>1. /\ before.secs \in Nat /\ before.nsecs \in Nat /\ before.nsecs < Second
              /\ answer.secs \in Nat /\ answer.nsecs \in Nat /\ answer.nsecs < Second
          BY <1>1, <2>2 DEF ClockType
        <5> HIDE DEF answer
        <5> QED
          BY <5>1, IntervalIsRight
      <4>2. /\ took'.nsecs = i.nsecs /\ Ticks(took') = Ticks(i)
            /\ took'.least = asked - before.to /\ took'.most = now - before.from
        BY <2>1, <3>2 DEF Ticks
      <4>3. /\ before.from \in Nat /\ before.from <= Ticks(before) /\ Ticks(before) <= before.to
            /\ Ticks(before) \in Nat
        BY <1>1, SecondIsPositive DEF ClockType, TimeIsRight, Ticks
      <4> HIDE DEF answer, i
      <4> QED
        BY <1>2, <2>5, <4>1, <4>2, <4>3
    <3> QED
      BY <3>1, <3>2
  <2>8. TimeIsRight'
    BY <2>6, <2>7 DEF TimeIsRight
  <2> QED
    BY <2>3, <2>4, <2>8 DEF ClockInv
<1>9. CASE UNCHANGED clockVars
  BY <1>1, <1>3, <1>9 DEF clockVars, ClockInv, ClockType, ReadsAreFresh
<1> QED
  BY <1>4, <1>5, <1>6, <1>7, <1>8, <1>9 DEF clockNext

\* gettime answers a time the clock had during the call, though ltimer_gettime reads
\* seconds and nanoseconds apart, and getinterval subtracts two of them rightly, for
\* every length of a second and every latency that is below the threshold of the
\* code and leaves room for it in a second.
THEOREM ClockIsRight == clockSpec => []TimeIsRight
<1>1. clockInit => ClockInv
  BY ClockInit
<1>2. ClockInv /\ [clockNext]_clockVars => ClockInv'
  BY ClockSteps
<1>3. ClockInv => TimeIsRight
  BY DEF ClockInv
<1> QED
  BY <1>1, <1>2, <1>3, PTL DEF clockSpec

-----------------------------------------------------------------------------
(* The parallel grep *)

GrepType ==
  /\ handles \in Seq(GFile)
  /\ search \in [GFile -> {"none", "running", "found", "done"}]
  /\ contains \in [GFile -> BOOLEAN]
  /\ nfiles \in Nat /\ nfiles <= MaxFiles
  /\ result \in Seq(GFile)
  /\ rfFail \in BOOLEAN /\ rfOpen \in BOOLEAN
  /\ status \in {"walking", "ok", "error", "badfile", "terminated"}

\* The table: no handle twice, of files that were met only, and all that still run
\* while main walks.
HandlesInv ==
  /\ Len(handles) <= maxSize
  /\ \A h, k \in 1 .. Len(handles) : handles[h] = handles[k] => h = k
  /\ \A h \in 1 .. Len(handles) : handles[h] <= nfiles
  /\ Walking => \A f \in GFile : search[f] \in {"running", "found"} =>
                  \E h \in 1 .. Len(handles) : handles[h] = f

Written(f) == \E i \in 1 .. Len(result) : result[i] = f

\* The result file: what it has was found, once, and nothing is missing while it is open
\* and no write has failed.
ResultInv ==
  /\ \A f \in GFile : search[f] = "none" <=> f > nfiles
  /\ \A f \in GFile : search[f] = "found" => contains[f]
  /\ \A i \in 1 .. Len(result) : contains[result[i]] /\ search[result[i]] = "done"
  /\ \A i, j \in 1 .. Len(result) : result[i] = result[j] => i = j
  /\ rfOpen /\ ~rfFail => \A f \in GFile : contains[f] /\ search[f] = "done" => Written(f)
  /\ Walking => rfOpen
  /\ status \in {"ok", "badfile"} => \A f \in GFile : search[f] \in {"none", "done"}
  /\ status = "ok" => \A f \in GFile : contains[f] /\ search[f] = "done" => Written(f)

GrepInv == GrepType /\ HandlesInv /\ ResultInv

\* The last handle takes the place of the one that is dropped.
LEMMA DropFacts ==
  ASSUME handles \in Seq(GFile), NEW h \in 1 .. Len(handles),
         \A j, k \in 1 .. Len(handles) : handles[j] = handles[k] => j = k
  PROVE  LET d == DropHandle(h) IN
         /\ d \in Seq(GFile) /\ Len(d) = Len(handles) - 1
         /\ \A j, k \in 1 .. Len(d) : d[j] = d[k] => j = k
         /\ \A k \in 1 .. Len(d) : \E j \in 1 .. Len(handles) : d[k] = handles[j]
         /\ \A j \in 1 .. Len(handles) : j # h => \E k \in 1 .. Len(d) : d[k] = handles[j]
<1> DEFINE d == DropHandle(h)
           n == Len(handles)
           e == [handles EXCEPT ![h] = Last(handles)]
<1>1. n \in Nat /\ n >= 1 /\ h \in 1 .. n
  OBVIOUS
<1>2. Last(handles) = handles[n] /\ handles[n] \in GFile
  BY <1>1 DEF Last
<1>3. e \in Seq(GFile) /\ Len(e) = n /\ \A k \in 1 .. n : e[k] = IF k = h THEN handles[n] ELSE handles[k]
  BY <1>2
<1>4. d = SubSeq(e, 1, n - 1)
  BY <1>3 DEF DropHandle, Front
<1> HIDE DEF d, e
<1>5. d \in Seq(GFile) /\ Len(d) = n - 1 /\ \A k \in 1 .. n - 1 : d[k] = e[k]
  BY <1>1, <1>3, <1>4
<1> HIDE DEF n
<1>6. \A k \in 1 .. n - 1 : d[k] = IF k = h THEN handles[n] ELSE handles[k]
  BY <1>1, <1>3, <1>5
<1>7. \A j, k \in 1 .. n : handles[j] = handles[k] => j = k
  BY DEF n
<1>8. \A j, k \in 1 .. n - 1 : d[j] = d[k] => j = k
  BY <1>1, <1>6, <1>7
<1>9. \A k \in 1 .. n - 1 : \E j \in 1 .. n : d[k] = handles[j]
  BY <1>1, <1>6
<1>10. ASSUME NEW j \in 1 .. n, j # h PROVE \E k \in 1 .. n - 1 : d[k] = handles[j]
  <2>1. CASE j = n
    <3>1. h \in 1 .. n - 1 /\ d[h] = handles[j]
      BY <1>1, <1>6, <1>10, <2>1
    <3> QED
      BY <3>1
  <2>2. CASE j # n
    <3>1. j \in 1 .. n - 1 /\ d[j] = handles[j]
      BY <1>1, <1>6, <1>10, <2>2
    <3> QED
      BY <3>1
  <2> QED
    BY <2>1, <2>2
<1> QED
  BY <1>5, <1>8, <1>9, <1>10 DEF d, n

\* What addSearch keeps of the table: the handles of all threads that still run.
LEMMA RoomFacts ==
  ASSUME handles \in Seq(GFile), Len(handles) <= maxSize,
         \A j, k \in 1 .. Len(handles) : handles[j] = handles[k] => j = k,
         Len(handles) = maxSize => \E h \in DOMAIN handles : Finished(handles[h])
  PROVE  LET d == RoomFor IN
         /\ d \in Seq(GFile) /\ Len(d) < maxSize
         /\ \A j, k \in 1 .. Len(d) : d[j] = d[k] => j = k
         /\ \A k \in 1 .. Len(d) : \E j \in 1 .. Len(handles) : d[k] = handles[j]
         /\ \A j \in 1 .. Len(handles) : ~Finished(handles[j]) => \E k \in 1 .. Len(d) : d[k] = handles[j]
<1>1. maxSize \in Nat
  BY GrepAssumption
<1>2. CASE Len(handles) < maxSize
  BY <1>2 DEF RoomFor
<1>3. CASE ~(Len(handles) < maxSize)
  <2> DEFINE S == {h \in DOMAIN handles : Finished(handles[h])}
             First(h) == Finished(handles[h]) /\ \A k \in 1 .. h - 1 : ~Finished(handles[k])
             c == CHOOSE h \in DOMAIN handles : First(h)
  <2>1. Len(handles) = maxSize /\ DOMAIN handles = 1 .. Len(handles) /\ Len(handles) \in Nat
    BY <1>1, <1>3
  <2>2. S \in SUBSET Nat /\ S # {}
    BY <2>1
  <2>3. PICK m \in S : \A k \in S : m <= k
    <3> HIDE DEF S
    <3> QED
      BY <2>2, LeastOfNats
  <2>4. m \in DOMAIN handles /\ First(m)
    <3>1. m \in 1 .. Len(handles) /\ Finished(handles[m])
      BY <2>1
    <3>2. ASSUME NEW k \in 1 .. m - 1, Finished(handles[k]) PROVE FALSE
      <4>1. k \in 1 .. Len(handles) /\ k < m
        BY <2>1, <3>1
      <4>2. k \in S
        BY <2>1, <3>2, <4>1
      <4> QED
        BY <2>3, <3>1, <4>1, <4>2
    <3> QED
      BY <2>1, <3>1, <3>2
  <2>5. c \in DOMAIN handles /\ First(c)
    <3> HIDE DEF First
    <3> QED
      BY <2>4
  <2>6. RoomFor = DropHandle(c)
    BY <1>3 DEF RoomFor
  <2>7. c \in 1 .. Len(handles) /\ Finished(handles[c])
    BY <2>1, <2>5
  <2> HIDE DEF c, S
  <2> DEFINE d == DropHandle(c)
  <2>8. /\ d \in Seq(GFile) /\ Len(d) = Len(handles) - 1
        /\ \A j, k \in 1 .. Len(d) : d[j] = d[k] => j = k
        /\ \A k \in 1 .. Len(d) : \E j \in 1 .. Len(handles) : d[k] = handles[j]
        /\ \A j \in 1 .. Len(handles) : j # c => \E k \in 1 .. Len(d) : d[k] = handles[j]
    BY <2>7, DropFacts
  <2> HIDE DEF d
  <2>9. Len(d) < maxSize
    BY <1>1, <2>1, <2>8
  <2>10. \A j \in 1 .. Len(handles) : ~Finished(handles[j]) => j # c
    BY <2>7
  <2>11. RoomFor = d
    BY <2>6 DEF d
  <2> QED
    BY <2>8, <2>9, <2>10, <2>11
<1> QED
  BY <1>2, <1>3

LEMMA GrepInit == grepInit => GrepInv
<1> SUFFICES ASSUME grepInit PROVE GrepInv
  OBVIOUS
<1>1. /\ handles = <<>> /\ result = <<>> /\ nfiles = 0 /\ rfFail = FALSE /\ rfOpen = TRUE /\ status = "walking"
      /\ search = [f \in GFile |-> "none"] /\ contains \in [GFile -> BOOLEAN]
      /\ maxSize \in Nat /\ MaxFiles \in Nat
  BY GrepAssumption DEF grepInit
<1>2. search \in [GFile -> {"none", "running", "found", "done"}]
  BY <1>1
<1>7. rfFail \in BOOLEAN /\ rfOpen \in BOOLEAN
  BY <1>1, Zenon
<1>3. GrepType
  BY <1>1, <1>2, <1>7 DEF GrepType
<1>4. HandlesInv
  BY <1>1 DEF HandlesInv
<1>5. \A f \in GFile : search[f] = "none" /\ f > nfiles
  BY <1>1 DEF GFile
<1>6. ResultInv
  BY <1>1, <1>5 DEF ResultInv
<1> QED
  BY <1>3, <1>4, <1>6 DEF GrepInv

LEMMA addSearchStep ==
  ASSUME GrepInv, addSearch
  PROVE  GrepInv'
<1> DEFINE d == RoomFor
           f == nfiles + 1
<1>1. /\ Walking /\ nfiles < MaxFiles
      /\ Len(handles) = maxSize => \E h \in DOMAIN handles : Finished(handles[h])
      /\ nfiles' = f /\ handles' = Append(d, f) /\ search' = [search EXCEPT ![f] = "running"]
      /\ UNCHANGED <<contains, gdepth, result, rfFail, rfOpen, status>>
  BY DEF addSearch
<1>2. /\ GrepType /\ HandlesInv /\ ResultInv /\ MaxFiles \in Nat /\ maxSize \in Nat
      /\ nfiles \in Nat
  BY GrepAssumption DEF GrepInv, GrepType
<1>3. f \in GFile /\ f \in Nat
  BY <1>1, <1>2 DEF GFile
<1>4. /\ d \in Seq(GFile) /\ Len(d) < maxSize
      /\ \A j, k \in 1 .. Len(d) : d[j] = d[k] => j = k
      /\ \A k \in 1 .. Len(d) : \E j \in 1 .. Len(handles) : d[k] = handles[j]
      /\ \A j \in 1 .. Len(handles) : ~Finished(handles[j]) => \E k \in 1 .. Len(d) : d[k] = handles[j]
  BY <1>1, <1>2, RoomFacts DEF GrepType, HandlesInv
<1> HIDE DEF d, f
<1>5. /\ handles' \in Seq(GFile) /\ Len(handles') = Len(d) + 1 /\ handles'[Len(d) + 1] = f
      /\ \A k \in 1 .. Len(d) : handles'[k] = d[k]
  BY <1>1, <1>3, <1>4
<1>6. search' \in [GFile -> {"none", "running", "found", "done"}]
  BY <1>1, <1>2, <1>3 DEF GrepType
<1>7. GrepType'
  BY <1>1, <1>2, <1>3, <1>5, <1>6 DEF GrepType, f
<1>8. ASSUME NEW k \in 1 .. Len(d) PROVE d[k] \in Nat /\ d[k] <= nfiles
  <2>1. PICK j \in 1 .. Len(handles) : d[k] = handles[j]
    BY <1>4
  <2>2. handles[j] \in GFile /\ handles[j] <= nfiles
    BY <1>2 DEF HandlesInv, GrepType
  <2> QED
    BY <2>1, <2>2 DEF GFile
<1>9. HandlesInv'
  <2>1. Len(handles') <= maxSize
    BY <1>2, <1>4, <1>5
  <2>2. ASSUME NEW h \in 1 .. Len(handles'), NEW k \in 1 .. Len(handles'), handles'[h] = handles'[k]
        PROVE  h = k
    <3>1. (h \in 1 .. Len(d) \/ h = Len(d) + 1) /\ (k \in 1 .. Len(d) \/ k = Len(d) + 1)
      BY <1>4, <1>5
    <3>2. \A j \in 1 .. Len(d) : d[j] # f
      BY <1>2, <1>8 DEF f
    <3> QED
      BY <1>4, <1>5, <2>2, <3>1, <3>2
  <2>3. \A h \in 1 .. Len(handles') : handles'[h] <= nfiles'
    <3>1. ASSUME NEW h \in 1 .. Len(handles') PROVE handles'[h] <= nfiles'
      <4>1. h \in 1 .. Len(d) \/ h = Len(d) + 1
        BY <1>4, <1>5
      <4> QED
        BY <1>1, <1>2, <1>3, <1>5, <1>8, <4>1 DEF f
    <3> QED
      BY <3>1
  <2>4. ASSUME NEW g \in GFile, search'[g] \in {"running", "found"}
        PROVE  \E h \in 1 .. Len(handles') : handles'[h] = g
    <3>1. CASE g = f
      BY <1>4, <1>5, <3>1
    <3>2. CASE g # f
      <4>1. search[g] \in {"running", "found"}
        BY <1>1, <1>2, <2>4, <3>2 DEF GrepType
      <4>2. PICK j \in 1 .. Len(handles) : handles[j] = g
        BY <1>1, <1>2, <4>1 DEF HandlesInv
      <4>3. ~Finished(handles[j])
        BY <4>1, <4>2 DEF Finished
      <4>4. PICK k \in 1 .. Len(d) : d[k] = g
        BY <1>4, <4>2, <4>3
      <4> QED
        BY <1>4, <1>5, <4>4
    <3> QED
      BY <3>1, <3>2
  <2> QED
    BY <2>1, <2>2, <2>3, <2>4 DEF HandlesInv
<1>10. ResultInv'
  <2>1. \A g \in GFile : search'[g] = IF g = f THEN "running" ELSE search[g]
    BY <1>1, <1>2 DEF GrepType
  <2>2. search[f] = "none"
    BY <1>2, <1>3 DEF ResultInv, f
  <2>3. \A g \in GFile : search'[g] = "none" <=> g > nfiles'
    BY <1>1, <1>2, <2>1 DEF ResultInv, GFile, f
  <2>4. \A i \in 1 .. Len(result) : result[i] # f /\ result[i] \in GFile
    BY <1>2, <2>2 DEF ResultInv, GrepType
  <2> QED
    BY <1>1, <1>2, <2>1, <2>2, <2>3, <2>4 DEF ResultInv, Written, Walking
<1> QED
  BY <1>7, <1>9, <1>10 DEF GrepInv

\* main goes on, or ends: the result file is closed when nobody runs, or after an error.
LEMMA mainStep ==
  ASSUME GrepInv, EnterDirectory \/ EndDirectory \/ EndEmpty \/ WalkFails
  PROVE  GrepInv'
<1>1. /\ Walking /\ UNCHANGED <<search, contains, nfiles, result, rfFail>>
      /\ \/ UNCHANGED <<handles, rfOpen, status>>
         \/ handles' = <<>> /\ rfOpen' = FALSE /\ status' = Verdict /\ AllFinished
         \/ UNCHANGED <<handles, rfOpen>> /\ status' = "terminated"
         \/ handles' = <<>> /\ rfOpen' = FALSE /\ status' = "error"
  BY DEF EnterDirectory, EndDirectory, EndEmpty, WalkFails, Destroy
<1>7. Verdict \in {"ok", "badfile"} /\ (Verdict = "ok" => ~rfFail)
  BY DEF Verdict
<1>2. GrepType /\ HandlesInv /\ ResultInv /\ maxSize \in Nat /\ rfOpen
  BY <1>1, GrepAssumption DEF GrepInv, ResultInv
<1>3. GrepType'
  <2>1. handles' \in Seq(GFile)
    <3>1. handles' = handles \/ handles' = <<>>
      BY <1>1
    <3>2. handles \in Seq(GFile) /\ <<>> \in Seq(GFile)
      BY <1>2 DEF GrepType
    <3> QED
      BY <3>1, <3>2, Zenon
  <2>2. rfOpen' = rfOpen \/ rfOpen' = FALSE
    BY <1>1
  <2>3. rfOpen' \in BOOLEAN
    BY <1>2, <2>2, Zenon DEF GrepType
  <2>4. status' \in {"walking", "ok", "error", "badfile", "terminated"}
    BY <1>1, <1>2, <1>7 DEF GrepType
  <2> QED
    BY <1>1, <1>2, <2>1, <2>3, <2>4 DEF GrepType
<1>4. HandlesInv'
  <2>1. CASE UNCHANGED handles
    BY <1>1, <1>2, <2>1 DEF HandlesInv, Walking
  <2>2. CASE handles' = <<>> /\ ~Walking'
    BY <1>1, <1>2, <2>2 DEF HandlesInv
  <2> QED
    BY <1>1, <1>7, <2>1, <2>2 DEF Walking
<1>5. AllFinished => \A f \in GFile : search[f] \in {"none", "done"}
  <2> SUFFICES ASSUME AllFinished, NEW f \in GFile PROVE search[f] \in {"none", "done"}
    OBVIOUS
  <2>1. ASSUME search[f] \in {"running", "found"} PROVE FALSE
    <3>1. PICK h \in 1 .. Len(handles) : handles[h] = f
      BY <1>1, <1>2, <2>1 DEF HandlesInv
    <3>2. Finished(f)
      BY <1>2, <3>1 DEF AllFinished, GrepType
    <3> QED
      BY <2>1, <3>2 DEF Finished
  <2> QED
    BY <1>2, <2>1 DEF GrepType
<1>6. ResultInv'
  BY <1>1, <1>2, <1>5, <1>7 DEF ResultInv, Walking, Written
<1> QED
  BY <1>3, <1>4, <1>6 DEF GrepInv

LEMMA ReadsStep ==
  ASSUME GrepInv, NEW f \in GFile, Reads(f)
  PROVE  GrepInv'
<1> DEFINE s == IF contains[f] THEN "found" ELSE "done"
<1>1. /\ search[f] = "running" /\ search' = [search EXCEPT ![f] = s]
      /\ UNCHANGED <<handles, contains, nfiles, gdepth, result, rfFail, rfOpen, status>>
  BY DEF Reads
<1>2. s \in {"found", "done"} /\ (s = "found" <=> contains[f])
  OBVIOUS
<1> HIDE DEF s
<1>3. GrepType /\ HandlesInv /\ ResultInv
  BY DEF GrepInv
<1>4. search' \in [GFile -> {"none", "running", "found", "done"}]
  BY <1>1, <1>2, <1>3 DEF GrepType
<1>5. GrepType'
  BY <1>1, <1>3, <1>4 DEF GrepType
<1>6. \A g \in GFile : search'[g] = IF g = f THEN s ELSE search[g]
  BY <1>1, <1>3 DEF GrepType
<1>7. HandlesInv'
  BY <1>1, <1>3, <1>6 DEF HandlesInv, Walking
<1>8. ResultInv'
  <2>1. \A i \in 1 .. Len(result) : result[i] # f /\ result[i] \in GFile
    BY <1>1, <1>3 DEF ResultInv, GrepType
  <2>2. \A g \in GFile : search'[g] = "none" <=> search[g] = "none"
    BY <1>1, <1>2, <1>6
  <2>3. status \notin {"ok", "badfile"}
    BY <1>1, <1>3 DEF ResultInv
  <2> QED
    BY <1>1, <1>2, <1>3, <1>6, <2>1, <2>2, <2>3 DEF ResultInv, Walking, Written
<1> QED
  BY <1>5, <1>7, <1>8 DEF GrepInv

LEMMA syncWriteLineStep ==
  ASSUME GrepInv, NEW f \in GFile, syncWriteLine(f)
  PROVE  GrepInv'
<1>1. /\ search[f] = "found" /\ search' = [search EXCEPT ![f] = "done"]
      /\ \/ result' = Append(result, f) /\ rfFail' \in BOOLEAN /\ ~rfFail
         \/ result' = result /\ rfFail' = TRUE
         \/ result' = result /\ rfFail' = rfFail /\ ~rfOpen
      /\ UNCHANGED <<handles, contains, nfiles, gdepth, rfOpen, status>>
  BY DEF syncWriteLine
<1>2. GrepType /\ HandlesInv /\ ResultInv
  BY DEF GrepInv
<1>3. search' \in [GFile -> {"none", "running", "found", "done"}]
  BY <1>1, <1>2 DEF GrepType
<1>4. result' \in Seq(GFile)
  <2>1. result' = Append(result, f) \/ result' = result
    BY <1>1
  <2>2. result \in Seq(GFile) /\ Append(result, f) \in Seq(GFile)
    BY <1>2 DEF GrepType
  <2> QED
    BY <2>1, <2>2, Zenon
<1>12. rfFail' \in BOOLEAN
  <2>1. rfFail' \in BOOLEAN \/ rfFail' = TRUE \/ rfFail' = rfFail
    BY <1>1
  <2>2. rfFail \in BOOLEAN
    BY <1>2 DEF GrepType
  <2> QED
    BY <2>1, <2>2, Zenon
<1>5. GrepType'
  BY <1>1, <1>2, <1>3, <1>4, <1>12 DEF GrepType
<1>6. \A g \in GFile : search'[g] = IF g = f THEN "done" ELSE search[g]
  BY <1>1, <1>2 DEF GrepType
<1>7. HandlesInv'
  BY <1>1, <1>2, <1>6 DEF HandlesInv, Walking
<1>8. \A i \in 1 .. Len(result) : result[i] # f /\ result[i] \in GFile
  BY <1>1, <1>2 DEF ResultInv, GrepType
<1>9. status \notin {"ok", "badfile"} /\ contains[f]
  BY <1>1, <1>2 DEF ResultInv
<1>10. /\ \A i \in 1 .. Len(result') : contains[result'[i]] /\ search'[result'[i]] = "done"
       /\ \A i, j \in 1 .. Len(result') : result'[i] = result'[j] => i = j
       /\ rfOpen /\ ~rfFail' => \A g \in GFile : contains[g] /\ search'[g] = "done" => Written(g)'
  <2>1. CASE result' = Append(result, f) /\ ~rfFail
    <3>1. /\ Len(result') = Len(result) + 1 /\ Len(result) \in Nat /\ result'[Len(result) + 1] = f
          /\ \A i \in 1 .. Len(result) : result'[i] = result[i]
      BY <1>2, <2>1 DEF GrepType
    <3>2. \A i \in 1 .. Len(result') : i \in 1 .. Len(result) \/ i = Len(result) + 1
      BY <3>1
    <3>3. \A g : Written(g)' <=> Written(g) \/ g = f
      BY <3>1, <3>2 DEF Written
    <3>4. \A i \in 1 .. Len(result') : contains[result'[i]] /\ search'[result'[i]] = "done"
      BY <1>2, <1>6, <1>8, <1>9, <3>1, <3>2 DEF ResultInv
    <3>5. \A i, j \in 1 .. Len(result') : result'[i] = result'[j] => i = j
      BY <1>2, <1>8, <3>1, <3>2 DEF ResultInv
    <3>6. rfOpen => \A g \in GFile : contains[g] /\ search'[g] = "done" => Written(g)'
      BY <1>2, <1>6, <2>1, <3>3 DEF ResultInv
    <3> QED
      BY <3>4, <3>5, <3>6
  <2>2. CASE (rfFail' \/ ~rfOpen) /\ result' = result
    BY <1>2, <1>6, <1>8, <2>2 DEF ResultInv
  <2> QED
    BY <1>1, <2>1, <2>2
<1>11. ResultInv'
  BY <1>1, <1>2, <1>6, <1>9, <1>10 DEF ResultInv, Walking
<1> QED
  BY <1>5, <1>7, <1>11 DEF GrepInv

LEMMA GrepSteps == GrepInv /\ [grepNext]_grepVars => GrepInv'
<1> SUFFICES ASSUME GrepInv, [grepNext]_grepVars PROVE GrepInv'
  OBVIOUS
<1>1. CASE UNCHANGED grepVars
  BY <1>1 DEF grepVars, GrepInv, GrepType, HandlesInv, ResultInv, Walking, Written
<1> QED
  BY <1>1, addSearchStep, mainStep, ReadsStep, syncWriteLineStep DEF grepNext

\* The parallel grep misses nothing, for any number of files and any size of the pool:
\* whatever the order in which threads end and addSearch drops their handles, the
\* table has all that run, so waitForSearchCompletion waits for every thread, and any
\* of their writes may fail: when the program says it has finished, the result file has
\* every file with the text, and it never has a line twice or a file without the text.
THEOREM GrepMissesNothing == grepSpec => []GrepIsComplete
<1>1. grepInit => GrepInv
  BY GrepInit
<1>2. GrepInv /\ [grepNext]_grepVars => GrepInv'
  BY GrepSteps
<1>3. GrepInv => GrepIsComplete
  <2> SUFFICES ASSUME GrepInv PROVE GrepIsComplete
    OBVIOUS
  <2>1. GrepType /\ HandlesInv /\ ResultInv
    BY DEF GrepInv
  <2>2. DOMAIN handles = 1 .. Len(handles) /\ DOMAIN result = 1 .. Len(result)
    BY <2>1 DEF GrepType
  <2>3. IsInjective(handles) /\ IsInjective(result) /\ Len(handles) <= maxSize
    BY <2>1, <2>2 DEF IsInjective, HandlesInv, ResultInv
  <2>4. Walking => \A f \in GFile : search[f] \in {"running", "found"} => f \in Range(handles)
    BY <2>1, <2>2 DEF Range, HandlesInv
  <2>5. /\ status \in {"ok", "badfile"} => \A f \in GFile : search[f] \in {"none", "done"}
        /\ \A i \in DOMAIN result : contains[result[i]]
    BY <2>1, <2>2 DEF ResultInv
  <2>6. ASSUME status = "ok"
        PROVE  {f \in 1 .. nfiles : contains[f]} \subseteq Range(result)
    <3>1. /\ \A f \in GFile : search[f] \in {"none", "done"}
          /\ \A f \in GFile : contains[f] /\ search[f] = "done" => Written(f)
      BY <2>1, <2>6 DEF ResultInv
    <3>2. \A f \in 1 .. nfiles : f \in GFile /\ search[f] = "done"
      BY <2>1, <3>1, GrepAssumption DEF ResultInv, GrepType, GFile
    <3>3. \A f : f \in Range(result) <=> Written(f)
      BY <2>2 DEF Range, Written
    <3> QED
      BY <3>1, <3>2, <3>3
  <2> QED
    BY <2>3, <2>4, <2>5, <2>6 DEF GrepIsComplete
<1> QED
  BY <1>1, <1>2, <1>3, PTL DEF grepSpec

-----------------------------------------------------------------------------
(* The blocking queue *)

QueuePlace == {"outside", "enter", "wait", "woken"}

\* While somebody of T sleeps, k of T are awakened.
Enough(pc, T, k) ==
  {t \in T : pc[t] = "wait"} # {} => Cardinality({t \in T : pc[t] = "woken"}) >= k

WakeInv ==
  /\ qpc \in [QThread -> QueuePlace]
  /\ open \in BOOLEAN
  /\ size \in Nat /\ size <= capacity
  /\ Enough(qpc, Consumer, size)
  /\ Enough(qpc, Producer, capacity - size)
  /\ ~open => Waiting(QThread) = {}

\* The ring: the values between out and in are those after the ones taken.
RingInv ==
  /\ queue \in [Place -> Nat]
  /\ in \in Place /\ out \in Place
  /\ size \in Nat /\ size <= capacity
  /\ inserted \in Nat
  /\ taken \in Seq(Nat)
  /\ inserted = Len(taken) + size
  /\ in = (out + size) % capacity
  /\ \A i \in 1 .. Len(taken) : taken[i] = i
  /\ \A i \in Nat : i < size => queue[(out + i) % capacity] = Len(taken) + i + 1

LEMMA QueueConstants ==
  /\ capacity \in Nat /\ capacity >= 1
  /\ IsFiniteSet(Consumer) /\ IsFiniteSet(Producer) /\ Consumer \cap Producer = {}
BY QueueAssumption

\* A thread of T leaves with the mutex, and wakes one of the others, U, up: one less is
\* awakened of its own, one more of the others.
LEMMA NotifyFacts ==
  ASSUME qpc \in [QThread -> QueuePlace],
         NEW T \in SUBSET QThread, NEW U \in SUBSET QThread, T \cap U = {},
         IsFiniteSet(T), IsFiniteSet(U),
         NEW t \in T, Entering(t), NEW q, NotifyOne(t, "outside", U, q),
         NEW n \in Int, NEW m \in Int, Enough(qpc, T, n), Enough(qpc, U, m)
  PROVE  q \in [QThread -> QueuePlace] /\ Enough(q, T, n - 1) /\ Enough(q, U, m + 1)
<1> DEFINE Wa(pc, S) == {u \in S : pc[u] = "wait"}
           Wo(pc, S) == {u \in S : pc[u] = "woken"}
<1>1. qpc[t] # "wait" /\ t \notin U /\ t \in QThread
  BY DEF Entering
<1>2. IsFiniteSet(Wo(qpc, T)) /\ IsFiniteSet(Wo(qpc, U))
  <2>1. Wo(qpc, T) \in SUBSET T /\ Wo(qpc, U) \in SUBSET U
    OBVIOUS
  <2> QED
    BY <2>1, FS_Subset
<1>3. Cardinality(Wo(qpc, T)) \in Nat /\ Cardinality(Wo(qpc, U)) \in Nat
  BY <1>2, FS_CardinalityType
<1>4. Cardinality(Wo(qpc, T) \ {t}) >= Cardinality(Wo(qpc, T)) - 1
  <2>1. Cardinality(Wo(qpc, T) \ {t}) \in {Cardinality(Wo(qpc, T)) - 1, Cardinality(Wo(qpc, T))}
    BY <1>2, FS_RemoveElement
  <2> QED
    BY <1>3, <2>1
<1>5. CASE Waiting(U) = {}
  <2>1. q = [qpc EXCEPT ![t] = "outside"]
    BY <1>5 DEF NotifyOne
  <2>2. q \in [QThread -> QueuePlace]
    BY <2>1 DEF QueuePlace
  <2>3. \A u \in QThread : q[u] = IF u = t THEN "outside" ELSE qpc[u]
    BY <2>1
  <2>4. Wa(q, T) = Wa(qpc, T) /\ Wo(q, T) = Wo(qpc, T) \ {t}
    BY <1>1, <2>3
  <2>5. Wa(q, U) = {}
    BY <1>1, <1>5, <2>3 DEF Waiting
  <2>6. Enough(q, T, n - 1)
    <3> SUFFICES ASSUME Wa(q, T) # {} PROVE Cardinality(Wo(q, T)) >= n - 1
      BY DEF Enough
    <3>1. Cardinality(Wo(qpc, T)) >= n
      BY <2>4 DEF Enough
    <3> DEFINE c == Cardinality(Wo(qpc, T))
               d == Cardinality(Wo(qpc, T) \ {t})
    <3>2. c \in Nat /\ d >= c - 1 /\ c >= n /\ d \in Int
      <4>1. d \in Nat
        BY <1>2, FS_RemoveElement, FS_CardinalityType
      <4> QED
        BY <1>3, <1>4, <3>1, <4>1
    <3>3. Cardinality(Wo(q, T)) = d
      BY <2>4
    <3> HIDE DEF c, d
    <3>4. d >= n - 1
      BY <3>2
    <3> QED
      BY <3>3, <3>4
  <2> QED
    BY <2>2, <2>5, <2>6 DEF Enough
<1>6. CASE Waiting(U) # {}
  <2>1. PICK w \in Waiting(U) : q = [qpc EXCEPT ![t] = "outside", ![w] = "woken"]
    BY <1>6 DEF NotifyOne
  <2>2. w \in U /\ w \in QThread /\ w \notin T /\ w # t /\ qpc[w] = "wait"
    BY <1>1 DEF Waiting
  <2>3. q \in [QThread -> QueuePlace]
    BY <2>1 DEF QueuePlace
  <2>4. \A u \in QThread : q[u] = IF u = w THEN "woken" ELSE IF u = t THEN "outside" ELSE qpc[u]
    BY <2>1, <2>2
  <2>5. Wa(q, T) = Wa(qpc, T) /\ Wo(q, T) = Wo(qpc, T) \ {t}
    BY <1>1, <2>2, <2>4
  <2>6. Wo(q, U) = Wo(qpc, U) \cup {w} /\ w \notin Wo(qpc, U) /\ Wa(qpc, U) # {}
    BY <1>1, <2>2, <2>4
  <2>7. Enough(q, T, n - 1)
    <3> SUFFICES ASSUME Wa(q, T) # {} PROVE Cardinality(Wo(q, T)) >= n - 1
      BY DEF Enough
    <3>1. Cardinality(Wo(qpc, T)) >= n
      BY <2>5 DEF Enough
    <3> DEFINE c == Cardinality(Wo(qpc, T))
               d == Cardinality(Wo(qpc, T) \ {t})
    <3>2. c \in Nat /\ d >= c - 1 /\ c >= n /\ d \in Int
      <4>1. d \in Nat
        BY <1>2, FS_RemoveElement, FS_CardinalityType
      <4> QED
        BY <1>3, <1>4, <3>1, <4>1
    <3>3. Cardinality(Wo(q, T)) = d
      BY <2>5
    <3> HIDE DEF c, d
    <3>4. d >= n - 1
      BY <3>2
    <3> QED
      BY <3>3, <3>4
  <2>8. Enough(q, U, m + 1)
    <3> DEFINE c == Cardinality(Wo(qpc, U))
    <3>1. c >= m
      BY <2>6 DEF Enough
    <3>2. Cardinality(Wo(q, U)) = c + 1
      <4> HIDE DEF Wo
      <4> QED
        BY <1>2, <2>6, FS_AddElement
    <3>3. c \in Nat
      BY <1>3
    <3> HIDE DEF c
    <3>4. c + 1 >= m + 1
      BY <3>1, <3>3
    <3> QED
      BY <3>2, <3>4 DEF Enough
  <2> QED
    BY <2>3, <2>7, <2>8
<1> QED
  BY <1>5, <1>6

\* Threads that neither sleep nor are awakened do not matter.
LEMMA EnoughElsewhere ==
  ASSUME NEW pc, NEW q, NEW T, NEW k, Enough(pc, T, k),
         \A u \in T : (q[u] = "wait" <=> pc[u] = "wait") /\ (q[u] = "woken" <=> pc[u] = "woken")
  PROVE  Enough(q, T, k)
<1>1. /\ {u \in T : q[u] = "wait"} = {u \in T : pc[u] = "wait"}
      /\ {u \in T : q[u] = "woken"} = {u \in T : pc[u] = "woken"}
  OBVIOUS
<1> QED
  BY <1>1 DEF Enough

LEMMA NoneIsEnough ==
  ASSUME NEW q, NEW T, IsFiniteSet(T)
  PROVE  Enough(q, T, 0)
<1>1. {u \in T : q[u] = "woken"} \in SUBSET T
  OBVIOUS
<1>2. Cardinality({u \in T : q[u] = "woken"}) \in Nat
  BY <1>1, FS_Subset, FS_CardinalityType
<1> QED
  BY <1>2 DEF Enough

LEMMA SleeperWakes ==
  ASSUME qpc \in [QThread -> QueuePlace], NEW w \in QThread, qpc[w] = "wait",
         NEW T \in SUBSET QThread, IsFiniteSet(T), NEW k \in Int, Enough(qpc, T, k)
  PROVE  Enough([qpc EXCEPT ![w] = "woken"], T, k)
<1> DEFINE q == [qpc EXCEPT ![w] = "woken"]
           Wo(pc) == {u \in T : pc[u] = "woken"}
<1>1. \A u \in QThread : q[u] = IF u = w THEN "woken" ELSE qpc[u]
  OBVIOUS
<1> HIDE DEF q
<1>2. Wo(qpc) \in SUBSET Wo(q) /\ Wo(q) \in SUBSET T
  BY <1>1
<1>3. IsFiniteSet(Wo(q)) /\ IsFiniteSet(Wo(qpc))
  BY <1>2, FS_Subset
<1>4. Cardinality(Wo(qpc)) <= Cardinality(Wo(q)) /\ Cardinality(Wo(q)) \in Nat /\ Cardinality(Wo(qpc)) \in Nat
  <2> HIDE DEF Wo
  <2> QED
    BY <1>2, <1>3, FS_Subset, FS_CardinalityType
<1>5. ASSUME {u \in T : q[u] = "wait"} # {} PROVE Cardinality(Wo(q)) >= k
  <2>1. {u \in T : qpc[u] = "wait"} # {}
    BY <1>1, <1>5
  <2>2. Cardinality(Wo(qpc)) >= k
    BY <2>1 DEF Enough
  <2> DEFINE c == Cardinality(Wo(qpc))
             d == Cardinality(Wo(q))
  <2>3. c <= d /\ c \in Nat /\ d \in Nat /\ c >= k
    BY <1>4, <2>2
  <2> HIDE DEF c, d
  <2>4. d >= k
    BY <2>3
  <2> QED
    BY <2>4 DEF d
<1>6. Enough(q, T, k)
  BY <1>5 DEF Enough
<1> QED
  BY <1>6 DEF q

LEMMA WakeInit == queueInit => WakeInv
<1> SUFFICES ASSUME queueInit PROVE WakeInv
  OBVIOUS
<1>1. qpc \in [QThread -> QueuePlace] /\ open = TRUE /\ size = 0 /\ \A t \in QThread : qpc[t] = "outside"
  BY DEF queueInit, QueuePlace
<1>2. {t \in Consumer : qpc[t] = "wait"} = {} /\ {t \in Producer : qpc[t] = "wait"} = {}
  BY <1>1 DEF QThread
<1>3. Enough(qpc, Consumer, size) /\ Enough(qpc, Producer, capacity - size)
  BY <1>2 DEF Enough
<1> QED
  BY <1>1, <1>3, QueueConstants DEF WakeInv

LEMMA WakeSteps == WakeInv /\ [queueNext]_queueVars => WakeInv'
<1> SUFFICES ASSUME WakeInv, [queueNext]_queueVars PROVE WakeInv'
  OBVIOUS
<1>1. /\ qpc \in [QThread -> QueuePlace] /\ open \in BOOLEAN /\ size \in Nat /\ size <= capacity
      /\ Enough(qpc, Consumer, size) /\ Enough(qpc, Producer, capacity - size)
      /\ ~open => Waiting(QThread) = {}
  BY DEF WakeInv
<1>2. Consumer \in SUBSET QThread /\ Producer \in SUBSET QThread
  BY DEF QThread
<1>3. capacity - size \in Int /\ capacity - size + 1 = capacity - (size - 1)
      /\ capacity - size - 1 = capacity - (size + 1)
  BY <1>1, QueueConstants
<1>4. ASSUME NEW t \in QThread, qpc[t] = "outside", qpc' = [qpc EXCEPT ![t] = "enter"],
             UNCHANGED <<size, open>>
      PROVE  WakeInv'
  <2>1. qpc' \in [QThread -> QueuePlace]
    BY <1>1, <1>4 DEF QueuePlace
  <2>2. \A u \in QThread : /\ qpc'[u] = "wait" <=> qpc[u] = "wait"
                           /\ qpc'[u] = "woken" <=> qpc[u] = "woken"
    BY <1>1, <1>4
  <2>3. Enough(qpc', Consumer, size) /\ Enough(qpc', Producer, capacity - size)
    BY <1>1, <1>2, <2>2, EnoughElsewhere
  <2>4. ~open => Waiting(QThread)' = {}
    BY <1>1, <2>2 DEF Waiting
  <2> QED
    BY <1>1, <1>4, <2>1, <2>3, <2>4 DEF WakeInv
<1>5. ASSUME NEW T \in SUBSET QThread, NEW U \in SUBSET QThread, T \cap U = {},
             IsFiniteSet(T), IsFiniteSet(U), NEW k, Enough(qpc, U, k),
             NEW t \in T, Entering(t), qpc' = [qpc EXCEPT ![t] = "wait"]
      PROVE  qpc' \in [QThread -> QueuePlace] /\ Enough(qpc', T, 0) /\ Enough(qpc', U, k)
  <2>1. qpc' \in [QThread -> QueuePlace]
    BY <1>1, <1>5 DEF QueuePlace
  <2>2. \A u \in U : qpc'[u] = qpc[u]
    BY <1>1, <1>5
  <2>3. Enough(qpc', U, k)
    BY <1>5, <2>2, EnoughElsewhere
  <2>4. Enough(qpc', T, 0)
    BY <1>5, NoneIsEnough
  <2> QED
    BY <2>1, <2>3, <2>4
<1>6. ASSUME NEW t \in QThread, ~open, qpc' = [qpc EXCEPT ![t] = "outside"], UNCHANGED <<size, open>>
      PROVE  WakeInv'
  <2>1. qpc' \in [QThread -> QueuePlace] /\ Waiting(QThread)' = {}
    BY <1>1, <1>6 DEF QueuePlace, Waiting
  <2>2. {u \in Consumer : qpc'[u] = "wait"} = {} /\ {u \in Producer : qpc'[u] = "wait"} = {}
    BY <1>2, <2>1 DEF Waiting
  <2> QED
    BY <1>1, <1>6, <2>1, <2>2 DEF WakeInv, Enough
<1>7. ASSUME NEW t \in Consumer, preleva(t) PROVE WakeInv'
  <2>1. Entering(t) /\ open' = open
    BY <1>7 DEF preleva
  <2>2. CASE open /\ size = 0 /\ qpc' = [qpc EXCEPT ![t] = "wait"] /\ size' = size
    <3>1. /\ qpc' \in [QThread -> QueuePlace] /\ Enough(qpc', Consumer, 0)
          /\ Enough(qpc', Producer, capacity - size)
      BY <1>1, <1>2, <1>5, <2>1, <2>2, QueueConstants
    <3> QED
      BY <1>1, <2>1, <2>2, <3>1 DEF WakeInv
  <2>3. CASE ~open /\ qpc' = [qpc EXCEPT ![t] = "outside"] /\ size' = size
    BY <1>2, <1>6, <2>1, <2>3
  <2>4. CASE open /\ size # 0 /\ size' = size - 1 /\ NotifyOne(t, "outside", Producer, qpc')
    <3>1. /\ qpc' \in [QThread -> QueuePlace] /\ Enough(qpc', Consumer, size - 1)
          /\ Enough(qpc', Producer, capacity - size + 1)
      BY <1>1, <1>2, <1>3, <2>1, <2>4, NotifyFacts, QueueConstants
    <3>2. size' \in Nat /\ size' <= capacity
      BY <1>1, <2>4, QueueConstants
    <3>3. Enough(qpc', Consumer, size') /\ Enough(qpc', Producer, capacity - size')
      BY <1>3, <2>4, <3>1
    <3> QED
      BY <1>1, <2>1, <2>4, <3>1, <3>2, <3>3 DEF WakeInv
  <2> QED
    BY <1>7, <2>2, <2>3, <2>4 DEF preleva, vuoto
<1>8. ASSUME NEW t \in Producer, inserisci(t) PROVE WakeInv'
  <2>1. Entering(t) /\ open' = open
    BY <1>8 DEF inserisci
  <2>2. CASE open /\ size = capacity /\ qpc' = [qpc EXCEPT ![t] = "wait"] /\ size' = size
    <3>1. /\ qpc' \in [QThread -> QueuePlace] /\ Enough(qpc', Producer, 0)
          /\ Enough(qpc', Consumer, size)
      BY <1>1, <1>2, <1>5, <2>1, <2>2, QueueConstants
    <3>2. capacity - size' = 0
      BY <1>1, <2>2, QueueConstants
    <3> QED
      BY <1>1, <2>1, <2>2, <3>1, <3>2 DEF WakeInv
  <2>3. CASE ~open /\ qpc' = [qpc EXCEPT ![t] = "outside"] /\ size' = size
    BY <1>2, <1>6, <2>1, <2>3
  <2>4. CASE open /\ size # capacity /\ size' = size + 1 /\ NotifyOne(t, "outside", Consumer, qpc')
    <3>1. /\ qpc' \in [QThread -> QueuePlace] /\ Enough(qpc', Producer, capacity - size - 1)
          /\ Enough(qpc', Consumer, size + 1)
      BY <1>1, <1>2, <1>3, <2>1, <2>4, NotifyFacts, QueueConstants
    <3>2. size' \in Nat /\ size' <= capacity
      BY <1>1, <2>4, QueueConstants
    <3>3. Enough(qpc', Consumer, size') /\ Enough(qpc', Producer, capacity - size')
      BY <1>3, <2>4, <3>1
    <3> QED
      BY <1>1, <2>1, <2>4, <3>1, <3>2, <3>3 DEF WakeInv
  <2> QED
    BY <1>8, <2>2, <2>3, <2>4 DEF inserisci, pieno
<1>9. CASE chiudi
  <2>1. /\ open' = FALSE /\ size' = size
        /\ qpc' = [t \in QThread |-> IF qpc[t] = "wait" THEN "woken" ELSE qpc[t]]
    BY <1>9 DEF chiudi
  <2>2. qpc' \in [QThread -> QueuePlace] /\ \A t \in QThread : qpc'[t] # "wait"
    BY <1>1, <2>1 DEF QueuePlace
  <2>3. /\ {u \in Consumer : qpc'[u] = "wait"} = {} /\ {u \in Producer : qpc'[u] = "wait"} = {}
        /\ Waiting(QThread)' = {}
    BY <1>2, <2>2 DEF Waiting
  <2> QED
    BY <1>1, <2>1, <2>2, <2>3 DEF WakeInv, Enough
<1>10. ASSUME NEW t \in QThread, SpuriousWakeup(t) PROVE WakeInv'
  <2>1. qpc[t] = "wait" /\ qpc' = [qpc EXCEPT ![t] = "woken"] /\ UNCHANGED <<size, open>>
    BY <1>10 DEF SpuriousWakeup
  <2>2. qpc' \in [QThread -> QueuePlace]
    BY <1>1, <2>1 DEF QueuePlace
  <2>3. Enough(qpc', Consumer, size) /\ Enough(qpc', Producer, capacity - size)
    <3> DEFINE q == [qpc EXCEPT ![t] = "woken"]
               k == capacity - size
    <3>1. Enough(q, Consumer, size)
      <4>1. size \in Int
        BY <1>1
      <4> QED
        BY <1>1, <1>2, <2>1, <4>1, SleeperWakes, QueueConstants
    <3>2. k \in Int /\ Enough(qpc, Producer, k)
      BY <1>1, <1>3
    <3> HIDE DEF k
    <3>3. Enough(q, Producer, k)
      BY <1>1, <1>2, <2>1, <3>2, SleeperWakes, QueueConstants
    <3> QED
      BY <2>1, <3>1, <3>3 DEF k
  <2>4. open
    BY <1>1, <2>1 DEF Waiting
  <2> QED
    BY <1>1, <2>1, <2>2, <2>3, <2>4 DEF WakeInv
<1>11. CASE UNCHANGED queueVars
  BY <1>11 DEF queueVars, WakeInv, Waiting, Enough
<1>12. ASSUME NEW t \in QThread, prelevaLooks(t) \/ inserisciCalled(t) PROVE WakeInv'
  BY <1>4, <1>12 DEF prelevaLooks, inserisciCalled
<1> QED
  BY <1>2, <1>7, <1>8, <1>9, <1>10, <1>11, <1>12 DEF queueNext

\* x % capacity, for what the code takes it of.
Wrap(x) == IF x < capacity THEN x ELSE x - capacity

LEMMA WrapFacts ==
  ASSUME NEW a \in Place, NEW i \in Nat, i <= capacity
  PROVE  /\ (a + i) % capacity = Wrap(a + i) /\ Wrap(a + i) \in Place
         /\ (a + 1) % capacity = Wrap(a + 1) /\ Wrap(a + 1) \in Place
         /\ i + 1 <= capacity => /\ Wrap(Wrap(a + 1) + i) = Wrap(a + (i + 1))
                                 /\ Wrap(Wrap(a + i) + 1) = Wrap(a + (i + 1))
         /\ \A j \in Nat : j < i /\ i < capacity => Wrap(a + j) # Wrap(a + i)
<1>1. capacity \in Nat /\ capacity >= 1 /\ a \in Nat /\ a < capacity
  BY QueueConstants DEF Place
<1>2. ASSUME NEW x \in 0 .. 2 * capacity - 1 PROVE x % capacity = Wrap(x) /\ Wrap(x) \in Place
  <2>1. CASE x < capacity
    BY <1>1, <2>1 DEF Wrap, Place
  <2>2. CASE x >= capacity
    BY <1>1, <2>2 DEF Wrap, Place
  <2> QED
    BY <1>1, <2>1, <2>2
<1>3. a + i \in 0 .. 2 * capacity - 1 /\ a + 1 \in 0 .. 2 * capacity - 1
  BY <1>1
<1>4. i + 1 <= capacity => /\ Wrap(Wrap(a + 1) + i) = Wrap(a + (i + 1))
                           /\ Wrap(Wrap(a + i) + 1) = Wrap(a + (i + 1))
  BY <1>1 DEF Wrap
<1>5. \A j \in Nat : j < i /\ i < capacity => Wrap(a + j) # Wrap(a + i)
  BY <1>1 DEF Wrap
<1> QED
  BY <1>2, <1>3, <1>4, <1>5

ringVars == <<queue, in, out, size, inserted, taken>>

LEMMA RingInit == queueInit => RingInv
<1> SUFFICES ASSUME queueInit PROVE RingInv
  OBVIOUS
<1>1. /\ queue = [p \in Place |-> 0] /\ in = 0 /\ out = 0 /\ size = 0 /\ inserted = 0 /\ taken = <<>>
      /\ capacity \in Nat /\ capacity >= 1
  BY QueueConstants DEF queueInit
<1>2. 0 \in Place /\ 0 % capacity = 0 /\ out + size = 0
  BY <1>1 DEF Place
<1>3. queue \in [Place -> Nat] /\ taken \in Seq(Nat) /\ Len(taken) = 0
  BY <1>1
<1> QED
  BY <1>1, <1>2, <1>3 DEF RingInv

LEMMA TakeStep ==
  ASSUME RingInv, size # 0, taken' = Append(taken, queue[out]), out' = (out + 1) % capacity,
         size' = size - 1, UNCHANGED <<queue, in, inserted>>
  PROVE  RingInv'
<1> DEFINE n == Len(taken)
<1>1. /\ queue \in [Place -> Nat] /\ in \in Place /\ out \in Place /\ size \in Nat /\ size <= capacity
      /\ inserted \in Nat /\ taken \in Seq(Nat) /\ n \in Nat /\ inserted = n + size
      /\ in = (out + size) % capacity
      /\ \A i \in 1 .. n : taken[i] = i
      /\ \A i \in Nat : i < size => queue[(out + i) % capacity] = n + i + 1
      /\ capacity \in Nat
  BY QueueConstants DEF RingInv
<1>2. out' = Wrap(out + 1) /\ out' \in Place
  BY <1>1, WrapFacts
<1>3. queue[out] = n + 1
  <2>1. out + 0 = out /\ Wrap(out + 0) = out
    BY <1>1 DEF Place, Wrap
  <2>2. (out + 0) % capacity = out
    BY <1>1, <2>1, WrapFacts
  <2>3. queue[(out + 0) % capacity] = n + 0 + 1
    <3>1. 0 \in Nat /\ 0 < size
      BY <1>1
    <3> QED
      BY <1>1, <3>1
  <2> QED
    BY <1>1, <2>2, <2>3
<1>4. /\ taken' \in Seq(Nat) /\ Len(taken') = n + 1
      /\ \A i \in 1 .. n + 1 : taken'[i] = i
  BY <1>1, <1>3
<1> HIDE DEF n
<1>5. size' \in Nat /\ size' + 1 = size /\ size' <= capacity
  BY <1>1
<1>6. \A i \in Nat : i < size' \/ i = size' => (out' + i) % capacity = (out + (i + 1)) % capacity
  <2> SUFFICES ASSUME NEW i \in Nat, i <= size' PROVE (out' + i) % capacity = (out + (i + 1)) % capacity
    BY <1>5
  <2>1. i + 1 <= capacity /\ i <= capacity /\ i + 1 \in Nat
    BY <1>1, <1>5
  <2>2. (out' + i) % capacity = Wrap(out' + i)
    BY <1>2, <2>1, WrapFacts
  <2>3. (out + (i + 1)) % capacity = Wrap(out + (i + 1))
    BY <1>1, <2>1, WrapFacts
  <2>4. Wrap(Wrap(out + 1) + i) = Wrap(out + (i + 1))
    BY <1>1, <2>1, WrapFacts
  <2> QED
    BY <1>2, <2>2, <2>3, <2>4
<1>7. ASSUME NEW i \in Nat, i < size' PROVE queue'[(out' + i) % capacity] = Len(taken') + i + 1
  <2>1. i + 1 \in Nat /\ i + 1 < size /\ n + (i + 1) + 1 = (n + 1) + i + 1
    BY <1>1, <1>5, <1>7
  <2>2. queue[(out + (i + 1)) % capacity] = n + (i + 1) + 1
    BY <1>1, <2>1
  <2> QED
    BY <1>4, <1>6, <1>7, <2>1, <2>2
<1>8. in' = (out' + size') % capacity
  BY <1>1, <1>5, <1>6
<1>9. inserted' = Len(taken') + size'
  BY <1>1, <1>4, <1>5
<1> QED
  BY <1>1, <1>2, <1>4, <1>5, <1>7, <1>8, <1>9 DEF RingInv

LEMMA InsertStep ==
  ASSUME RingInv, size # capacity, queue' = [queue EXCEPT ![in] = inserted + 1],
         inserted' = inserted + 1, in' = (in + 1) % capacity, size' = size + 1,
         UNCHANGED <<out, taken>>
  PROVE  RingInv'
<1> DEFINE n == Len(taken)
<1>1. /\ queue \in [Place -> Nat] /\ in \in Place /\ out \in Place /\ size \in Nat /\ size <= capacity
      /\ inserted \in Nat /\ taken \in Seq(Nat) /\ n \in Nat /\ inserted = n + size
      /\ in = (out + size) % capacity
      /\ \A i \in 1 .. n : taken[i] = i
      /\ \A i \in Nat : i < size => queue[(out + i) % capacity] = n + i + 1
      /\ capacity \in Nat
  BY QueueConstants DEF RingInv
<1> HIDE DEF n
<1>2. size' \in Nat /\ size' <= capacity /\ size < capacity /\ inserted' \in Nat
  BY <1>1
<1>3. in' = Wrap(in + 1) /\ in' \in Place /\ in = Wrap(out + size)
  BY <1>1, WrapFacts
<1>4. in' = (out + size') % capacity
  <2>1. Wrap(Wrap(out + size) + 1) = Wrap(out + (size + 1))
    BY <1>1, <1>2, WrapFacts
  <2>2. (out + size') % capacity = Wrap(out + size')
    BY <1>1, <1>2, WrapFacts
  <2> QED
    BY <1>3, <2>1, <2>2
<1>5. queue' \in [Place -> Nat] /\ \A p \in Place : queue'[p] = IF p = in THEN inserted + 1 ELSE queue[p]
  BY <1>1
<1>6. ASSUME NEW i \in Nat, i < size' PROVE queue'[(out + i) % capacity] = n + i + 1
  <2>1. i < size \/ i = size
    BY <1>1, <1>6
  <2>2. (out + i) % capacity = Wrap(out + i) /\ Wrap(out + i) \in Place
    <3>1. i <= capacity
      BY <1>1, <1>2, <2>1
    <3> QED
      BY <1>1, <3>1, WrapFacts
  <2>3. CASE i = size
    BY <1>1, <1>3, <1>5, <2>2, <2>3
  <2>4. CASE i < size
    <3>1. Wrap(out + i) # Wrap(out + size)
      BY <1>1, <1>2, <2>4, WrapFacts
    <3>2. queue[(out + i) % capacity] = n + i + 1
      BY <1>1, <2>4
    <3> QED
      BY <1>3, <1>5, <2>2, <3>1, <3>2
  <2> QED
    BY <2>1, <2>3, <2>4
<1>7. inserted' = n + size'
  BY <1>1
<1> QED
  BY <1>1, <1>2, <1>3, <1>4, <1>5, <1>6, <1>7 DEF RingInv, n

LEMMA RingSteps == RingInv /\ [queueNext]_queueVars => RingInv'
<1> SUFFICES ASSUME RingInv, [queueNext]_queueVars PROVE RingInv'
  OBVIOUS
<1>1. ASSUME UNCHANGED ringVars PROVE RingInv'
  BY <1>1 DEF ringVars, RingInv
<1>2. ASSUME NEW t \in Consumer, preleva(t) PROVE RingInv'
  <2>1. \/ UNCHANGED ringVars
        \/ /\ size # 0 /\ taken' = Append(taken, queue[out]) /\ out' = (out + 1) % capacity
           /\ size' = size - 1 /\ UNCHANGED <<queue, in, inserted>>
    BY <1>2 DEF preleva, vuoto, ringVars
  <2> QED
    BY <1>1, <2>1, TakeStep
<1>3. ASSUME NEW t \in Producer, inserisci(t) PROVE RingInv'
  <2>1. \/ UNCHANGED ringVars
        \/ /\ size # capacity /\ queue' = [queue EXCEPT ![in] = inserted + 1]
           /\ inserted' = inserted + 1 /\ in' = (in + 1) % capacity /\ size' = size + 1
           /\ UNCHANGED <<out, taken>>
    BY <1>3 DEF inserisci, pieno, ringVars
  <2> QED
    BY <1>1, <2>1, InsertStep
<1>4. ASSUME NEW t, prelevaLooks(t) \/ inserisciCalled(t) \/ SpuriousWakeup(t) PROVE UNCHANGED ringVars
  BY <1>4 DEF prelevaLooks, inserisciCalled, SpuriousWakeup, ringVars
<1>5. chiudi \/ UNCHANGED queueVars => UNCHANGED ringVars
  BY DEF chiudi, queueVars, ringVars
<1> QED
  BY <1>1, <1>2, <1>3, <1>4, <1>5 DEF queueNext

\* The values taken and those in the ring are all that were inserted, in order.
LEMMA RingIsOrdered ==
  ASSUME RingInv
  PROVE  taken \o Content = [i \in 1 .. inserted |-> i]
<1> DEFINE n == Len(taken)
           C == Content
<1>1. /\ queue \in [Place -> Nat] /\ out \in Place /\ size \in Nat /\ size <= capacity
      /\ taken \in Seq(Nat) /\ n \in Nat /\ inserted = n + size
      /\ \A i \in 1 .. n : taken[i] = i
      /\ \A i \in Nat : i < size => queue[(out + i) % capacity] = n + i + 1
  BY DEF RingInv
<1>2. C = [i \in 1 .. size |-> queue[(out + i - 1) % capacity]]
  BY DEF Content
<1> HIDE DEF n, C
<1>3. ASSUME NEW i \in 1 .. size PROVE queue[(out + i - 1) % capacity] = n + i
  <2>1. PICK j \in Nat : j = i - 1
    BY <1>1
  <2>2. j < size /\ out + i - 1 = out + j /\ n + j + 1 = n + i
    BY <1>1, <2>1 DEF Place
  <2> QED
    BY <1>1, <2>2
<1>4. C = [i \in 1 .. size |-> n + i]
  BY <1>2, <1>3
<1>5. C \in Seq(Nat) /\ Len(C) = size /\ \A i \in 1 .. size : C[i] = n + i
  BY <1>1, <1>4
<1>6. /\ taken \o C \in Seq(Nat) /\ Len(taken \o C) = inserted
      /\ \A i \in 1 .. inserted : (taken \o C)[i] = IF i <= n THEN taken[i] ELSE C[i - n]
  BY <1>1, <1>5 DEF n
<1>7. ASSUME NEW i \in 1 .. inserted PROVE (taken \o C)[i] = i
  <2>1. CASE i <= n
    BY <1>1, <1>6, <2>1
  <2>2. CASE i > n
    <3>1. i - n \in 1 .. size /\ n + (i - n) = i
      BY <1>1, <2>2
    <3> QED
      BY <1>1, <1>5, <1>6, <2>2, <3>1
  <2>3. i <= n \/ i > n
    BY <1>1
  <2> QED
    BY <2>1, <2>2, <2>3
<1>8. taken \o C = [i \in 1 .. inserted |-> i]
  <2> DEFINE s == taken \o C
  <2>1. s \in Seq(Nat) /\ Len(s) = inserted /\ \A i \in 1 .. inserted : s[i] = i
    BY <1>6, <1>7
  <2> HIDE DEF s
  <2>2. s \in [1 .. inserted -> Nat]
    BY <2>1
  <2> QED
    BY <2>1, <2>2 DEF s
<1> QED
  BY <1>8 DEF C

\* The queue loses neither a wake-up nor a value, for any number of threads and any
\* capacity: notify_one of inserisci and preleva leaves, while somebody sleeps, one
\* awakened for every value or free place, a spurious wake-up and the unlocked look
\* at open included, and values come out in the order they went in.
THEOREM QueueForgetsNobody == queueSpec => []NobodyIsForgotten
<1>1. queueInit => WakeInv /\ RingInv
  BY WakeInit, RingInit
<1>2. WakeInv /\ RingInv /\ [queueNext]_queueVars => (WakeInv /\ RingInv)'
  BY WakeSteps, RingSteps
<1>3. WakeInv /\ RingInv => NobodyIsForgotten
  BY RingIsOrdered DEF WakeInv, Enough, NobodyIsForgotten, Waiting
<1> QED
  BY <1>1, <1>2, <1>3, PTL DEF queueSpec

-----------------------------------------------------------------------------
(* Traps and the interrupt level *)

FrameType ==
  [code : {"start", "irq", "sys", "tlb"}, ie : BOOLEAN, user : BOOLEAN,
   at : {"work", "copy", "idle", "switch", "entry", "exit"}, adjust : BOOLEAN, old_in : BOOLEAN,
   raised : BOOLEAN, spl : {0, 1}, swspl : {0, 1}, spin : Nat, fail : BOOLEAN]

\* The recorded level of a handler: an interrupt's is high.
Base(f) == IF f.code = "irq" THEN 1 ELSE 0
WorkLevel(f) == IF f.raised THEN 1 ELSE Base(f)

\* The level frame i of stack s found: an idle loop's is high, though it lets interrupts in.
Under(s, i) == IF i > 1 /\ s[i - 1].at = "idle" THEN 1 ELSE 0

FrameLevel(s, f) ==
  IF f.at = "work" THEN WorkLevel(f) ELSE IF f.at = "copy" THEN 0
  ELSE IF f.at \in {"switch", "idle"} THEN 1 ELSE Under(s, Len(s))
Level(s) == IF s = <<>> THEN 0 ELSE FrameLevel(s, s[Len(s)])
Spins(s) == IF s = <<>> THEN 0 ELSE s[Len(s)].spin

\* Below frame i, and anywhere.
IrqBelow(s, i) == \E j \in 1 .. i - 1 : s[j].code = "irq"
CopyBelow(s, i) == \E j \in 1 .. i - 1 : s[j].at = "copy"
Inside(s) == \E i \in 1 .. Len(s) : s[i].code = "irq" /\ s[i].at \notin {"entry", "exit"}
Copies(s) == \E i \in 1 .. Len(s) : s[i].at = "copy"

\* What a frame is by itself and by its place.
FrameInv(f, i) ==
  /\ f.ie
  /\ f.user <=> i = 1 /\ f.code # "start"
  /\ f.code \in {"start", "sys"} => i = 1
  /\ f.at = "copy" => f.code = "sys" /\ f.spin = 0 /\ ~f.raised
  /\ f.raised => f.spl = Base(f)
  /\ f.at \in {"switch", "idle"} => f.spin = 0 /\ f.swspl = WorkLevel(f)
  /\ f.at \in {"entry", "exit"} => f.code # "start" /\ f.spin = 0 /\ ~f.raised
  /\ f.fail => f.at = "exit" /\ f.code = "tlb" /\ i > 1

\* What it is to the frames below.
OverInv(s, i) ==
  /\ s[i].code = "tlb" /\ i > 1 => s[i - 1].at = "copy"
  /\ s[i].at \in {"switch", "idle"} => Under(s, i) = 0
  /\ Under(s, i) = 1 => s[i].code = "irq"
  /\ s[i].code = "irq" /\ s[i].at # "entry" =>
       (s[i].adjust <=> Under(s, i) = 0) /\ (s[i].old_in <=> IrqBelow(s, i))

\* A frame that was trapped: it held no spinlock, and lets interrupts in.
BelowInv(s, i) ==
  /\ s[i].at \in {"work", "copy", "idle"} /\ s[i].spin = 0
  /\ s[i].at = "work" => ~s[i].raised /\ s[i].code # "irq"
  /\ s[i].at = "idle" => i + 1 = Len(s)

StackInv(s) ==
  /\ s \in Seq(FrameType)
  /\ \A i \in 1 .. Len(s) : FrameInv(s[i], i) /\ OverInv(s, i)
  /\ \A i \in 1 .. Len(s) - 1 : BelowInv(s, i)

\* A thread's stack says what its level and its count of reasons to keep interrupts
\* out are.
ThreadInv(s, lvl, ipl) == StackInv(s) /\ lvl = Level(s) /\ ipl = lvl + Spins(s)

\* The processor (lets interrupts in, in user mode, has the thread's stack recorded) does
\* what the record of its thread says.
CpuInv(s, ipl, on, user, told) ==
  /\ user <=> s = <<>>
  /\ user => on /\ told
  /\ ~user => LET f == s[Len(s)] IN
       /\ f.at \in {"work", "copy", "switch"} => (on <=> ipl = 0)
       /\ f.at \in {"entry", "exit"} => ~on
       /\ f.at = "exit" => told

Switched(s) == s # <<>> /\ s[Len(s)].at = "switch"

TrapType ==
  /\ curthread \in TThread /\ irqs \in BOOLEAN /\ usermode \in BOOLEAN /\ failed = FALSE
  /\ stk \in [TThread -> Seq(FrameType)]
  /\ curspl \in [TThread -> {0, 1}] /\ iplhigh \in [TThread -> Nat]
  /\ in_interrupt \in [TThread -> BOOLEAN] /\ badfault \in [TThread -> BOOLEAN]

LevelsAgree == \A t \in TThread : ThreadInv(stk[t], curspl[t], iplhigh[t])
FlagsAgree == \A t \in TThread : /\ in_interrupt[t] <=> Inside(stk[t])
                                 /\ badfault[t] <=> Copies(stk[t])
CpuAgrees == CpuInv(stk[curthread], iplhigh[curthread], irqs, usermode, cpustack = curthread)
OthersSwitched == \A t \in TThread \ {curthread} : Switched(stk[t])

TrapInv == TrapType /\ LevelsAgree /\ FlagsAgree /\ CpuAgrees /\ OthersSwitched

\* Another top frame of the same trap.
LEMMA RetopFacts ==
  ASSUME NEW s, StackInv(s), s # <<>>, NEW f \in FrameType, f.code = s[Len(s)].code,
         FrameInv(f, Len(s)), f.at \in {"switch", "idle"} => Under(s, Len(s)) = 0,
         f.code = "irq" /\ f.at # "entry" =>
           (f.adjust <=> Under(s, Len(s)) = 0) /\ (f.old_in <=> IrqBelow(s, Len(s)))
  PROVE  LET r == Front(s) \o <<f>> IN
         /\ StackInv(r) /\ r # <<>> /\ Len(r) = Len(s) /\ r[Len(s)] = f
         /\ \A i \in 1 .. Len(s) - 1 : r[i] = s[i]
         /\ Level(r) = FrameLevel(s, f) /\ Spins(r) = f.spin
<1> DEFINE r == Front(s) \o <<f>>
           n == Len(s)
<1>1. s \in Seq(FrameType) /\ n \in Nat /\ n >= 1
  BY DEF StackInv
<1>2. r \in Seq(FrameType) /\ Len(r) = n /\ r[n] = f /\ \A i \in 1 .. n - 1 : r[i] = s[i]
  BY <1>1 DEF Front
<1> HIDE DEF r, n
<1>3. r # <<>>
  BY <1>1, <1>2
<1>4. \A i \in 1 .. n : i # n => i \in 1 .. n - 1
  BY <1>1
<1>5. \A i \in 1 .. n : i > 1 => i - 1 \in 1 .. n - 1 /\ r[i - 1] = s[i - 1]
  BY <1>1, <1>2
<1>6. \A i \in 1 .. n : Under(r, i) = Under(s, i)
  BY <1>5 DEF Under
<1>7. \A i \in 1 .. n : IrqBelow(r, i) <=> IrqBelow(s, i)
  <2> SUFFICES ASSUME NEW i \in 1 .. n PROVE IrqBelow(r, i) <=> IrqBelow(s, i)
    OBVIOUS
  <2>1. \A j \in 1 .. i - 1 : r[j] = s[j]
    BY <1>1, <1>2
  <2> QED
    BY <2>1 DEF IrqBelow
<1>8. \A i \in 1 .. n : FrameInv(s[i], i) /\ OverInv(s, i)
  BY DEF StackInv, n
<1>9. ASSUME NEW i \in 1 .. n PROVE FrameInv(r[i], i) /\ OverInv(r, i)
  <2>1. CASE i = n
    <3>1. FrameInv(r[i], i)
      BY <1>2, <2>1 DEF n
    <3>2. /\ f.code = s[n].code /\ (f.at \in {"switch", "idle"} => Under(s, n) = 0)
          /\ f.code = "irq" /\ f.at # "entry" =>
               (f.adjust <=> Under(s, n) = 0) /\ (f.old_in <=> IrqBelow(s, n))
      BY DEF n
    <3>3. OverInv(r, i)
      BY <1>2, <1>5, <1>6, <1>7, <1>8, <2>1, <3>2 DEF OverInv
    <3> QED
      BY <3>1, <3>3
  <2>2. CASE i # n
    <3>1. r[i] = s[i]
      BY <1>2, <1>4, <2>2
    <3> QED
      BY <1>5, <1>6, <1>7, <1>8, <3>1 DEF OverInv
  <2> QED
    BY <2>1, <2>2
<1>10. \A i \in 1 .. n - 1 : BelowInv(r, i)
  BY <1>2 DEF StackInv, BelowInv, n
<1>11. StackInv(r)
  BY <1>2, <1>9, <1>10 DEF StackInv
<1>12. n \in 1 .. n
  BY <1>1
<1>13. Level(r) = FrameLevel(s, f)
  BY <1>2, <1>3, <1>6, <1>12 DEF Level, FrameLevel, n
<1>14. Spins(r) = f.spin
  BY <1>2, <1>3 DEF Spins
<1> QED
  BY <1>2, <1>3, <1>11, <1>13, <1>14 DEF r, n

\* The frames below count for t_in_interrupt and tm_badfaultfunc whatever the top does.
LEMMA InsideFacts ==
  ASSUME NEW s, StackInv(s), s # <<>>
  PROVE  LET f == s[Len(s)] IN
         /\ Inside(s) <=> IrqBelow(s, Len(s)) \/ (f.code = "irq" /\ f.at \notin {"entry", "exit"})
         /\ Copies(s) <=> CopyBelow(s, Len(s)) \/ f.at = "copy"
<1> DEFINE n == Len(s)
<1>1. n \in Nat /\ n >= 1 /\ n \in 1 .. n
  BY DEF StackInv
<1>2. \A i : i \in 1 .. n <=> i \in 1 .. n - 1 \/ i = n
  BY <1>1
<1>3. \A i \in 1 .. n - 1 : s[i].at \notin {"entry", "exit"}
  BY DEF StackInv, BelowInv
<1> QED
  BY <1>2, <1>3 DEF Inside, Copies, IrqBelow, CopyBelow

LEMMA BelowSame ==
  ASSUME NEW s, NEW r, NEW n, \A i \in 1 .. n - 1 : r[i] = s[i]
  PROVE  (IrqBelow(r, n) <=> IrqBelow(s, n)) /\ (CopyBelow(r, n) <=> CopyBelow(s, n))
BY DEF IrqBelow, CopyBelow

\* The thread's record after a change of its top frame.
LEMMA RetopThread ==
  ASSUME NEW s, StackInv(s), s # <<>>, NEW f \in FrameType, f.code = s[Len(s)].code,
         FrameInv(f, Len(s)), f.at \in {"switch", "idle"} => Under(s, Len(s)) = 0,
         f.code = "irq" /\ f.at # "entry" =>
           (f.adjust <=> Under(s, Len(s)) = 0) /\ (f.old_in <=> IrqBelow(s, Len(s)))
  PROVE  LET r == Front(s) \o <<f>> IN
         /\ ThreadInv(r, FrameLevel(s, f), FrameLevel(s, f) + f.spin)
         /\ r # <<>> /\ r[Len(r)] = f
         /\ Inside(r) <=> IrqBelow(s, Len(s)) \/ (f.code = "irq" /\ f.at \notin {"entry", "exit"})
         /\ Copies(r) <=> CopyBelow(s, Len(s)) \/ f.at = "copy"
<1> DEFINE r == Front(s) \o <<f>>
<1>1. /\ StackInv(r) /\ r # <<>> /\ Len(r) = Len(s) /\ r[Len(s)] = f
      /\ \A i \in 1 .. Len(s) - 1 : r[i] = s[i]
      /\ Level(r) = FrameLevel(s, f) /\ Spins(r) = f.spin
  BY RetopFacts
<1> HIDE DEF r
<1>2. /\ IrqBelow(r, Len(s)) <=> IrqBelow(s, Len(s))
      /\ CopyBelow(r, Len(s)) <=> CopyBelow(s, Len(s))
  BY <1>1, BelowSame
<1>3. /\ Inside(r) <=> IrqBelow(r, Len(r)) \/ (f.code = "irq" /\ f.at \notin {"entry", "exit"})
      /\ Copies(r) <=> CopyBelow(r, Len(r)) \/ f.at = "copy"
  BY <1>1, InsideFacts
<1>4. ThreadInv(r, FrameLevel(s, f), FrameLevel(s, f) + f.spin)
  BY <1>1 DEF ThreadInv
<1> QED
  BY <1>1, <1>2, <1>3, <1>4 DEF r

\* t_in_interrupt and tm_badfaultfunc become what stack s says; those of others stay.
FlagsBecome(s) ==
  /\ in_interrupt' \in [TThread -> BOOLEAN] /\ badfault' \in [TThread -> BOOLEAN]
  /\ in_interrupt'[curthread] <=> Inside(s)
  /\ badfault'[curthread] <=> Copies(s)
  /\ \A t \in TThread \ {curthread} : in_interrupt'[t] = in_interrupt[t] /\ badfault'[t] = badfault[t]

RecordBecomes(s, lvl, ipl) ==
  /\ s \in Seq(FrameType) /\ lvl \in {0, 1} /\ ipl \in Nat
  /\ stk' = [stk EXCEPT ![curthread] = s]
  /\ curspl' = [curspl EXCEPT ![curthread] = lvl]
  /\ iplhigh' = [iplhigh EXCEPT ![curthread] = ipl]
  /\ ThreadInv(s, lvl, ipl)
  /\ FlagsBecome(s)
  /\ failed' = FALSE

LEMMA RecordFacts ==
  ASSUME TrapInv, NEW s, NEW lvl, NEW ipl, RecordBecomes(s, lvl, ipl), curthread' \in TThread,
         irqs' \in BOOLEAN, usermode' \in BOOLEAN
  PROVE  /\ TrapType' /\ LevelsAgree' /\ FlagsAgree'
         /\ stk'[curthread] = s /\ iplhigh'[curthread] = ipl
         /\ \A t \in TThread \ {curthread} : Switched(stk'[t])
<1>1. /\ curthread \in TThread /\ stk \in [TThread -> Seq(FrameType)]
      /\ curspl \in [TThread -> {0, 1}] /\ iplhigh \in [TThread -> Nat]
  BY DEF TrapInv, TrapType
<1>2. /\ s \in Seq(FrameType) /\ lvl \in {0, 1} /\ ipl \in Nat /\ failed' = FALSE
      /\ stk' = [stk EXCEPT ![curthread] = s]
      /\ curspl' = [curspl EXCEPT ![curthread] = lvl]
      /\ iplhigh' = [iplhigh EXCEPT ![curthread] = ipl]
  BY DEF RecordBecomes
<1>3. stk' \in [TThread -> Seq(FrameType)]
  BY <1>1, <1>2
<1>4. curspl' \in [TThread -> {0, 1}]
  BY <1>1, <1>2
<1>5. iplhigh' \in [TThread -> Nat]
  BY <1>1, <1>2
<1>6. in_interrupt' \in [TThread -> BOOLEAN] /\ badfault' \in [TThread -> BOOLEAN]
  BY DEF RecordBecomes, FlagsBecome
<1>7. TrapType'
  BY <1>2, <1>3, <1>4, <1>5, <1>6 DEF TrapType
<1>8. stk'[curthread] = s /\ curspl'[curthread] = lvl /\ iplhigh'[curthread] = ipl
  BY <1>1, <1>2
<1>9. \A t \in TThread \ {curthread} :
        stk'[t] = stk[t] /\ curspl'[t] = curspl[t] /\ iplhigh'[t] = iplhigh[t]
  BY <1>1, <1>2
<1>10. ASSUME NEW t \in TThread PROVE ThreadInv(stk'[t], curspl'[t], iplhigh'[t])
  <2>1. CASE t = curthread
    BY <1>8, <2>1 DEF RecordBecomes
  <2>2. CASE t # curthread
    BY <1>9, <2>2 DEF TrapInv, LevelsAgree
  <2> QED
    BY <2>1, <2>2
<1>11. LevelsAgree'
  BY <1>10 DEF LevelsAgree
<1>12. ASSUME NEW t \in TThread
       PROVE  (in_interrupt'[t] <=> Inside(stk'[t])) /\ (badfault'[t] <=> Copies(stk'[t]))
  <2>1. CASE t = curthread
    BY <1>8, <2>1 DEF RecordBecomes, FlagsBecome
  <2>2. CASE t # curthread
    <3>1. stk'[t] = stk[t]
      BY <1>9, <2>2
    <3>2. in_interrupt'[t] = in_interrupt[t] /\ badfault'[t] = badfault[t]
      BY <2>2 DEF RecordBecomes, FlagsBecome
    <3>3. (in_interrupt[t] <=> Inside(stk[t])) /\ (badfault[t] <=> Copies(stk[t]))
      BY DEF TrapInv, FlagsAgree
    <3> QED
      BY <3>1, <3>2, <3>3
  <2> QED
    BY <2>1, <2>2
<1>13. FlagsAgree'
  BY <1>12 DEF FlagsAgree
<1>14. \A t \in TThread \ {curthread} : Switched(stk'[t])
  BY <1>9 DEF TrapInv, OthersSwitched
<1> QED
  BY <1>7, <1>8, <1>11, <1>13, <1>14

LEMMA StayStep ==
  ASSUME TrapInv, NEW s, NEW lvl, NEW ipl, RecordBecomes(s, lvl, ipl), curthread' = curthread,
         irqs' \in BOOLEAN, usermode' \in BOOLEAN,
         CpuInv(s, ipl, irqs', usermode', cpustack' = curthread)
  PROVE  TrapInv'
<1>1. curthread' \in TThread
  BY DEF TrapInv, TrapType
<1>2. /\ TrapType' /\ LevelsAgree' /\ FlagsAgree'
      /\ stk'[curthread] = s /\ iplhigh'[curthread] = ipl
      /\ \A t \in TThread \ {curthread} : Switched(stk'[t])
  BY <1>1, RecordFacts
<1>3. CpuAgrees'
  BY <1>2 DEF CpuAgrees
<1>4. OthersSwitched'
  BY <1>2 DEF OthersSwitched
<1> QED
  BY <1>2, <1>3, <1>4 DEF TrapInv

LEMMA LeaveStep ==
  ASSUME TrapInv, NEW s, NEW lvl, NEW ipl, RecordBecomes(s, lvl, ipl), curthread' \in TThread,
         irqs' = FALSE, usermode' = FALSE, Switched(s)
  PROVE  TrapInv'
<1>1. irqs' \in BOOLEAN /\ usermode' \in BOOLEAN
  OBVIOUS
<1>2. /\ TrapType' /\ LevelsAgree' /\ FlagsAgree' /\ stk'[curthread] = s
      /\ \A t \in TThread \ {curthread} : Switched(stk'[t])
  BY <1>1, RecordFacts
<1>3. \A t \in TThread : Switched(stk'[t])
  BY <1>2
<1>4. OthersSwitched'
  BY <1>3 DEF OthersSwitched
<1> DEFINE u == curthread'
           r == stk'[u]
           k == iplhigh'[u]
<1>5. Switched(r) /\ ThreadInv(r, curspl'[u], k) /\ r \in Seq(FrameType)
  BY <1>2, <1>3 DEF LevelsAgree, TrapType
<1> HIDE DEF r, k
<1>6. r[Len(r)] \in FrameType /\ r # <<>> /\ r[Len(r)].at = "switch"
  BY <1>5 DEF Switched
<1>7. k = 1 + r[Len(r)].spin /\ r[Len(r)].spin \in Nat
  BY <1>5, <1>6 DEF ThreadInv, Level, FrameLevel, Spins, FrameType
<1>8. k # 0
  BY <1>7
<1>9. CpuInv(r, k, FALSE, FALSE, cpustack' = u)
  BY <1>6, <1>8 DEF CpuInv
<1>10. CpuAgrees'
  BY <1>9 DEF CpuAgrees, r, k
<1> QED
  BY <1>2, <1>4, <1>10 DEF TrapInv

\* What is known of the running thread in the kernel.
LEMMA MyStack ==
  ASSUME TrapInv, ~usermode
  PROVE  LET s == stk[curthread]
             f == s[Len(s)]
         IN  /\ s # <<>> /\ StackInv(s) /\ Len(s) \in Nat /\ Len(s) >= 1
             /\ Top = f /\ f \in FrameType /\ FrameInv(f, Len(s)) /\ OverInv(s, Len(s))
             /\ curspl[curthread] = FrameLevel(s, f)
             /\ iplhigh[curthread] = FrameLevel(s, f) + f.spin
             /\ in_interrupt[curthread] <=>
                  IrqBelow(s, Len(s)) \/ (f.code = "irq" /\ f.at \notin {"entry", "exit"})
             /\ badfault[curthread] <=> CopyBelow(s, Len(s)) \/ f.at = "copy"
             /\ CpuInv(s, iplhigh[curthread], irqs, FALSE, cpustack = curthread)
             /\ curthread \in TThread
<1> DEFINE s == stk[curthread]
           f == s[Len(s)]
           k == iplhigh[curthread]
<1>1. curthread \in TThread /\ s \in Seq(FrameType)
  BY DEF TrapInv, TrapType
<1>2. ThreadInv(s, curspl[curthread], k)
  BY <1>1 DEF TrapInv, LevelsAgree
<1>3. (in_interrupt[curthread] <=> Inside(s)) /\ (badfault[curthread] <=> Copies(s))
  BY <1>1 DEF TrapInv, FlagsAgree
<1>4. CpuInv(s, k, irqs, usermode, cpustack = curthread)
  BY DEF TrapInv, CpuAgrees
<1>5. usermode = FALSE
  BY DEF TrapInv, TrapType
<1>6. Top = Last(s)
  BY DEF Top, me
<1> HIDE DEF s, k
<1>7. s # <<>> /\ CpuInv(s, k, irqs, FALSE, cpustack = curthread)
  BY <1>4, <1>5 DEF CpuInv
<1>8. Len(s) \in Nat /\ Len(s) >= 1 /\ f \in FrameType /\ Last(s) = f /\ Len(s) \in 1 .. Len(s)
  BY <1>1, <1>7 DEF Last
<1>9. StackInv(s) /\ curspl[curthread] = FrameLevel(s, f) /\ k = FrameLevel(s, f) + f.spin
  BY <1>2, <1>7 DEF ThreadInv, Level, Spins
<1>10. FrameInv(f, Len(s)) /\ OverInv(s, Len(s))
  BY <1>8, <1>9 DEF StackInv
<1>11. /\ Inside(s) <=> IrqBelow(s, Len(s)) \/ (f.code = "irq" /\ f.at \notin {"entry", "exit"})
       /\ Copies(s) <=> CopyBelow(s, Len(s)) \/ f.at = "copy"
  BY <1>7, <1>9, InsideFacts
<1> QED
  BY <1>1, <1>3, <1>6, <1>7, <1>8, <1>9, <1>10, <1>11 DEF s, k

\* A step that changes the top frame of stack s, which is the running thread's, to f.
Retops(s, f) ==
  /\ s = stk[curthread] /\ f \in FrameType /\ SetTop(f)
  /\ f.code = s[Len(s)].code /\ FrameInv(f, Len(s))
  /\ f.at \in {"switch", "idle"} => Under(s, Len(s)) = 0
  /\ f.code = "irq" /\ f.at # "entry" =>
       (f.adjust <=> Under(s, Len(s)) = 0) /\ (f.old_in <=> IrqBelow(s, Len(s)))
  /\ curspl' = [curspl EXCEPT ![curthread] = FrameLevel(s, f)]
  /\ iplhigh' = [iplhigh EXCEPT ![curthread] = FrameLevel(s, f) + f.spin]
  /\ in_interrupt' \in [TThread -> BOOLEAN] /\ badfault' \in [TThread -> BOOLEAN]
  /\ in_interrupt'[curthread] <=>
       IrqBelow(s, Len(s)) \/ (f.code = "irq" /\ f.at \notin {"entry", "exit"})
  /\ badfault'[curthread] <=> CopyBelow(s, Len(s)) \/ f.at = "copy"
  /\ \A t \in TThread \ {curthread} : in_interrupt'[t] = in_interrupt[t] /\ badfault'[t] = badfault[t]
  /\ failed' = FALSE /\ usermode' = FALSE /\ irqs' \in BOOLEAN

LEMMA MyStep ==
  ASSUME TrapInv, ~usermode, NEW s, NEW f, Retops(s, f),
         \/ /\ curthread' = curthread
            /\ f.at \in {"work", "copy", "switch"} => (irqs' <=> FrameLevel(s, f) + f.spin = 0)
            /\ f.at \in {"entry", "exit"} => ~irqs'
            /\ f.at = "exit" => cpustack' = curthread
         \/ curthread' \in TThread /\ f.at = "switch" /\ irqs' = FALSE
  PROVE  TrapInv'
<1> DEFINE r == Front(s) \o <<f>>
           lvl == FrameLevel(s, f)
           ipl == lvl + f.spin
<1>1. s # <<>> /\ StackInv(s) /\ curthread \in TThread
  BY MyStack DEF Retops
<1>2. stk' = [stk EXCEPT ![curthread] = r]
  BY DEF Retops, SetTop, me
<1>3. lvl \in {0, 1} /\ f.spin \in Nat
  BY DEF FrameLevel, WorkLevel, Base, Under, Retops, FrameType
<1>4. /\ ThreadInv(r, lvl, ipl) /\ r # <<>> /\ r[Len(r)] = f
      /\ Inside(r) <=> IrqBelow(s, Len(s)) \/ (f.code = "irq" /\ f.at \notin {"entry", "exit"})
      /\ Copies(r) <=> CopyBelow(s, Len(s)) \/ f.at = "copy"
  BY <1>1, RetopThread DEF Retops
<1>5. r \in Seq(FrameType)
  BY <1>4 DEF ThreadInv, StackInv
<1> HIDE DEF r, lvl
<1>6. ipl \in Nat
  BY <1>3
<1>7. FlagsBecome(r)
  BY <1>4 DEF FlagsBecome, Retops
<1>8. RecordBecomes(r, lvl, ipl)
  BY <1>2, <1>3, <1>4, <1>5, <1>6, <1>7 DEF RecordBecomes, Retops, lvl
<1>9. irqs' \in BOOLEAN /\ usermode' \in BOOLEAN /\ ~usermode'
  BY DEF Retops
<1>10. CASE /\ curthread' = curthread
            /\ f.at \in {"work", "copy", "switch"} => (irqs' <=> FrameLevel(s, f) + f.spin = 0)
            /\ f.at \in {"entry", "exit"} => ~irqs'
            /\ f.at = "exit" => cpustack' = curthread
  <2>1. CpuInv(r, ipl, irqs', usermode', cpustack' = curthread)
    BY <1>4, <1>9, <1>10 DEF CpuInv, lvl
  <2> HIDE DEF ipl
  <2> QED
    BY <1>8, <1>9, <1>10, <2>1, StayStep
<1>11. CASE curthread' \in TThread /\ f.at = "switch" /\ irqs' = FALSE
  <2>1. Switched(r) /\ usermode' = FALSE
    BY <1>4, <1>11 DEF Switched, Retops
  <2> HIDE DEF ipl
  <2> QED
    BY <1>8, <1>11, <2>1, LeaveStep
<1> QED
  BY <1>10, <1>11

\* The handler goes on in its frame.
LEMMA WorkStep ==
  ASSUME TrapInv, ~usermode, NEW s, s = stk[curthread], NEW f \in FrameType, SetTop(f),
         f.code = Top.code, f.adjust = Top.adjust, f.old_in = Top.old_in,
         Top.at \notin {"entry", "exit"}, f.at \notin {"entry", "exit"}, FrameInv(f, Len(s)),
         f.at \in {"switch", "idle"} => Under(s, Len(s)) = 0,
         curspl' = [curspl EXCEPT ![curthread] = FrameLevel(s, f)],
         iplhigh' = [iplhigh EXCEPT ![curthread] = FrameLevel(s, f) + f.spin],
         UNCHANGED <<in_interrupt, usermode, failed>>,
         badfault' \in [TThread -> BOOLEAN],
         badfault'[curthread] <=> CopyBelow(s, Len(s)) \/ f.at = "copy",
         \A t \in TThread \ {curthread} : badfault'[t] = badfault[t],
         irqs' \in BOOLEAN,
         \/ /\ curthread' = curthread
            /\ f.at \in {"work", "copy", "switch"} => (irqs' <=> FrameLevel(s, f) + f.spin = 0)
         \/ curthread' \in TThread /\ f.at = "switch" /\ irqs' = FALSE
  PROVE  TrapInv'
<1>1. /\ OverInv(s, Len(s)) /\ Top = s[Len(s)] /\ curthread \in TThread
      /\ in_interrupt[curthread] <=>
           IrqBelow(s, Len(s)) \/ (Top.code = "irq" /\ Top.at \notin {"entry", "exit"})
  BY MyStack
<1>2. f.code = "irq" /\ f.at # "entry" =>
        (f.adjust <=> Under(s, Len(s)) = 0) /\ (f.old_in <=> IrqBelow(s, Len(s)))
  BY <1>1 DEF OverInv
<1>3. in_interrupt' \in [TThread -> BOOLEAN] /\ usermode' = FALSE /\ failed' = FALSE
  BY DEF TrapInv, TrapType
<1>4. Retops(s, f)
  BY <1>1, <1>2, <1>3 DEF Retops
<1> QED
  BY <1>4, MyStep

LEMMA TrapInit ==
  ASSUME trapInit
  PROVE  TrapInv
<1> DEFINE f(a) == Frame("start", TRUE, FALSE, a)
           s(a) == <<f(a)>>
<1>1. ASSUME NEW a \in {"work", "switch"}
      PROVE  /\ s(a) \in Seq(FrameType) /\ s(a) # <<>> /\ Len(s(a)) = 1 /\ s(a)[1] = f(a)
             /\ f(a).at = a /\ f(a).code = "start" /\ f(a).spin = 0 /\ ~f(a).raised
  BY DEF Frame, FrameType
<1>2. ASSUME NEW a \in {"work", "switch"}
      PROVE  /\ ThreadInv(s(a), IF a = "work" THEN 0 ELSE 1, IF a = "work" THEN 0 ELSE 1)
             /\ ~Inside(s(a)) /\ ~Copies(s(a))
  <2> DEFINE r == s(a)
  <2>1. \A i \in 1 .. 1 : i = 1
    OBVIOUS
  <2>2. FrameInv(f(a), 1)
    BY DEF FrameInv, Frame, WorkLevel, Base
  <2>3. /\ r \in Seq(FrameType) /\ r # <<>> /\ Len(r) = 1 /\ r[1] = f(a)
        /\ f(a).at = a /\ f(a).code = "start" /\ f(a).spin = 0 /\ ~f(a).raised
    BY <1>1
  <2> HIDE DEF r, f
  <2>4. Under(r, 1) = 0
    BY DEF Under
  <2>5. OverInv(r, 1)
    BY <2>3, <2>4 DEF OverInv
  <2>6. StackInv(r)
    BY <2>1, <2>2, <2>3, <2>5 DEF StackInv
  <2>7. Level(r) = IF a = "work" THEN 0 ELSE 1
    BY <2>3 DEF Level, FrameLevel, WorkLevel, Base
  <2>8. Spins(r) = 0
    BY <2>3 DEF Spins
  <2>9. ThreadInv(r, IF a = "work" THEN 0 ELSE 1, IF a = "work" THEN 0 ELSE 1)
    BY <2>6, <2>7, <2>8 DEF ThreadInv
  <2>10. ~Inside(r) /\ ~Copies(r)
    BY <2>1, <2>3 DEF Inside, Copies
  <2> QED
    BY <2>9, <2>10 DEF r
<1> HIDE DEF f, s
<1>3. /\ curthread \in TThread /\ irqs = TRUE /\ usermode = FALSE /\ failed = FALSE
      /\ stk = [t \in TThread |-> s(IF t = curthread THEN "work" ELSE "switch")]
      /\ curspl = [t \in TThread |-> IF t = curthread THEN 0 ELSE 1]
      /\ iplhigh = [t \in TThread |-> IF t = curthread THEN 0 ELSE 1]
  BY DEF trapInit, s, f
<1>4. in_interrupt = [t \in TThread |-> FALSE] /\ badfault = [t \in TThread |-> FALSE]
  BY DEF trapInit
<1>5. /\ stk[curthread] = s("work") /\ curspl[curthread] = 0 /\ iplhigh[curthread] = 0
      /\ \A t \in TThread \ {curthread} :
           stk[t] = s("switch") /\ curspl[t] = 1 /\ iplhigh[t] = 1
  BY <1>3
<1>6. TrapType
  <2>1. stk \in [TThread -> Seq(FrameType)]
    BY <1>1, <1>3
  <2>2. curspl \in [TThread -> {0, 1}] /\ iplhigh \in [TThread -> Nat]
    BY <1>3
  <2>3. in_interrupt \in [TThread -> BOOLEAN] /\ badfault \in [TThread -> BOOLEAN]
    BY <1>4
  <2> QED
    BY <1>3, <2>1, <2>2, <2>3 DEF TrapType
<1>7. /\ ThreadInv(s("work"), 0, 0) /\ ~Inside(s("work")) /\ ~Copies(s("work"))
      /\ ThreadInv(s("switch"), 1, 1) /\ ~Inside(s("switch")) /\ ~Copies(s("switch"))
  BY <1>2
<1>8. LevelsAgree
  BY <1>5, <1>7 DEF LevelsAgree
<1>9. \A t \in TThread : ~Inside(stk[t]) /\ ~Copies(stk[t])
  BY <1>5, <1>7
<1>10. FlagsAgree
  BY <1>4, <1>9 DEF FlagsAgree
<1>11. CpuInv(s("work"), 0, TRUE, FALSE, cpustack = curthread)
  BY <1>1 DEF CpuInv
<1>12. CpuAgrees
  BY <1>3, <1>5, <1>11 DEF CpuAgrees
<1>13. Switched(s("switch"))
  BY <1>1 DEF Switched
<1>14. OthersSwitched
  BY <1>5, <1>13 DEF OthersSwitched
<1> QED
  BY <1>6, <1>8, <1>10, <1>12, <1>14 DEF TrapInv

\* splraise, spllower and splx, when the processor does what the count says.
LEMMA RaiseFacts ==
  ASSUME TrapInv, irqs <=> iplhigh[curthread] = 0, splraise
  PROVE  /\ iplhigh' = [iplhigh EXCEPT ![curthread] = iplhigh[curthread] + 1]
         /\ irqs' \in BOOLEAN /\ ~irqs'
BY DEF TrapInv, TrapType, splraise, me

LEMMA LowerFacts ==
  ASSUME TrapInv, irqs <=> iplhigh[curthread] = 0, iplhigh[curthread] > 0, spllower
  PROVE  /\ iplhigh' = [iplhigh EXCEPT ![curthread] = iplhigh[curthread] - 1]
         /\ irqs' \in BOOLEAN /\ (irqs' <=> iplhigh[curthread] - 1 = 0)
<1>1. iplhigh[curthread] \in Nat
  BY DEF TrapInv, TrapType
<1>2. iplhigh[curthread] # 0 /\ (iplhigh[curthread] - 1 = 0 <=> iplhigh[curthread] = 1)
  BY <1>1
<1>3. /\ iplhigh' = [iplhigh EXCEPT ![curthread] = iplhigh[curthread] - 1]
      /\ irqs' = (irqs \/ iplhigh[curthread] = 1)
  BY DEF spllower, me
<1>4. irqs' \in BOOLEAN /\ (irqs' <=> iplhigh[curthread] = 1)
  BY <1>2, <1>3, Zenon
<1> QED
  BY <1>2, <1>3, <1>4

LEMMA SplxFacts ==
  ASSUME TrapInv, irqs <=> iplhigh[curthread] = 0, NEW l \in {0, 1}, NEW k \in Nat,
         iplhigh[curthread] = curspl[curthread] + k, splx(l)
  PROVE  /\ curspl' = [curspl EXCEPT ![curthread] = l]
         /\ iplhigh' = [iplhigh EXCEPT ![curthread] = l + k]
         /\ irqs' \in BOOLEAN /\ (irqs' <=> l + k = 0)
<1>1. /\ curthread \in TThread /\ curspl[curthread] \in {0, 1}
      /\ iplhigh \in [TThread -> Nat] /\ irqs \in BOOLEAN
  BY DEF TrapInv, TrapType
<1>2. /\ curspl' = [curspl EXCEPT ![curthread] = l]
      /\ \/ curspl[curthread] < l /\ splraise
         \/ curspl[curthread] > l /\ spllower
         \/ curspl[curthread] = l /\ UNCHANGED <<iplhigh, irqs>>
  BY DEF splx, me
<1>3. CASE curspl[curthread] < l /\ splraise
  <2>1. curspl[curthread] = 0 /\ l = 1
    BY <1>1, <1>3
  <2>2. iplhigh[curthread] + 1 = l + k /\ l + k # 0
    BY <2>1
  <2> QED
    BY <1>2, <1>3, <2>2, RaiseFacts
<1>4. CASE curspl[curthread] > l /\ spllower
  <2>1. curspl[curthread] = 1 /\ l = 0
    BY <1>1, <1>4
  <2>2. iplhigh[curthread] - 1 = l + k /\ iplhigh[curthread] > 0
    BY <2>1
  <2> QED
    BY <1>2, <1>4, <2>2, LowerFacts
<1>5. CASE curspl[curthread] = l /\ UNCHANGED <<iplhigh, irqs>>
  <2>1. iplhigh' = [iplhigh EXCEPT ![curthread] = l + k]
    BY <1>1, <1>5
  <2> QED
    BY <1>1, <1>2, <1>5, <2>1
<1> QED
  BY <1>2, <1>3, <1>4, <1>5

\* The handler goes on, outside a copy: what its frame must be for that.
Keeps(s, f) ==
  /\ f \in FrameType /\ f.code = Top.code /\ f.adjust = Top.adjust /\ f.old_in = Top.old_in
  /\ f.at \in {"work", "switch", "idle"} /\ FrameInv(f, Len(s))
  /\ f.at \in {"switch", "idle"} => Under(s, Len(s)) = 0

LEMMA PlainStep ==
  ASSUME TrapInv, ~usermode, NEW s, s = stk[curthread], NEW f, Keeps(s, f), SetTop(f),
         Top.at \in {"work", "switch", "idle"},
         curspl' = [curspl EXCEPT ![curthread] = FrameLevel(s, f)],
         iplhigh' = [iplhigh EXCEPT ![curthread] = FrameLevel(s, f) + f.spin],
         UNCHANGED <<in_interrupt, usermode, failed, badfault>>,
         irqs' \in BOOLEAN,
         \/ /\ curthread' = curthread
            /\ f.at \in {"work", "switch"} => (irqs' <=> FrameLevel(s, f) + f.spin = 0)
         \/ curthread' \in TThread /\ f.at = "switch" /\ irqs' = FALSE
  PROVE  TrapInv'
<1>1. /\ badfault[curthread] <=> CopyBelow(s, Len(s)) \/ s[Len(s)].at = "copy"
      /\ Top = s[Len(s)]
  BY MyStack
<1>2. badfault' \in [TThread -> BOOLEAN] /\ badfault' = badfault
  BY DEF TrapInv, TrapType
<1>3. f.at # "copy"
  BY DEF Keeps
<1>4. badfault'[curthread] <=> CopyBelow(s, Len(s)) \/ f.at = "copy"
  BY <1>1, <1>2, <1>3
<1>5. \A t \in TThread \ {curthread} : badfault'[t] = badfault[t]
  BY <1>2
<1>6. Top.at \notin {"entry", "exit"} /\ f.at \notin {"entry", "exit"}
  BY DEF Keeps
<1>7. \/ /\ curthread' = curthread
         /\ f.at \in {"work", "copy", "switch"} => (irqs' <=> FrameLevel(s, f) + f.spin = 0)
      \/ curthread' \in TThread /\ f.at = "switch" /\ irqs' = FALSE
  BY <1>3
<1> QED
  BY <1>2, <1>4, <1>5, <1>6, <1>7, WorkStep DEF Keeps

LEMMA SpinlockStep ==
  ASSUME TrapInv, spinlock_acquire \/ spinlock_release
  PROVE  TrapInv'
<1> DEFINE s == stk[curthread]
           k == iplhigh[curthread]
<1>1. /\ ~usermode /\ Top.at = "work"
      /\ UNCHANGED <<curthread, usermode, in_interrupt, badfault, failed, curspl>>
  BY DEF spinlock_acquire, spinlock_release, AtPc, rest
<1>2. /\ s # <<>> /\ Top \in FrameType /\ FrameInv(Top, Len(s))
      /\ curspl[curthread] = FrameLevel(s, Top) /\ k = FrameLevel(s, Top) + Top.spin
      /\ CpuInv(s, k, irqs, FALSE, cpustack = curthread) /\ Top = s[Len(s)]
      /\ curthread \in TThread /\ k \in Nat /\ curspl \in [TThread -> {0, 1}]
  BY <1>1, MyStack DEF TrapInv, TrapType
<1> HIDE DEF s, k
<1>3. irqs <=> k = 0
  BY <1>1, <1>2 DEF CpuInv
<1>4. Top.spin \in Nat /\ FrameLevel(s, Top) \in {0, 1}
  BY <1>2 DEF FrameType, FrameLevel, WorkLevel, Base, Under
<1> DEFINE f(n) == [Top EXCEPT !.spin = n]
<1>5. ASSUME NEW n \in Nat PROVE Keeps(s, f(n)) /\ f(n).spin = n /\ FrameLevel(s, f(n)) = FrameLevel(s, Top)
  <2>1. /\ f(n) \in FrameType /\ f(n).spin = n
        /\ f(n).at = Top.at /\ f(n).code = Top.code /\ f(n).raised = Top.raised
        /\ f(n).adjust = Top.adjust /\ f(n).old_in = Top.old_in /\ f(n).ie = Top.ie
        /\ f(n).user = Top.user /\ f(n).fail = Top.fail /\ f(n).spl = Top.spl
    BY <1>2 DEF FrameType
  <2> HIDE DEF f
  <2>2. FrameInv(f(n), Len(s))
    BY <1>1, <1>2, <2>1 DEF FrameInv, Base
  <2>3. FrameLevel(s, f(n)) = FrameLevel(s, Top)
    BY <1>1, <2>1 DEF FrameLevel, WorkLevel, Base
  <2> QED
    BY <1>1, <2>1, <2>2, <2>3 DEF Keeps
<1>6. curspl' = [curspl EXCEPT ![curthread] = FrameLevel(s, Top)]
  BY <1>1, <1>2
<1>7. CASE spinlock_acquire
  <2> DEFINE n == Top.spin + 1
  <2>1. splraise /\ SetTop(f(n))
    BY <1>7 DEF spinlock_acquire
  <2>2. /\ iplhigh' = [iplhigh EXCEPT ![curthread] = k + 1]
        /\ irqs' \in BOOLEAN /\ ~irqs'
    BY <1>3, <2>1, RaiseFacts DEF k
  <2>3. n \in Nat /\ k + 1 = FrameLevel(s, Top) + n /\ FrameLevel(s, Top) + n # 0
    BY <1>2, <1>4
  <2>4. Keeps(s, f(n)) /\ f(n).spin = n /\ FrameLevel(s, f(n)) = FrameLevel(s, Top)
    BY <1>5, <2>3
  <2> HIDE DEF f, n
  <2> QED
    BY <1>1, <1>6, <2>1, <2>2, <2>3, <2>4, PlainStep DEF s
<1>8. CASE spinlock_release
  <2> DEFINE n == Top.spin - 1
  <2>1. spllower /\ SetTop(f(n)) /\ Top.spin > 0
    BY <1>8 DEF spinlock_release
  <2>2. n \in Nat /\ k - 1 = FrameLevel(s, Top) + n /\ k > 0
    BY <1>2, <1>4, <2>1
  <2>3. /\ iplhigh' = [iplhigh EXCEPT ![curthread] = k - 1]
        /\ irqs' \in BOOLEAN /\ (irqs' <=> k - 1 = 0)
    BY <1>3, <2>1, <2>2, LowerFacts DEF k
  <2>4. Keeps(s, f(n)) /\ f(n).spin = n /\ FrameLevel(s, f(n)) = FrameLevel(s, Top)
    BY <1>5, <2>2
  <2> HIDE DEF f, n
  <2> QED
    BY <1>1, <1>6, <2>1, <2>2, <2>3, <2>4, PlainStep DEF s
<1> QED
  BY <1>7, <1>8

\* The handler goes on at another level.
LEMMA SplxStep ==
  ASSUME TrapInv, ~usermode, NEW s, s = stk[curthread], NEW f, Keeps(s, f), SetTop(f),
         Top.at \in {"work", "switch"}, f.spin = Top.spin, splx(FrameLevel(s, f)),
         UNCHANGED <<in_interrupt, usermode, failed, badfault>>,
         curthread' = curthread \/ (curthread' \in TThread /\ f.at = "switch")
  PROVE  TrapInv'
<1> DEFINE l == FrameLevel(s, f)
           k == f.spin
<1>1. /\ Top \in FrameType /\ Top = s[Len(s)]
      /\ iplhigh[curthread] = curspl[curthread] + Top.spin
      /\ CpuInv(s, iplhigh[curthread], irqs, FALSE, cpustack = curthread)
  BY MyStack
<1>2. irqs <=> iplhigh[curthread] = 0
  BY <1>1 DEF CpuInv
<1>3. k \in Nat
  BY <1>1 DEF FrameType
<1>4. l \in {0, 1} /\ (f.at = "switch" => l = 1)
  BY DEF FrameLevel, WorkLevel, Base, Under
<1>5. splx(l)
  OBVIOUS
<1> HIDE DEF l
<1>6. iplhigh[curthread] = curspl[curthread] + k
  BY <1>1
<1> HIDE DEF k
<1>7. /\ curspl' = [curspl EXCEPT ![curthread] = l]
      /\ iplhigh' = [iplhigh EXCEPT ![curthread] = l + k]
      /\ irqs' \in BOOLEAN /\ (irqs' <=> l + k = 0)
  BY <1>2, <1>3, <1>4, <1>5, <1>6, SplxFacts
<1>8. \/ /\ curthread' = curthread
         /\ f.at \in {"work", "switch"} => (irqs' <=> l + k = 0)
      \/ curthread' \in TThread /\ f.at = "switch" /\ irqs' = FALSE
  <2>1. f.at = "switch" => l + k # 0
    BY <1>3, <1>4
  <2> QED
    BY <1>7, <2>1
<1> QED
  BY <1>7, <1>8, PlainStep DEF l, k

LEMMA SplStep ==
  ASSUME TrapInv, splhigh \/ splxBack
  PROVE  TrapInv'
<1> DEFINE s == stk[curthread]
<1>1. /\ ~usermode /\ Top.at = "work"
      /\ UNCHANGED <<curthread, usermode, in_interrupt, badfault, failed>>
  BY DEF splhigh, splxBack, AtPc, rest
<1>2. /\ Top \in FrameType /\ FrameInv(Top, Len(s)) /\ curspl[curthread] = FrameLevel(s, Top)
  BY <1>1, MyStack
<1> HIDE DEF s
<1>3. Top.code = "irq" \/ Top.code # "irq"
  OBVIOUS
<1>4. CASE splhigh
  <2> DEFINE c == curspl[curthread]
             f == [Top EXCEPT !.raised = TRUE, !.spl = c]
  <2>1. splx(1) /\ SetTop(f) /\ ~Top.raised
    BY <1>4 DEF splhigh, me
  <2>2. c = Base(Top) /\ c \in {0, 1}
    BY <1>1, <1>2, <2>1 DEF FrameLevel, WorkLevel, Base
  <2> HIDE DEF c
  <2>3. /\ f \in FrameType /\ f.at = Top.at /\ f.code = Top.code /\ f.ie = Top.ie /\ f.user = Top.user
        /\ f.adjust = Top.adjust /\ f.old_in = Top.old_in /\ f.raised = TRUE
        /\ f.spl = c /\ f.swspl = Top.swspl /\ f.spin = Top.spin /\ f.fail = Top.fail
    BY <1>2, <2>2 DEF FrameType
  <2> HIDE DEF f
  <2>4. FrameInv(f, Len(s))
    BY <1>1, <1>2, <2>2, <2>3 DEF FrameInv, Base
  <2>5. FrameLevel(s, f) = 1
    BY <1>1, <2>3 DEF FrameLevel, WorkLevel
  <2>6. Keeps(s, f)
    BY <1>1, <2>3, <2>4 DEF Keeps
  <2> QED
    BY <1>1, <2>1, <2>3, <2>5, <2>6, SplxStep DEF s
<1>5. CASE splxBack
  <2> DEFINE f == [Top EXCEPT !.raised = FALSE]
  <2>1. splx(Top.spl) /\ SetTop(f) /\ Top.raised
    BY <1>5 DEF splxBack
  <2>2. Top.spl = Base(Top)
    BY <1>2, <2>1 DEF FrameInv
  <2>3. /\ f \in FrameType /\ f.at = Top.at /\ f.code = Top.code /\ f.ie = Top.ie /\ f.user = Top.user
        /\ f.adjust = Top.adjust /\ f.old_in = Top.old_in /\ f.raised = FALSE
        /\ f.spl = Top.spl /\ f.swspl = Top.swspl /\ f.spin = Top.spin /\ f.fail = Top.fail
    BY <1>2 DEF FrameType
  <2> HIDE DEF f
  <2>4. FrameInv(f, Len(s))
    BY <1>1, <1>2, <2>2, <2>3 DEF FrameInv, Base
  <2>5. FrameLevel(s, f) = Top.spl
    BY <1>1, <2>2, <2>3 DEF FrameLevel, WorkLevel, Base
  <2>6. Keeps(s, f)
    BY <1>1, <2>3, <2>4 DEF Keeps
  <2> QED
    BY <1>1, <2>1, <2>3, <2>5, <2>6, SplxStep DEF s
<1> QED
  BY <1>4, <1>5

LEMMA SwitchStep ==
  ASSUME TrapInv, NEW u \in TThread, thread_switch(u)
  PROVE  TrapInv'
<1> DEFINE s == stk[curthread]
           c == curspl[curthread]
           f(a) == [Top EXCEPT !.at = a, !.swspl = c]
<1>1. /\ ~usermode /\ Top.at = "work" /\ Top.spin = 0 /\ ~InIdle /\ splx(1)
      /\ UNCHANGED <<usermode, in_interrupt, badfault, failed>>
      /\ \/ SetTop(f("switch")) /\ curthread' = u
         \/ SetTop(f("idle")) /\ curthread' = curthread
  BY DEF thread_switch, AtPc, me
<1>2. /\ s # <<>> /\ StackInv(s) /\ Len(s) \in Nat /\ Len(s) >= 1
      /\ Top \in FrameType /\ FrameInv(Top, Len(s)) /\ c = FrameLevel(s, Top)
  BY <1>1, MyStack
<1>3. ~\E i \in DOMAIN s : s[i].at = "idle"
  BY <1>1 DEF InIdle, me
<1> HIDE DEF s
<1>4. Under(s, Len(s)) = 0
  BY <1>2, <1>3 DEF StackInv, Under
<1>5. c = WorkLevel(Top) /\ c \in {0, 1}
  BY <1>1, <1>2 DEF FrameLevel, WorkLevel, Base
<1> HIDE DEF c
<1>6. ASSUME NEW a \in {"switch", "idle"}
      PROVE  Keeps(s, f(a)) /\ FrameLevel(s, f(a)) = 1 /\ f(a).spin = Top.spin /\ f(a).at = a
  <2>1. /\ f(a) \in FrameType /\ f(a).at = a /\ f(a).code = Top.code /\ f(a).ie = Top.ie
        /\ f(a).user = Top.user
        /\ f(a).adjust = Top.adjust /\ f(a).old_in = Top.old_in /\ f(a).raised = Top.raised
        /\ f(a).spl = Top.spl /\ f(a).swspl = c /\ f(a).spin = Top.spin /\ f(a).fail = Top.fail
    BY <1>2, <1>5 DEF FrameType
  <2> HIDE DEF f
  <2>2. FrameInv(f(a), Len(s))
    BY <1>1, <1>2, <1>5, <2>1 DEF FrameInv, Base, WorkLevel
  <2>3. FrameLevel(s, f(a)) = 1
    BY <2>1 DEF FrameLevel
  <2> QED
    BY <1>4, <2>1, <2>2, <2>3 DEF Keeps
<1> HIDE DEF f
<1>7. CASE SetTop(f("switch")) /\ curthread' = u
  BY <1>1, <1>6, <1>7, SplxStep DEF s
<1>8. CASE SetTop(f("idle")) /\ curthread' = curthread
  BY <1>1, <1>6, <1>8, SplxStep DEF s
<1> QED
  BY <1>1, <1>7, <1>8

LEMMA ResumeStep ==
  ASSUME TrapInv, Resumes
  PROVE  TrapInv'
<1> DEFINE s == stk[curthread]
           f == [Top EXCEPT !.at = "work"]
<1>1. /\ ~usermode /\ Top.at = "switch" /\ splx(Top.swspl) /\ SetTop(f)
      /\ UNCHANGED <<curthread, usermode, in_interrupt, badfault, failed>>
  BY DEF Resumes, AtPc, rest
<1>2. Top \in FrameType /\ FrameInv(Top, Len(s))
  BY <1>1, MyStack
<1>3. /\ f \in FrameType /\ f.at = "work" /\ f.code = Top.code /\ f.ie = Top.ie /\ f.user = Top.user
      /\ f.adjust = Top.adjust /\ f.old_in = Top.old_in /\ f.raised = Top.raised
      /\ f.spl = Top.spl /\ f.swspl = Top.swspl /\ f.spin = Top.spin /\ f.fail = Top.fail
  BY <1>2 DEF FrameType
<1> HIDE DEF s, f
<1>4. FrameInv(f, Len(s))
  BY <1>1, <1>2, <1>3 DEF FrameInv, Base, WorkLevel
<1>5. FrameLevel(s, f) = Top.swspl
  BY <1>1, <1>2, <1>3 DEF FrameInv, FrameLevel, WorkLevel, Base
<1>6. Keeps(s, f)
  BY <1>3, <1>4 DEF Keeps
<1> QED
  BY <1>1, <1>3, <1>5, <1>6, SplxStep DEF s

\* The idle loop.
LEMMA IdleStep ==
  ASSUME TrapInv, NEW u \in TThread, IdleEnds(u)
  PROVE  TrapInv'
<1> DEFINE s == stk[curthread]
           f == [Top EXCEPT !.at = "switch"]
<1>1. /\ ~usermode /\ Top.at = "idle" /\ ~irqs /\ SetTop(f) /\ curthread' = u
      /\ UNCHANGED <<curspl, iplhigh, irqs, usermode, in_interrupt, badfault, failed>>
  BY DEF IdleEnds, AtPc, level
<1>2. /\ Top \in FrameType /\ Top = s[Len(s)] /\ FrameInv(Top, Len(s)) /\ OverInv(s, Len(s))
      /\ curspl[curthread] = FrameLevel(s, Top)
      /\ iplhigh[curthread] = FrameLevel(s, Top) + Top.spin
  BY <1>1, MyStack
<1>3. /\ f \in FrameType /\ f.at = "switch" /\ f.code = Top.code /\ f.ie = Top.ie /\ f.user = Top.user
      /\ f.adjust = Top.adjust /\ f.old_in = Top.old_in /\ f.raised = Top.raised
      /\ f.spl = Top.spl /\ f.swspl = Top.swspl /\ f.spin = Top.spin /\ f.fail = Top.fail
  BY <1>2 DEF FrameType
<1> HIDE DEF f
<1>4. FrameLevel(s, f) = FrameLevel(s, Top)
  BY <1>1, <1>3 DEF FrameLevel
<1>5. /\ curspl' = [curspl EXCEPT ![curthread] = FrameLevel(s, f)]
      /\ iplhigh' = [iplhigh EXCEPT ![curthread] = FrameLevel(s, f) + f.spin]
  BY <1>1, <1>2, <1>3, <1>4 DEF TrapInv, TrapType
<1> HIDE DEF s
<1>6. FrameInv(f, Len(s))
  BY <1>1, <1>2, <1>3 DEF FrameInv, Base, WorkLevel
<1>7. Under(s, Len(s)) = 0
  BY <1>1, <1>2 DEF OverInv
<1>8. Keeps(s, f)
  BY <1>3, <1>6, <1>7 DEF Keeps
<1>9. irqs' \in BOOLEAN /\ irqs' = FALSE
  BY <1>1 DEF TrapInv, TrapType
<1> QED
  BY <1>1, <1>3, <1>5, <1>8, <1>9, PlainStep DEF s

LEMMA WindowStep ==
  ASSUME TrapInv, IdleWindow
  PROVE  TrapInv'
<1>1. /\ ~usermode /\ Top.at = "idle" /\ irqs' = ~irqs
      /\ UNCHANGED <<curthread, usermode, stk, curspl, iplhigh, in_interrupt, badfault, cpustack, failed>>
  BY DEF IdleWindow, AtPc, level, rest
<1> DEFINE s == stk[curthread]
           k == iplhigh[curthread]
<1>2. s # <<>> /\ s[Len(s)].at = "idle"
  BY <1>1, MyStack
<1>3. TrapType'
  BY <1>1 DEF TrapInv, TrapType
<1>4. LevelsAgree'
  BY <1>1 DEF TrapInv, LevelsAgree
<1>5. FlagsAgree'
  BY <1>1 DEF TrapInv, FlagsAgree
<1>6. CpuInv(s, k, ~irqs, usermode, cpustack = curthread)
  BY <1>1, <1>2 DEF CpuInv
<1>7. CpuAgrees'
  BY <1>1, <1>6 DEF CpuAgrees
<1>8. OthersSwitched'
  BY <1>1 DEF TrapInv, OthersSwitched
<1> QED
  BY <1>3, <1>4, <1>5, <1>7, <1>8 DEF TrapInv

\* copyin and its relatives set tm_badfaultfunc and clear it.
LEMMA CopyStep ==
  ASSUME TrapInv, CopyBegins \/ CopyEnds
  PROVE  TrapInv'
<1> DEFINE s == stk[curthread]
           n == Len(s)
<1>1. /\ ~usermode /\ Top.at \in {"work", "copy"}
      /\ UNCHANGED <<curspl, iplhigh, curthread, irqs, usermode, in_interrupt, failed>>
  BY DEF CopyBegins, CopyEnds, AtPc, level
<1>2. /\ s # <<>> /\ n \in Nat /\ n >= 1 /\ Top \in FrameType /\ Top = s[n] /\ FrameInv(Top, n)
      /\ curspl[curthread] = FrameLevel(s, Top)
      /\ iplhigh[curthread] = FrameLevel(s, Top) + Top.spin
      /\ CpuInv(s, iplhigh[curthread], irqs, FALSE, cpustack = curthread)
      /\ curthread \in TThread
  BY <1>1, MyStack
<1>3. Top.code = "sys" /\ Top.spin = 0 /\ ~Top.raised
  BY <1>1, <1>2 DEF CopyBegins, CopyEnds, AtPc, FrameInv
<1>4. n = 1
  BY <1>2, <1>3 DEF FrameInv
<1>5. ~CopyBelow(s, n)
  BY <1>4 DEF CopyBelow
<1>6. badfault \in [TThread -> BOOLEAN] /\ irqs' \in BOOLEAN
  BY <1>1 DEF TrapInv, TrapType
<1>7. FrameLevel(s, Top) = 0
  BY <1>1, <1>3 DEF FrameLevel, WorkLevel, Base
<1>8. irqs' <=> iplhigh[curthread] = 0
  BY <1>1, <1>2 DEF CpuInv
<1> DEFINE f(a) == [Top EXCEPT !.at = a]
<1>9. ASSUME NEW a \in {"work", "copy"}, SetTop(f(a)),
             badfault' = [badfault EXCEPT ![curthread] = (a = "copy")]
      PROVE  TrapInv'
  <2> DEFINE h == f(a)
  <2>1. /\ h \in FrameType /\ h.at = a /\ h.code = Top.code /\ h.ie = Top.ie /\ h.user = Top.user
        /\ h.adjust = Top.adjust /\ h.old_in = Top.old_in /\ h.raised = Top.raised
        /\ h.spl = Top.spl /\ h.swspl = Top.swspl /\ h.spin = Top.spin /\ h.fail = Top.fail
    BY <1>2 DEF FrameType
  <2>2. SetTop(h)
    BY <1>9
  <2> HIDE DEF h, f
  <2>3. FrameLevel(s, h) = 0 /\ FrameLevel(s, h) + h.spin = iplhigh[curthread]
    BY <1>2, <1>3, <1>7, <2>1 DEF FrameLevel, WorkLevel, Base
  <2>4. /\ curspl' = [curspl EXCEPT ![curthread] = FrameLevel(s, h)]
        /\ iplhigh' = [iplhigh EXCEPT ![curthread] = FrameLevel(s, h) + h.spin]
    BY <1>1, <1>2, <1>7, <2>3 DEF TrapInv, TrapType
  <2>5. badfault' \in [TThread -> BOOLEAN]
    BY <1>6, <1>9
  <2>6. badfault'[curthread] <=> a = "copy"
    BY <1>2, <1>6, <1>9
  <2>7. \A t \in TThread \ {curthread} : badfault'[t] = badfault[t]
    BY <1>2, <1>6, <1>9
  <2>8. badfault'[curthread] <=> CopyBelow(s, n) \/ h.at = "copy"
    BY <1>5, <2>1, <2>6
  <2>9. irqs' <=> FrameLevel(s, h) + h.spin = 0
    BY <1>8, <2>3
  <2> HIDE DEF s
  <2>10. FrameInv(h, n)
    BY <1>1, <1>2, <1>3, <2>1 DEF FrameInv, Base, WorkLevel
  <2>11. /\ Top.at \notin {"entry", "exit"} /\ h.at \notin {"entry", "exit"}
         /\ h.at \notin {"switch", "idle"}
    BY <1>1, <2>1
  <2> QED
    BY <1>1, <1>6, <2>1, <2>2, <2>4, <2>5, <2>7, <2>8, <2>9, <2>10, <2>11, WorkStep DEF s
<1> HIDE DEF s, n
<1>10. CASE CopyBegins
  <2>1. SetTop(f("copy")) /\ badfault' = [badfault EXCEPT ![curthread] = TRUE]
    BY <1>10 DEF CopyBegins, me
  <2> HIDE DEF f
  <2> QED
    BY <1>9, <2>1
<1>11. CASE CopyEnds
  <2>1. SetTop(f("work")) /\ badfault' = [badfault EXCEPT ![curthread] = FALSE]
    BY <1>11 DEF CopyEnds, me
  <2>2. ("work" = "copy") = FALSE
    OBVIOUS
  <2> HIDE DEF f
  <2> QED
    BY <1>9, <2>1, <2>2
<1> QED
  BY <1>10, <1>11

\* mips_trap up to the handler.
LEMMA EntryStep ==
  ASSUME TrapInv, IrqEntry \/ TrapEntry
  PROVE  TrapInv'
<1> DEFINE s == stk[curthread]
           n == Len(s)
           c == curspl[curthread]
           k == iplhigh[curthread]
           ini == in_interrupt[curthread]
<1>1. ~usermode /\ Top.at = "entry" /\ UNCHANGED <<curthread, usermode, badfault>>
  BY DEF IrqEntry, TrapEntry, AtPc
<1>2. /\ s # <<>> /\ Top \in FrameType /\ Top = s[n] /\ FrameInv(Top, n) /\ OverInv(s, n)
      /\ c = FrameLevel(s, Top) /\ k = FrameLevel(s, Top) + Top.spin
      /\ CpuInv(s, k, irqs, FALSE, cpustack = curthread)
      /\ curthread \in TThread
  BY <1>1, MyStack
<1>3. (ini <=> IrqBelow(s, n)) /\ (badfault[curthread] <=> CopyBelow(s, n))
  BY <1>1, MyStack
<1>4. usermode' = FALSE /\ badfault' = badfault /\ failed = FALSE /\ ini \in BOOLEAN
  BY <1>1, <1>2 DEF TrapInv, TrapType
<1>5. /\ badfault' \in [TThread -> BOOLEAN] /\ in_interrupt \in [TThread -> BOOLEAN]
      /\ curspl \in [TThread -> {0, 1}] /\ iplhigh \in [TThread -> Nat]
  BY <1>1 DEF TrapInv, TrapType
<1>6. ~irqs
  BY <1>1, <1>2 DEF CpuInv
<1>7. Top.spin = 0 /\ ~Top.raised /\ ~Top.fail /\ c = Under(s, n) /\ k = c /\ c \in {0, 1}
  BY <1>1, <1>2 DEF FrameInv, FrameLevel, Under
<1>8. CASE IrqEntry
  <2> DEFINE f == [Top EXCEPT !.at = "work", !.old_in = ini, !.adjust = (c = 0)]
  <2>1. /\ Top.code = "irq" /\ SetTop(f)
        /\ in_interrupt' = [in_interrupt EXCEPT ![curthread] = TRUE]
        /\ curspl' = [curspl EXCEPT ![curthread] = 1]
        /\ iplhigh' = [iplhigh EXCEPT ![curthread] = IF c = 0 THEN k + 1 ELSE k]
        /\ irqs' = irqs
    BY <1>8 DEF IrqEntry, me
  <2>2. failed' = (failed \/ ~(c = 0 => k = 0))
    BY <1>8 DEF IrqEntry, KASSERT, me
  <2>3. failed' = FALSE
    BY <1>4, <1>7, <2>2
  <2>4. (c = 0) \in BOOLEAN
    OBVIOUS
  <2> HIDE DEF c, ini
  <2>5. /\ f \in FrameType /\ f.at = "work" /\ f.code = Top.code /\ f.ie = Top.ie /\ f.user = Top.user
        /\ f.adjust = (c = 0) /\ f.old_in = ini /\ f.raised = Top.raised
        /\ f.spl = Top.spl /\ f.swspl = Top.swspl /\ f.spin = Top.spin /\ f.fail = Top.fail
    BY <1>2, <1>4, <2>4 DEF FrameType
  <2> HIDE DEF f
  <2>6. FrameInv(f, n)
    BY <1>1, <1>2, <1>7, <2>5 DEF FrameInv
  <2>7. FrameLevel(s, f) = 1
    BY <1>7, <2>1, <2>5 DEF FrameLevel, WorkLevel, Base
  <2>8. iplhigh' = [iplhigh EXCEPT ![curthread] = FrameLevel(s, f) + f.spin]
    <3>1. iplhigh' = [iplhigh EXCEPT ![curthread] = IF c = 0 THEN k + 1 ELSE k]
      BY <2>1
    <3> HIDE DEF k
    <3>2. (IF c = 0 THEN k + 1 ELSE k) = 1
      BY <1>7
    <3>3. FrameLevel(s, f) + f.spin = 1
      BY <1>7, <2>5, <2>7
    <3> QED
      BY <3>1, <3>2, <3>3
  <2>9. in_interrupt' \in [TThread -> BOOLEAN] /\ in_interrupt'[curthread] = TRUE
    BY <1>2, <1>5, <2>1
  <2>10. \A t \in TThread \ {curthread} : in_interrupt'[t] = in_interrupt[t]
    BY <1>2, <1>5, <2>1
  <2>11. (f.adjust <=> Under(s, n) = 0) /\ (f.old_in <=> IrqBelow(s, n))
    BY <1>3, <1>7, <2>5
  <2>12. irqs' \in BOOLEAN /\ ~irqs'
    BY <1>6, <2>1 DEF TrapInv, TrapType
  <2>13. FrameLevel(s, f) + f.spin # 0
    BY <1>7, <2>5, <2>7
  <2>14. /\ s = stk[curthread] /\ f \in FrameType /\ SetTop(f)
         /\ f.code = s[n].code /\ FrameInv(f, n) /\ f.at \notin {"switch", "idle"}
         /\ curspl' = [curspl EXCEPT ![curthread] = FrameLevel(s, f)]
    BY <1>2, <2>1, <2>5, <2>6, <2>7
  <2>15. in_interrupt'[curthread] <=>
           IrqBelow(s, n) \/ (f.code = "irq" /\ f.at \notin {"entry", "exit"})
    BY <2>1, <2>5, <2>9
  <2>16. badfault'[curthread] <=> CopyBelow(s, n) \/ f.at = "copy"
    BY <1>3, <1>4, <2>5
  <2>17. \A t \in TThread \ {curthread} : in_interrupt'[t] = in_interrupt[t] /\ badfault'[t] = badfault[t]
    BY <1>4, <2>10
  <2>18. Retops(s, f)
    BY <1>4, <1>5, <2>3, <2>8, <2>9, <2>11, <2>12, <2>14, <2>15, <2>16, <2>17 DEF Retops
  <2> QED
    BY <1>1, <2>5, <2>12, <2>13, <2>18, MyStep
<1>9. CASE TrapEntry
  <2> DEFINE f == [Top EXCEPT !.at = "work"]
  <2>1. /\ Top.code # "irq" /\ SetTop(f) /\ irqs' = (c = 0 /\ k = 0)
        /\ in_interrupt' = in_interrupt /\ curspl' = curspl /\ iplhigh' = iplhigh
    BY <1>9 DEF TrapEntry, level, me
  <2>2. failed' = (failed \/ ~(Top.code = "sys" => c = 0 /\ k = 0))
    BY <1>9 DEF TrapEntry, KASSERT, me
  <2>3. c = 0 /\ k = 0
    BY <1>2, <1>7, <2>1 DEF OverInv
  <2>4. failed' = FALSE
    BY <1>4, <2>2, <2>3
  <2>5. irqs' = TRUE
    BY <2>1, <2>3
  <2>6. /\ f \in FrameType /\ f.at = "work" /\ f.code = Top.code /\ f.ie = Top.ie /\ f.user = Top.user
        /\ f.adjust = Top.adjust /\ f.old_in = Top.old_in /\ f.raised = Top.raised
        /\ f.spl = Top.spl /\ f.swspl = Top.swspl /\ f.spin = Top.spin /\ f.fail = Top.fail
    BY <1>2 DEF FrameType
  <2> HIDE DEF f
  <2>7. FrameInv(f, n)
    BY <1>1, <1>2, <1>7, <2>6 DEF FrameInv
  <2>8. FrameLevel(s, f) = 0 /\ FrameLevel(s, f) + f.spin = 0
    BY <1>7, <2>1, <2>6 DEF FrameLevel, WorkLevel, Base
  <2>9. /\ curspl' = [curspl EXCEPT ![curthread] = FrameLevel(s, f)]
        /\ iplhigh' = [iplhigh EXCEPT ![curthread] = FrameLevel(s, f) + f.spin]
    BY <1>2, <1>5, <2>1, <2>3, <2>8
  <2>10. /\ s = stk[curthread] /\ f \in FrameType /\ SetTop(f)
         /\ f.code = s[n].code /\ FrameInv(f, n) /\ f.at \notin {"switch", "idle"} /\ f.code # "irq"
    BY <1>2, <2>1, <2>6, <2>7
  <2>11. in_interrupt'[curthread] <=>
           IrqBelow(s, n) \/ (f.code = "irq" /\ f.at \notin {"entry", "exit"})
    BY <1>3, <2>1, <2>6
  <2>12. badfault'[curthread] <=> CopyBelow(s, n) \/ f.at = "copy"
    BY <1>3, <1>4, <2>6
  <2>13. \A t \in TThread \ {curthread} : in_interrupt'[t] = in_interrupt[t] /\ badfault'[t] = badfault[t]
    BY <1>4, <2>1
  <2>14. in_interrupt' \in [TThread -> BOOLEAN] /\ irqs' \in BOOLEAN
    BY <1>5, <2>1, <2>5
  <2>15. Retops(s, f)
    BY <1>4, <1>5, <2>4, <2>9, <2>10, <2>11, <2>12, <2>13, <2>14 DEF Retops
  <2> QED
    BY <1>1, <2>5, <2>6, <2>8, <2>15, MyStep
<1> QED
  BY <1>8, <1>9

\* done and done2 of mips_trap: the handler leaves through the exit of the trap.
LEMMA LeaveTrap ==
  ASSUME TrapInv, ~usermode, NEW s, s = stk[curthread], NEW f, SetTop(f),
         Top.at = "work", Top.spin = 0, ~Top.raised, Top.code # "start",
         f \in FrameType, f.at = "exit", f.code = Top.code, f.ie = Top.ie, f.user = Top.user,
         f.adjust = Top.adjust, f.old_in = Top.old_in, f.raised = Top.raised, f.spin = Top.spin,
         f.fail => Top.code = "tlb" /\ ~Top.user,
         curspl' = [curspl EXCEPT ![curthread] = Under(s, Len(s))],
         iplhigh' = [iplhigh EXCEPT ![curthread] = Under(s, Len(s))],
         in_interrupt' \in [TThread -> BOOLEAN], in_interrupt'[curthread] <=> IrqBelow(s, Len(s)),
         \A t \in TThread \ {curthread} : in_interrupt'[t] = in_interrupt[t],
         UNCHANGED <<curthread, usermode, badfault>>, failed' = FALSE,
         irqs' = FALSE, cpustack' = curthread
  PROVE  TrapInv'
<1> DEFINE n == Len(s)
<1>1. /\ s # <<>> /\ n \in Nat /\ n >= 1 /\ Top \in FrameType /\ Top = s[n] /\ FrameInv(Top, n)
      /\ OverInv(s, n)
  BY MyStack
<1>2. badfault[curthread] <=> CopyBelow(s, n)
  BY <1>1, MyStack
<1>3. badfault' = badfault /\ badfault' \in [TThread -> BOOLEAN] /\ usermode' = FALSE
  BY DEF TrapInv, TrapType
<1>4. FrameInv(f, n)
  <2>1. Top.ie /\ (Top.user <=> n = 1 /\ Top.code # "start") /\ (Top.code \in {"start", "sys"} => n = 1)
    BY <1>1 DEF FrameInv
  <2>2. f.ie /\ (f.user <=> n = 1 /\ f.code # "start") /\ (f.code \in {"start", "sys"} => n = 1)
    BY <2>1
  <2>3. f.fail => n # 1
    BY <2>1
  <2>4. f.fail => f.at = "exit" /\ f.code = "tlb" /\ n > 1
    <3>1. n \in Nat /\ n >= 1
      BY <1>1
    <3> HIDE DEF n
    <3>2. n # 1 => n > 1
      BY <3>1
    <3> QED
      BY <2>3, <3>2
  <2>5. ~f.raised /\ f.spin = 0
    OBVIOUS
  <2> QED
    BY <2>2, <2>4, <2>5 DEF FrameInv
<1>5. FrameLevel(s, f) = Under(s, n) /\ Under(s, n) \in {0, 1}
  BY DEF FrameLevel, Under
<1>6. FrameLevel(s, f) + f.spin = Under(s, n)
  BY <1>5
<1>7. f.code = "irq" => (f.adjust <=> Under(s, n) = 0) /\ (f.old_in <=> IrqBelow(s, n))
  BY <1>1 DEF OverInv
<1>8. /\ badfault'[curthread] <=> CopyBelow(s, n) \/ f.at = "copy"
      /\ \A t \in TThread \ {curthread} : in_interrupt'[t] = in_interrupt[t] /\ badfault'[t] = badfault[t]
  BY <1>2, <1>3
<1>9. irqs' \in BOOLEAN
  OBVIOUS
<1>10. Retops(s, f)
  BY <1>1, <1>3, <1>4, <1>5, <1>6, <1>7, <1>8, <1>9 DEF Retops
<1> QED
  BY <1>10, MyStep

LEMMA DoneStep ==
  ASSUME TrapInv, IrqDone \/ TrapDone \/ FatalFault
  PROVE  TrapInv'
<1> DEFINE s == stk[curthread]
           n == Len(s)
           c == curspl[curthread]
           k == iplhigh[curthread]
<1>1. /\ ~usermode /\ Top.at = "work" /\ Top.spin = 0 /\ ~Top.raised /\ Top.code # "start"
      /\ UNCHANGED <<curthread, usermode, badfault>>
  BY DEF IrqDone, TrapDone, FatalFault, Quiet, AtPc
<1>2. /\ s # <<>> /\ n \in Nat /\ n >= 1 /\ Top \in FrameType /\ Top = s[n] /\ FrameInv(Top, n)
      /\ OverInv(s, n) /\ c = FrameLevel(s, Top) /\ k = FrameLevel(s, Top) + Top.spin
      /\ CpuInv(s, k, irqs, FALSE, cpustack = curthread) /\ curthread \in TThread
  BY <1>1, MyStack
<1>3. c = Base(Top) /\ k = Base(Top)
  BY <1>1, <1>2 DEF FrameLevel, WorkLevel, Base
<1>4. /\ failed = FALSE /\ in_interrupt \in [TThread -> BOOLEAN]
      /\ curspl \in [TThread -> {0, 1}] /\ iplhigh \in [TThread -> Nat]
  BY DEF TrapInv, TrapType
<1>5. CASE IrqDone
  <2> DEFINE f == [Top EXCEPT !.at = "exit"]
             old == Top.old_in
  <2>1. /\ Top.code = "irq" /\ SetTop(f) /\ cpustack' = curthread /\ irqs' = irqs
        /\ curspl' = [curspl EXCEPT ![curthread] = IF Top.adjust THEN 0 ELSE c]
        /\ iplhigh' = [iplhigh EXCEPT ![curthread] = IF Top.adjust THEN k - 1 ELSE k]
        /\ in_interrupt' = [in_interrupt EXCEPT ![curthread] = old]
    BY <1>5 DEF IrqDone, TellStack, me
  <2>2. failed' = (failed \/ ~(Top.adjust => c = 1 /\ k = 1))
    BY <1>5 DEF IrqDone, KASSERT, me
  <2>3. c = 1 /\ k = 1
    BY <1>3, <2>1 DEF Base
  <2>4. failed' = FALSE
    BY <1>4, <2>2, <2>3
  <2>5. (Top.adjust <=> Under(s, n) = 0) /\ (old <=> IrqBelow(s, n))
    BY <1>1, <1>2, <2>1 DEF OverInv
  <2>6. Under(s, n) \in {0, 1}
    BY DEF Under
  <2>7. ~irqs
    BY <1>1, <1>2, <2>3 DEF CpuInv
  <2>8. irqs' = FALSE
    BY <2>1, <2>7 DEF TrapInv, TrapType
  <2>9. /\ f \in FrameType /\ f.at = "exit" /\ f.code = Top.code /\ f.ie = Top.ie /\ f.user = Top.user
        /\ f.adjust = Top.adjust /\ f.old_in = Top.old_in /\ f.raised = Top.raised
        /\ f.spin = Top.spin /\ f.fail = Top.fail
    BY <1>2 DEF FrameType
  <2>10. ~f.fail
    BY <1>1, <1>2, <2>9 DEF FrameInv
  <2>11. old \in BOOLEAN
    BY <1>2 DEF FrameType
  <2> HIDE DEF f, old, s, n
  <2>12. in_interrupt' \in [TThread -> BOOLEAN] /\ in_interrupt'[curthread] = old
    BY <1>2, <1>4, <2>1, <2>11
  <2>13. \A t \in TThread \ {curthread} : in_interrupt'[t] = in_interrupt[t]
    BY <1>4, <2>1
  <2> HIDE DEF c, k
  <2>14. (IF Top.adjust THEN 0 ELSE c) = Under(s, n) /\ (IF Top.adjust THEN k - 1 ELSE k) = Under(s, n)
    BY <2>3, <2>5, <2>6
  <2>15. /\ curspl' = [curspl EXCEPT ![curthread] = Under(s, n)]
         /\ iplhigh' = [iplhigh EXCEPT ![curthread] = Under(s, n)]
    BY <2>1, <2>14
  <2>16. in_interrupt'[curthread] <=> IrqBelow(s, n)
    BY <2>5, <2>12
  <2> QED
    BY <1>1, <2>1, <2>4, <2>8, <2>9, <2>10, <2>12, <2>13, <2>15, <2>16, LeaveTrap DEF s, n
<1>6. ASSUME Top.code \in {"sys", "tlb"}, NEW f, SetTop(f), cpustack' = curthread, irqs' = FALSE,
             UNCHANGED <<curspl, iplhigh, in_interrupt>>, failed' = FALSE,
             f \in FrameType, f.at = "exit", f.code = Top.code, f.ie = Top.ie, f.user = Top.user,
             f.adjust = Top.adjust, f.old_in = Top.old_in, f.raised = Top.raised, f.spin = Top.spin,
             f.fail => Top.code = "tlb" /\ ~Top.user
      PROVE  TrapInv'
  <2>1. c = 0 /\ k = 0
    BY <1>3, <1>6 DEF Base
  <2>2. Under(s, n) = 0
    BY <1>2, <1>6 DEF OverInv, Under
  <2>3. /\ curspl' = [curspl EXCEPT ![curthread] = Under(s, n)]
        /\ iplhigh' = [iplhigh EXCEPT ![curthread] = Under(s, n)]
    BY <1>4, <1>6, <2>1, <2>2
  <2>4. in_interrupt[curthread] <=> IrqBelow(s, n)
    BY <1>1, <1>2, <1>6, MyStack
  <2>5. in_interrupt' \in [TThread -> BOOLEAN] /\ in_interrupt' = in_interrupt
    BY <1>4, <1>6
  <2>6. in_interrupt'[curthread] <=> IrqBelow(s, n)
    BY <2>4, <2>5
  <2>7. \A t \in TThread \ {curthread} : in_interrupt'[t] = in_interrupt[t]
    BY <2>5
  <2> HIDE DEF s, n
  <2> QED
    BY <1>1, <1>6, <2>3, <2>5, <2>6, <2>7, LeaveTrap DEF s, n
<1>7. CASE TrapDone
  <2> DEFINE f == [Top EXCEPT !.at = "exit"]
  <2>1. /\ Top.code \in {"sys", "tlb"} /\ SetTop(f) /\ cpustack' = curthread /\ irqs' = FALSE
        /\ UNCHANGED <<curspl, iplhigh, in_interrupt>>
    BY <1>7 DEF TrapDone, TellStack, level, me
  <2>2. failed' = (failed \/ ~(Top.code = "sys" => c = 0 /\ k = 0))
    BY <1>7 DEF TrapDone, KASSERT, me
  <2>3. c = 0 /\ k = 0
    BY <1>3, <2>1 DEF Base
  <2>4. failed' = FALSE
    BY <1>4, <2>2, <2>3
  <2>5. /\ f \in FrameType /\ f.at = "exit" /\ f.code = Top.code /\ f.ie = Top.ie /\ f.user = Top.user
        /\ f.adjust = Top.adjust /\ f.old_in = Top.old_in /\ f.raised = Top.raised
        /\ f.spin = Top.spin /\ f.fail = Top.fail
    BY <1>2 DEF FrameType
  <2>6. ~f.fail
    BY <1>1, <1>2, <2>5 DEF FrameInv
  <2> HIDE DEF f
  <2> QED
    BY <1>6, <2>1, <2>4, <2>5, <2>6
<1>8. CASE FatalFault
  <2>1. /\ Top.code = "tlb" /\ UNCHANGED <<curspl, iplhigh, in_interrupt>>
        /\ \/ Top.user /\ UNCHANGED <<irqs, stk, cpustack, failed>>
           \/ /\ ~Top.user /\ KASSERT(badfault[curthread]) /\ irqs' = FALSE /\ cpustack' = curthread
              /\ SetTop([Top EXCEPT !.at = "exit", !.fail = TRUE])
    BY <1>8 DEF FatalFault, Quiet, TellStack, level, me
  <2>2. CASE UNCHANGED <<irqs, stk, cpustack, failed>>
    <3>1. TrapType'
      BY <1>1, <2>1, <2>2 DEF TrapInv, TrapType
    <3>2. LevelsAgree' /\ OthersSwitched'
      BY <1>1, <2>1, <2>2 DEF TrapInv, LevelsAgree, OthersSwitched
    <3>3. FlagsAgree'
      BY <1>1, <2>1, <2>2 DEF TrapInv, FlagsAgree
    <3>4. CpuAgrees'
      BY <1>1, <2>1, <2>2 DEF TrapInv, CpuAgrees
    <3> QED
      BY <3>1, <3>2, <3>3, <3>4 DEF TrapInv
  <2>3. CASE /\ ~Top.user /\ KASSERT(badfault[curthread]) /\ irqs' = FALSE /\ cpustack' = curthread
             /\ SetTop([Top EXCEPT !.at = "exit", !.fail = TRUE])
    <3> DEFINE f == [Top EXCEPT !.at = "exit", !.fail = TRUE]
    <3>1. n > 1
      <4>1. Top.user <=> n = 1 /\ Top.code # "start"
        BY <1>2 DEF FrameInv
      <4>2. n # 1
        BY <2>1, <2>3, <4>1
      <4>3. n \in Nat /\ n >= 1
        BY <1>2
      <4> HIDE DEF n
      <4> QED
        BY <4>2, <4>3
    <3>2. s[n - 1].at = "copy"
      BY <1>2, <2>1, <3>1 DEF OverInv
    <3>3. n - 1 \in 1 .. n - 1
      BY <1>2, <3>1
    <3>4. CopyBelow(s, n)
      BY <3>2, <3>3 DEF CopyBelow
    <3>5. badfault[curthread]
      BY <1>1, <3>4, MyStack
    <3>6. failed' = FALSE
      BY <1>4, <2>3, <3>5 DEF KASSERT
    <3>7. /\ f \in FrameType /\ f.at = "exit" /\ f.code = Top.code /\ f.ie = Top.ie /\ f.user = Top.user
          /\ f.adjust = Top.adjust /\ f.old_in = Top.old_in /\ f.raised = Top.raised
          /\ f.spin = Top.spin
      BY <1>2 DEF FrameType
    <3>8. SetTop(f) /\ Top.code \in {"sys", "tlb"}
      BY <2>1, <2>3
    <3> HIDE DEF f
    <3> QED
      BY <1>6, <2>1, <2>3, <3>6, <3>7, <3>8
  <2> QED
    BY <2>1, <2>2, <2>3
<1> QED
  BY <1>5, <1>7, <1>8

\* A trap pushes a frame on a stack whose top held no spinlock and let interrupts in.
LEMMA PushFacts ==
  ASSUME NEW s, StackInv(s), NEW f \in FrameType, f.at = "entry", f.code \in {"irq", "sys", "tlb"},
         f.ie, f.user <=> s = <<>>, f.spin = 0, ~f.raised, ~f.fail,
         f.code = "sys" => s = <<>>,
         s # <<>> =>
           LET g == s[Len(s)] IN
           /\ g.at \in {"work", "copy", "idle"} /\ g.spin = 0
           /\ g.at = "work" => ~g.raised /\ g.code # "irq"
           /\ f.code = "tlb" => g.at = "copy"
           /\ g.at = "idle" => f.code = "irq"
  PROVE  LET r == Append(s, f) IN
         /\ ThreadInv(r, Level(s), Level(s)) /\ Spins(s) = 0
         /\ r # <<>> /\ r[Len(r)] = f
         /\ Inside(r) <=> Inside(s)
         /\ Copies(r) <=> Copies(s)
<1> DEFINE r == Append(s, f)
           n == Len(s)
<1>1. s \in Seq(FrameType) /\ n \in Nat /\ (s # <<>> => n >= 1) /\ (s = <<>> => n = 0)
  BY DEF StackInv
<1>2. /\ r \in Seq(FrameType) /\ Len(r) = n + 1 /\ r[n + 1] = f /\ r # <<>>
      /\ \A i \in 1 .. n : r[i] = s[i]
  BY <1>1
<1>3. /\ \A i \in 1 .. n : FrameInv(s[i], i) /\ OverInv(s, i)
      /\ \A i \in 1 .. n - 1 : BelowInv(s, i)
  BY DEF StackInv
<1> DEFINE g == s[n]
<1>4. s # <<>> => /\ g.at \in {"work", "copy", "idle"} /\ g.spin = 0
                  /\ g.at = "work" => ~g.raised /\ g.code # "irq"
                  /\ f.code = "tlb" => g.at = "copy"
                  /\ g.at = "idle" => f.code = "irq"
  OBVIOUS
<1>5. Level(s) = (IF s = <<>> THEN 0 ELSE FrameLevel(s, g)) /\ Spins(s) = (IF s = <<>> THEN 0 ELSE g.spin)
  BY DEF Level, Spins
<1> HIDE DEF r, n
<1>6. \A i : i \in 1 .. n + 1 => i \in 1 .. n \/ i = n + 1
  BY <1>1
<1>7. \A i \in 1 .. n : /\ i > 1 => i - 1 \in 1 .. n
                        /\ Under(r, i) = Under(s, i)
                        /\ IrqBelow(r, i) <=> IrqBelow(s, i)
  <2> SUFFICES ASSUME NEW i \in 1 .. n
               PROVE  /\ i > 1 => i - 1 \in 1 .. n
                      /\ Under(r, i) = Under(s, i)
                      /\ IrqBelow(r, i) <=> IrqBelow(s, i)
    OBVIOUS
  <2>1. i > 1 => i - 1 \in 1 .. n
    BY <1>1
  <2>2. \A j \in 1 .. i - 1 : r[j] = s[j]
    BY <1>1, <1>2
  <2> QED
    BY <1>2, <2>1, <2>2 DEF Under, IrqBelow
<1>8. s # <<>> => n \in 1 .. n /\ r[n] = g /\ FrameInv(g, n) /\ OverInv(s, n)
  BY <1>1, <1>2, <1>3
<1>9. s # <<>> => Under(s, n) = 0
  BY <1>4, <1>8 DEF OverInv, FrameInv, Under
<1>10. Under(r, n + 1) = (IF s # <<>> /\ g.at = "idle" THEN 1 ELSE 0)
  <2>1. n + 1 > 1 <=> s # <<>>
    BY <1>1
  <2>2. n + 1 - 1 = n
    BY <1>1
  <2> QED
    BY <1>8, <2>1, <2>2 DEF Under
<1>11. FrameInv(f, n + 1)
  <2>1. n + 1 = 1 <=> s = <<>>
    BY <1>1
  <2> QED
    BY <2>1 DEF FrameInv
<1>12. OverInv(r, n + 1)
  <2>1. (n + 1 > 1 => s # <<>>) /\ n + 1 - 1 = n
    BY <1>1
  <2> QED
    BY <1>2, <1>4, <1>8, <1>10, <2>1 DEF OverInv
<1>13. \A i \in 1 .. n : FrameInv(r[i], i) /\ OverInv(r, i)
  BY <1>2, <1>3, <1>7 DEF OverInv
<1>14. ASSUME NEW i \in 1 .. n PROVE BelowInv(r, i)
  <2>1. r[i] = s[i] /\ s # <<>>
    BY <1>1, <1>2
  <2>2. CASE i = n
    BY <1>1, <1>2, <1>4, <2>1, <2>2 DEF BelowInv
  <2>3. CASE i # n
    <3>1. i \in 1 .. n - 1
      BY <1>1, <2>3
    <3>2. BelowInv(s, i)
      BY <1>3, <3>1
    <3>3. s[i].at # "idle"
      <4> SUFFICES ASSUME s[i].at = "idle" PROVE FALSE
        OBVIOUS
      <4>1. i + 1 = n
        BY <3>2 DEF BelowInv, n
      <4>2. n > 1 /\ n - 1 = i
        BY <1>1, <4>1
      <4>3. Under(s, n) = 1
        BY <4>2 DEF Under
      <4> QED
        BY <1>9, <2>1, <4>3
    <3> QED
      BY <2>1, <3>2, <3>3 DEF BelowInv
  <2> QED
    BY <2>2, <2>3
<1>15. StackInv(r)
  <2>1. \A i \in 1 .. Len(r) : FrameInv(r[i], i) /\ OverInv(r, i)
    BY <1>2, <1>6, <1>11, <1>12, <1>13
  <2>2. Len(r) - 1 = n
    BY <1>1, <1>2
  <2> QED
    BY <1>2, <1>14, <2>1, <2>2 DEF StackInv
<1>16. Level(r) = Under(r, n + 1) /\ Spins(r) = 0
  BY <1>2 DEF Level, FrameLevel, Spins
<1>17. Level(s) = Under(r, n + 1) /\ Spins(s) = 0
  BY <1>4, <1>5, <1>10 DEF FrameLevel, WorkLevel, Base
<1>18. ThreadInv(r, Level(s), Level(s))
  <2>1. Level(s) \in {0, 1}
    BY <1>10, <1>17
  <2> QED
    BY <1>15, <1>16, <1>17, <2>1 DEF ThreadInv
<1>19. \A i \in 1 .. n : s[i].at \notin {"entry", "exit"}
  <2> SUFFICES ASSUME NEW i \in 1 .. n PROVE s[i].at \notin {"entry", "exit"}
    OBVIOUS
  <2>1. s # <<>>
    BY <1>1
  <2>2. BelowInv(r, i) /\ r[i] = s[i]
    BY <1>2, <1>14
  <2> QED
    BY <2>2 DEF BelowInv
<1>20. n \in Nat /\ \A i \in 1 .. n : i \in 1 .. n + 1
  BY <1>1
<1>21. Inside(r) <=> Inside(s)
  BY <1>2, <1>6, <1>20 DEF Inside, n
<1>22. Copies(r) <=> Copies(s)
  BY <1>2, <1>6, <1>20 DEF Copies, n
<1>23. r[Len(r)] = f
  BY <1>2
<1> QED
  BY <1>2, <1>17, <1>18, <1>21, <1>22, <1>23 DEF r

\* The processor takes a trap only where the stack's top may be trapped.
LEMMA ExceptionStep ==
  ASSUME TrapInv, NEW code \in {"irq", "sys", "tlb"}, common_exception(code)
  PROVE  TrapInv'
<1> DEFINE s == stk[curthread]
           k == iplhigh[curthread]
           f == Frame(code, irqs, usermode, "entry")
           g == s[Len(s)]
<1>1. /\ MayTrap(code) /\ (~usermode => Top.at \in {"work", "copy", "idle"})
      /\ stk' = [stk EXCEPT ![curthread] = Append(s, f)]
      /\ irqs' = FALSE /\ usermode' = FALSE
      /\ UNCHANGED <<curspl, iplhigh, curthread, in_interrupt, badfault, cpustack>>
  BY DEF common_exception, level, me
<1>2. failed' = (failed \/ ~(usermode => cpustack = curthread))
  BY DEF common_exception, KASSERT, me
<1>3. /\ curthread \in TThread /\ failed = FALSE /\ irqs \in BOOLEAN /\ usermode \in BOOLEAN
      /\ s \in Seq(FrameType) /\ k \in Nat
      /\ curspl \in [TThread -> {0, 1}] /\ iplhigh \in [TThread -> Nat]
      /\ in_interrupt \in [TThread -> BOOLEAN] /\ badfault \in [TThread -> BOOLEAN]
  BY DEF TrapInv, TrapType
<1>4. ThreadInv(s, curspl[curthread], k)
  BY <1>3 DEF TrapInv, LevelsAgree
<1>5. CpuInv(s, k, irqs, usermode, cpustack = curthread)
  BY DEF TrapInv, CpuAgrees
<1>6. failed' = FALSE
  <2>1. usermode => cpustack = curthread
    BY <1>5 DEF CpuInv
  <2> QED
    BY <1>2, <1>3, <2>1
<1>7. usermode <=> s = <<>>
  BY <1>5 DEF CpuInv
<1>8. ~usermode => /\ Top = g /\ g \in FrameType /\ FrameInv(g, Len(s))
                   /\ k = FrameLevel(s, g) + g.spin
  BY MyStack
<1>9. ~usermode => /\ g.at \in {"work", "copy", "idle"} /\ g.spin \in Nat
                   /\ g.at \in {"work", "copy"} => (irqs <=> k = 0)
                   /\ g.at \in {"copy", "idle"} => g.spin = 0
                   /\ g.at = "copy" => k = 0
  <2> SUFFICES ASSUME ~usermode
               PROVE  /\ g.at \in {"work", "copy", "idle"} /\ g.spin \in Nat
                      /\ g.at \in {"work", "copy"} => (irqs <=> k = 0)
                      /\ g.at \in {"copy", "idle"} => g.spin = 0
                      /\ g.at = "copy" => k = 0
    OBVIOUS
  <2>1. g.at \in {"work", "copy", "idle"} /\ g.spin \in Nat
    BY <1>1, <1>8 DEF FrameType
  <2>2. g.at \in {"work", "copy"} => (irqs <=> k = 0)
    BY <1>5 DEF CpuInv
  <2>3. g.at \in {"copy", "idle"} => g.spin = 0
    BY <1>8 DEF FrameInv
  <2>4. g.at = "copy" => k = 0
    BY <1>8, <2>3 DEF FrameLevel
  <2> QED
    BY <2>1, <2>2, <2>3, <2>4
<1>10. /\ code = "sys" => s = <<>>
       /\ ~usermode /\ code = "tlb" => g.at = "copy"
       /\ code = "irq" => irqs
  BY <1>1, <1>7, <1>8 DEF MayTrap
<1>11. irqs
  <2>1. usermode => irqs
    BY <1>5 DEF CpuInv
  <2>2. ~usermode /\ code = "tlb" => irqs
    BY <1>9, <1>10
  <2> QED
    BY <1>7, <1>10, <2>1, <2>2
<1>12. ~usermode /\ g.at = "work" => g.spin = 0 /\ ~g.raised /\ g.code # "irq"
  <2> SUFFICES ASSUME ~usermode, g.at = "work" PROVE g.spin = 0 /\ ~g.raised /\ g.code # "irq"
    OBVIOUS
  <2>1. k = 0
    BY <1>9, <1>11
  <2>2. FrameLevel(s, g) = WorkLevel(g) /\ WorkLevel(g) \in {0, 1}
    BY DEF FrameLevel, WorkLevel, Base
  <2>3. WorkLevel(g) = 0 /\ g.spin = 0
    BY <1>8, <1>9, <2>1, <2>2
  <2> QED
    BY <2>3 DEF WorkLevel, Base
<1>13. ~usermode /\ g.at = "idle" => code = "irq"
  BY <1>7, <1>10
<1>14. /\ f \in FrameType /\ f.at = "entry" /\ f.code = code /\ f.ie = irqs /\ f.user = usermode
       /\ f.spin = 0 /\ f.raised = FALSE /\ f.fail = FALSE
  BY <1>3 DEF Frame, FrameType
<1>15. StackInv(s) /\ curspl[curthread] = Level(s) /\ k = Level(s) + Spins(s)
  BY <1>4 DEF ThreadInv
<1> DEFINE r == Append(s, f)
<1> HIDE DEF f, s, k
<1>16. s # <<>> => /\ g.at \in {"work", "copy", "idle"} /\ g.spin = 0
                   /\ g.at = "work" => ~g.raised /\ g.code # "irq"
                   /\ f.code = "tlb" => g.at = "copy"
                   /\ g.at = "idle" => f.code = "irq"
  BY <1>7, <1>9, <1>10, <1>12, <1>13, <1>14
<1>17. f.ie /\ (f.user <=> s = <<>>) /\ ~f.raised /\ ~f.fail /\ (f.code = "sys" => s = <<>>)
  BY <1>7, <1>10, <1>11, <1>14
<1>18. /\ ThreadInv(r, Level(s), Level(s)) /\ Spins(s) = 0
       /\ r # <<>> /\ r[Len(r)] = f
       /\ Inside(r) <=> Inside(s)
       /\ Copies(r) <=> Copies(s)
  BY <1>14, <1>15, <1>16, <1>17, PushFacts
<1>19. r \in Seq(FrameType)
  BY <1>18 DEF ThreadInv, StackInv
<1>20. stk' = [stk EXCEPT ![curthread] = r]
  BY <1>1 DEF s
<1> HIDE DEF r
<1>21. k = Level(s) /\ curspl[curthread] \in {0, 1}
  BY <1>3, <1>15, <1>18
<1>22. ThreadInv(r, curspl[curthread], k)
  BY <1>15, <1>18, <1>21
<1>23. /\ curspl' = [curspl EXCEPT ![curthread] = curspl[curthread]]
       /\ iplhigh' = [iplhigh EXCEPT ![curthread] = k]
  BY <1>1, <1>3 DEF k
<1>24. /\ in_interrupt[curthread] <=> Inside(s)
       /\ badfault[curthread] <=> Copies(s)
  BY <1>3 DEF TrapInv, FlagsAgree, s
<1>25. in_interrupt' = in_interrupt /\ badfault' = badfault
  BY <1>1
<1>26. FlagsBecome(r)
  BY <1>3, <1>18, <1>24, <1>25 DEF FlagsBecome
<1>27. RecordBecomes(r, curspl[curthread], k)
  BY <1>3, <1>6, <1>19, <1>20, <1>21, <1>22, <1>23, <1>26 DEF RecordBecomes
<1>28. CpuInv(r, k, irqs', usermode', cpustack' = curthread)
  BY <1>1, <1>14, <1>18 DEF CpuInv
<1>29. curthread' = curthread /\ irqs' \in BOOLEAN /\ usermode' \in BOOLEAN
  BY <1>1
<1> QED
  BY <1>27, <1>28, <1>29, StayStep

\* A trap's return uncovers the frame it found.
LEMMA PopFacts ==
  ASSUME NEW s, StackInv(s), s # <<>>
  PROVE  LET r == Front(s)
             n == Len(s)
         IN  /\ StackInv(r) /\ Level(r) = Under(s, n) /\ Spins(r) = 0 /\ Len(r) = n - 1
             /\ r = <<>> <=> n = 1
             /\ Inside(r) <=> IrqBelow(s, n)
             /\ Copies(r) <=> CopyBelow(s, n)
             /\ n > 1 => BelowInv(s, n - 1) /\ r[n - 1] = s[n - 1]
<1> DEFINE r == Front(s)
           n == Len(s)
<1>1. s \in Seq(FrameType) /\ n \in Nat /\ n >= 1
  BY DEF StackInv
<1>2. r \in Seq(FrameType) /\ Len(r) = n - 1 /\ \A i \in 1 .. n - 1 : r[i] = s[i]
  <2>1. r = SubSeq(s, 1, n - 1)
    BY DEF Front
  <2> DEFINE m == n - 1
  <2>2. m \in Nat /\ \A i \in 1 .. m : s[i] \in FrameType
    BY <1>1
  <2> HIDE DEF r, n, m
  <2>3. 1 \in Int /\ m \in Int
    BY <2>2
  <2>4. /\ SubSeq(s, 1, m) \in Seq(FrameType)
        /\ Len(SubSeq(s, 1, m)) = IF 1 <= m THEN m - 1 + 1 ELSE 0
        /\ \A i \in 1 .. m - 1 + 1 : SubSeq(s, 1, m)[i] = s[1 + i - 1]
    BY <2>2, <2>3, SubSeqProperties
  <2>5. (IF 1 <= m THEN m - 1 + 1 ELSE 0) = m /\ \A i \in 1 .. m : i \in 1 .. m - 1 + 1 /\ 1 + i - 1 = i
    BY <2>2
  <2>6. Len(SubSeq(s, 1, m)) = m /\ \A i \in 1 .. m : SubSeq(s, 1, m)[i] = s[i]
    BY <2>4, <2>5
  <2> QED
    BY <2>1, <2>4, <2>6 DEF m
<1>3. /\ \A i \in 1 .. n : FrameInv(s[i], i) /\ OverInv(s, i)
      /\ \A i \in 1 .. n - 1 : BelowInv(s, i)
  BY DEF StackInv
<1> HIDE DEF r
<1>4. r = <<>> <=> n = 1
  BY <1>1, <1>2
<1>5. n > 1 => n - 1 \in 1 .. n - 1
  BY <1>1
<1>6. n > 1 => BelowInv(s, n - 1) /\ r[n - 1] = s[n - 1]
  BY <1>2, <1>3, <1>5
<1>7. ASSUME NEW i \in 1 .. n - 1 PROVE FrameInv(r[i], i) /\ OverInv(r, i)
  <2>1. i \in 1 .. n /\ (i > 1 => i - 1 \in 1 .. n - 1)
    BY <1>1
  <2>2. \A j \in 1 .. i - 1 : r[j] = s[j]
    BY <1>1, <1>2
  <2>3. Under(r, i) = Under(s, i) /\ (IrqBelow(r, i) <=> IrqBelow(s, i))
    BY <1>2, <2>1, <2>2 DEF Under, IrqBelow
  <2>4. r[i] = s[i] /\ (i > 1 => r[i - 1] = s[i - 1])
    BY <1>2, <2>1
  <2> QED
    BY <1>3, <2>1, <2>3, <2>4 DEF OverInv
<1>8. ASSUME NEW i \in 1 .. (n - 1) - 1 PROVE BelowInv(r, i)
  <2>1. i \in 1 .. n - 1 /\ ~(i + 1 = n)
    BY <1>1
  <2>2. BelowInv(s, i) /\ r[i] = s[i]
    BY <1>2, <1>3, <2>1
  <2>3. s[i].at # "idle"
    BY <2>1, <2>2 DEF BelowInv
  <2> QED
    BY <2>2, <2>3 DEF BelowInv
<1>9. StackInv(r)
  BY <1>2, <1>7, <1>8 DEF StackInv
<1>10. Level(r) = Under(s, n) /\ Spins(r) = 0
  <2>1. CASE n = 1
    BY <1>4, <2>1 DEF Level, Spins, Under
  <2>2. CASE n # 1
    <3>1. n > 1 /\ r # <<>> /\ Len(r) = n - 1
      BY <1>1, <1>2, <1>4, <2>2
    <3>2. BelowInv(s, n - 1) /\ r[n - 1] = s[n - 1]
      BY <1>6, <3>1
    <3> HIDE DEF n
    <3>3. Level(r) = FrameLevel(r, s[n - 1]) /\ Spins(r) = s[n - 1].spin
      BY <3>1, <3>2 DEF Level, Spins
    <3> QED
      BY <3>1, <3>2, <3>3 DEF FrameLevel, WorkLevel, Base, BelowInv, Under
  <2> QED
    BY <2>1, <2>2
<1>11. \A i \in 1 .. n - 1 : s[i].at \notin {"entry", "exit"}
  BY <1>3 DEF BelowInv
<1>12. Inside(r) <=> IrqBelow(s, n)
  BY <1>2, <1>11 DEF Inside, IrqBelow
<1>13. Copies(r) <=> CopyBelow(s, n)
  BY <1>2 DEF Copies, CopyBelow
<1> QED
  BY <1>2, <1>4, <1>6, <1>9, <1>10, <1>12, <1>13 DEF r

\* copyfail's longjmp ends the copy below.
LEMMA FailFacts ==
  ASSUME NEW b, StackInv(b), b # <<>>, b[Len(b)].at = "copy"
  PROVE  LET r == [b EXCEPT ![Len(b)].at = "work"] IN
         /\ ThreadInv(r, 0, 0) /\ r # <<>> /\ r[Len(r)].at = "work"
         /\ Inside(r) <=> Inside(b)
         /\ ~Copies(r)
<1> DEFINE n == Len(b)
           g == b[n]
           f == [g EXCEPT !.at = "work"]
           r == [b EXCEPT ![n].at = "work"]
           q == Front(b) \o <<f>>
<1>1. b \in Seq(FrameType) /\ n \in Nat /\ n >= 1 /\ n \in 1 .. n /\ g \in FrameType
  BY DEF StackInv
<1>2. FrameInv(g, n) /\ OverInv(b, n) /\ g.at = "copy"
  BY <1>1 DEF StackInv
<1>3. /\ f \in FrameType /\ f.at = "work" /\ f.code = g.code /\ f.ie = g.ie /\ f.user = g.user
      /\ f.adjust = g.adjust /\ f.old_in = g.old_in /\ f.raised = g.raised
      /\ f.spl = g.spl /\ f.swspl = g.swspl /\ f.spin = g.spin /\ f.fail = g.fail
  BY <1>1 DEF FrameType
<1>4. g.code = "sys" /\ g.spin = 0 /\ ~g.raised /\ n = 1
  BY <1>2 DEF FrameInv
<1>5. r = q
  <2>1. r = [b EXCEPT ![n] = f]
    BY <1>1
  <2>2. r \in Seq(FrameType) /\ Len(r) = 1 /\ r[1] = f
    BY <1>1, <1>3, <1>4, <2>1
  <2>3. q \in Seq(FrameType) /\ Len(q) = 1 /\ q[1] = f
    BY <1>1, <1>3, <1>4 DEF Front
  <2> HIDE DEF r, q, f
  <2>4. Len(r) = Len(q) /\ \A i \in 1 .. Len(r) : r[i] = q[i]
    BY <2>2, <2>3
  <2> QED
    BY <2>2, <2>3, <2>4
<1>6. FrameInv(f, n)
  <2> HIDE DEF f
  <2> QED
    BY <1>2, <1>3, <1>4 DEF FrameInv
<1>7. /\ ThreadInv(q, FrameLevel(b, f), FrameLevel(b, f) + f.spin)
      /\ q # <<>> /\ q[Len(q)] = f
      /\ Inside(q) <=> IrqBelow(b, n) \/ (f.code = "irq" /\ f.at \notin {"entry", "exit"})
      /\ Copies(q) <=> CopyBelow(b, n) \/ f.at = "copy"
  <2>1. f.code = b[Len(b)].code /\ f.at \notin {"switch", "idle"} /\ f.code # "irq" /\ f \in FrameType
        /\ FrameInv(f, Len(b))
    BY <1>3, <1>4, <1>6
  <2> HIDE DEF f, q, g
  <2> QED
    BY <2>1, RetopThread DEF q
<1>8. FrameLevel(b, f) = 0 /\ FrameLevel(b, f) + f.spin = 0
  <2> HIDE DEF f, g
  <2> QED
    BY <1>3, <1>4 DEF FrameLevel, WorkLevel, Base
<1>9. ~CopyBelow(b, n) /\ ~IrqBelow(b, n)
  BY <1>4 DEF CopyBelow, IrqBelow
<1>10. Inside(b) <=> IrqBelow(b, n) \/ (g.code = "irq" /\ g.at \notin {"entry", "exit"})
  BY InsideFacts
<1> HIDE DEF f, q, r, g
<1>11. /\ ThreadInv(q, 0, 0) /\ q # <<>> /\ q[Len(q)].at = "work"
       /\ Inside(q) <=> Inside(b)
       /\ ~Copies(q)
  BY <1>3, <1>4, <1>7, <1>8, <1>9, <1>10
<1> QED
  BY <1>5, <1>11 DEF r

LEMMA ReturnStep ==
  ASSUME TrapInv, exception_return
  PROVE  TrapInv'
<1> DEFINE s == stk[curthread]
           n == Len(s)
           b == Front(s)
           c == curspl[curthread]
           k == iplhigh[curthread]
           r == IF ~Top.fail THEN b ELSE [b EXCEPT ![Len(b)].at = "work"]
<1>1. /\ ~usermode /\ Top.at = "exit" /\ irqs' = Top.ie /\ usermode' = Top.user
      /\ stk' = [stk EXCEPT ![curthread] = r]
      /\ badfault' = [badfault EXCEPT ![curthread] = badfault[curthread] /\ ~Top.fail]
      /\ UNCHANGED <<curspl, iplhigh, curthread, in_interrupt, cpustack, failed>>
  BY DEF exception_return, AtPc, level, me
<1>2. /\ s # <<>> /\ StackInv(s) /\ n \in Nat /\ n >= 1
      /\ Top = s[n] /\ Top \in FrameType /\ FrameInv(Top, n) /\ OverInv(s, n)
      /\ c = FrameLevel(s, Top) /\ k = FrameLevel(s, Top) + Top.spin
      /\ CpuInv(s, k, irqs, FALSE, cpustack = curthread)
      /\ curthread \in TThread
  BY <1>1, MyStack
<1>3. /\ in_interrupt[curthread] <=> IrqBelow(s, n)
      /\ badfault[curthread] <=> CopyBelow(s, n)
  BY <1>1, MyStack
<1>4. /\ failed' = FALSE /\ curspl \in [TThread -> {0, 1}] /\ iplhigh \in [TThread -> Nat]
      /\ in_interrupt \in [TThread -> BOOLEAN] /\ badfault \in [TThread -> BOOLEAN]
  BY <1>1 DEF TrapInv, TrapType
<1>5. /\ StackInv(b) /\ Level(b) = Under(s, n) /\ Spins(b) = 0 /\ Len(b) = n - 1
      /\ b = <<>> <=> n = 1
      /\ Inside(b) <=> IrqBelow(s, n)
      /\ Copies(b) <=> CopyBelow(s, n)
      /\ n > 1 => BelowInv(s, n - 1) /\ b[n - 1] = s[n - 1]
  BY <1>2, PopFacts
<1>6. c = Under(s, n) /\ k = Under(s, n) /\ Under(s, n) \in {0, 1}
  BY <1>1, <1>2 DEF FrameInv, FrameLevel, Under
<1>7. cpustack' = curthread
  BY <1>1, <1>2 DEF CpuInv
<1>8. irqs' \in BOOLEAN /\ usermode' \in BOOLEAN /\ irqs' = TRUE
  <2>1. Top.ie \in BOOLEAN /\ Top.user \in BOOLEAN
    BY <1>2 DEF FrameType
  <2>2. Top.ie
    BY <1>2 DEF FrameInv
  <2> QED
    BY <1>1, <2>1, <2>2
<1>9. usermode' <=> n = 1
  <2>1. Top.user <=> n = 1 /\ Top.code # "start"
    BY <1>2 DEF FrameInv
  <2>2. Top.code # "start"
    BY <1>1, <1>2 DEF FrameInv
  <2> QED
    BY <1>1, <2>1, <2>2
<1>10. /\ curspl' = [curspl EXCEPT ![curthread] = c]
       /\ iplhigh' = [iplhigh EXCEPT ![curthread] = k]
  BY <1>1, <1>4
<1>11. in_interrupt' = in_interrupt
  BY <1>1
<1>12. badfault' \in [TThread -> BOOLEAN]
  BY <1>1, <1>4
<1>13. badfault'[curthread] <=> badfault[curthread] /\ ~Top.fail
  BY <1>1, <1>2, <1>4
<1>14. \A t \in TThread \ {curthread} : badfault'[t] = badfault[t]
  BY <1>1, <1>4
<1>15. n > 1 => n # 1
  BY <1>2
<1>16. n # 1 => n > 1
  <2>1. n \in Nat /\ n >= 1
    BY <1>2
  <2> HIDE DEF n
  <2> QED
    BY <2>1
<1>17. CASE ~Top.fail
  <2>1. r = b
    BY <1>17
  <2> HIDE DEF r, b, s, n, c, k
  <2>2. ThreadInv(b, c, k)
    BY <1>5, <1>6 DEF ThreadInv
  <2>3. b \in Seq(FrameType) /\ c \in {0, 1} /\ k \in Nat
    BY <1>5, <1>6 DEF StackInv
  <2>4. FlagsBecome(b)
    <3>1. in_interrupt'[curthread] <=> Inside(b)
      BY <1>3, <1>5, <1>11
    <3>2. badfault'[curthread] <=> Copies(b)
      BY <1>3, <1>5, <1>13, <1>17
    <3> QED
      BY <1>4, <1>11, <1>12, <1>14, <3>1, <3>2 DEF FlagsBecome
  <2>5. RecordBecomes(b, c, k)
    BY <1>1, <1>4, <1>10, <2>1, <2>2, <2>3, <2>4 DEF RecordBecomes
  <2>6. n # 1 => LET g == b[Len(b)] IN
                 g.at \in {"work", "copy", "idle"} /\ (g.at \in {"work", "copy"} => k = 0)
    <3> SUFFICES ASSUME n # 1
                 PROVE  LET g == b[Len(b)] IN
                        g.at \in {"work", "copy", "idle"} /\ (g.at \in {"work", "copy"} => k = 0)
      OBVIOUS
    <3>1. BelowInv(s, n - 1) /\ b[Len(b)] = s[n - 1]
      BY <1>5, <1>16
    <3> QED
      BY <1>6, <3>1 DEF BelowInv, Under
  <2>7. CpuInv(b, k, irqs', usermode', cpustack' = curthread)
    <3>1. usermode' <=> b = <<>>
      BY <1>5, <1>9
    <3>2. ~usermode' => LET g == b[Len(b)] IN
             /\ g.at \in {"work", "copy", "switch"} => (irqs' <=> k = 0)
             /\ g.at \in {"entry", "exit"} => ~irqs'
             /\ g.at = "exit" => cpustack' = curthread
      BY <1>8, <1>9, <2>6
    <3> QED
      BY <1>7, <1>8, <3>1, <3>2 DEF CpuInv
  <2> QED
    BY <1>1, <1>8, <2>5, <2>7, StayStep
<1>18. CASE Top.fail
  <2>1. r = [b EXCEPT ![Len(b)].at = "work"]
    BY <1>18
  <2>2. n > 1 /\ Top.code = "tlb"
    BY <1>2, <1>18 DEF FrameInv
  <2>3. s[n - 1].at = "copy"
    BY <1>2, <2>2 DEF OverInv
  <2>4. b # <<>> /\ b[Len(b)].at = "copy"
    BY <1>5, <1>15, <2>2, <2>3
  <2>5. Under(s, n) = 0
    BY <2>3 DEF Under
  <2> HIDE DEF r, b, s, n
  <2>6. /\ ThreadInv(r, 0, 0) /\ r # <<>> /\ r[Len(r)].at = "work"
        /\ Inside(r) <=> Inside(b)
        /\ ~Copies(r)
    BY <1>5, <2>1, <2>4, FailFacts
  <2>7. r \in Seq(FrameType) /\ c = 0 /\ k = 0
    BY <1>6, <2>5, <2>6 DEF ThreadInv, StackInv
  <2> HIDE DEF c, k
  <2>8. FlagsBecome(r)
    <3>1. in_interrupt'[curthread] <=> Inside(r)
      BY <1>3, <1>5, <1>11, <2>6
    <3>2. badfault'[curthread] <=> Copies(r)
      BY <1>13, <1>18, <2>6
    <3> QED
      BY <1>4, <1>11, <1>12, <1>14, <3>1, <3>2 DEF FlagsBecome
  <2>9. RecordBecomes(r, 0, 0)
    BY <1>1, <1>4, <1>10, <2>6, <2>7, <2>8 DEF RecordBecomes
  <2>10. ~usermode'
    BY <1>9, <1>15, <2>2
  <2>11. CpuInv(r, 0, irqs', usermode', cpustack' = curthread)
    BY <1>8, <2>6, <2>10 DEF CpuInv
  <2> QED
    BY <1>1, <1>8, <2>9, <2>11, StayStep
<1> QED
  BY <1>17, <1>18

LEMMA UsermodeStep ==
  ASSUME TrapInv, mips_usermode
  PROVE  TrapInv'
<1> DEFINE s == stk[curthread]
           n == Len(s)
<1>1. /\ ~usermode /\ Top.at = "work" /\ Top.spin = 0 /\ ~Top.raised /\ Top.code = "start"
      /\ curspl' = [curspl EXCEPT ![curthread] = 0]
      /\ iplhigh' = [iplhigh EXCEPT ![curthread] =
                      IF curspl[curthread] = 1 THEN iplhigh[curthread] - 1 ELSE iplhigh[curthread]]
      /\ cpustack' = curthread /\ stk' = [stk EXCEPT ![curthread] = <<>>]
      /\ irqs' = TRUE /\ usermode' = TRUE
      /\ UNCHANGED <<curthread, in_interrupt, badfault, failed>>
  BY DEF mips_usermode, Quiet, AtPc, TellStack, me
<1>2. /\ Top = s[n] /\ FrameInv(Top, n) /\ curspl[curthread] = FrameLevel(s, Top)
      /\ iplhigh[curthread] = FrameLevel(s, Top) + Top.spin /\ curthread \in TThread
  BY <1>1, MyStack
<1>3. /\ in_interrupt[curthread] <=> IrqBelow(s, n)
      /\ badfault[curthread] <=> CopyBelow(s, n)
  BY <1>1, MyStack
<1>4. n = 1
  BY <1>1, <1>2 DEF FrameInv
<1>5. ~IrqBelow(s, n) /\ ~CopyBelow(s, n)
  BY <1>4 DEF IrqBelow, CopyBelow
<1>6. curspl[curthread] = 0 /\ iplhigh[curthread] = 0
  BY <1>1, <1>2 DEF FrameLevel, WorkLevel, Base
<1>7. iplhigh' = [iplhigh EXCEPT ![curthread] = 0]
  BY <1>1, <1>6
<1>8. /\ failed' = FALSE /\ in_interrupt' \in [TThread -> BOOLEAN] /\ badfault' \in [TThread -> BOOLEAN]
      /\ in_interrupt' = in_interrupt /\ badfault' = badfault
  BY <1>1 DEF TrapInv, TrapType
<1> DEFINE e == <<>>
<1>9. e \in Seq(FrameType) /\ Len(e) = 0 /\ e = <<>>
  OBVIOUS
<1>10. StackInv(e) /\ ~Inside(e) /\ ~Copies(e)
  BY <1>9 DEF StackInv, Inside, Copies
<1>11. Level(e) = 0 /\ Spins(e) = 0
  BY DEF Level, Spins
<1>12. ThreadInv(e, 0, 0)
  BY <1>10, <1>11 DEF ThreadInv
<1>13. FlagsBecome(e)
  BY <1>3, <1>5, <1>8, <1>10 DEF FlagsBecome
<1>14. RecordBecomes(e, 0, 0)
  BY <1>1, <1>7, <1>8, <1>9, <1>12, <1>13 DEF RecordBecomes
<1>15. CpuInv(e, 0, irqs', usermode', cpustack' = curthread)
  BY <1>1, <1>9 DEF CpuInv
<1> HIDE DEF e
<1> QED
  BY <1>1, <1>14, <1>15, StayStep

\* Addresses wrap once at most.
LEMMA AddressWraps ==
  ASSUME NEW A \in Nat, A > 0, NEW x \in Int, 0 <= x, x < A + A
  PROVE  (x < A => (x % A) = x) /\ (x >= A => (x % A) = x - A)
OBVIOUS

LEMMA Confined ==
  CopyIsConfined
<1> SUFFICES ASSUME NEW bot \in 0 .. AddrMax - 1, NEW len \in 0 .. AddrMax - 1
             PROVE  CopyinTouches(bot, len) \cup CopystrTouches(bot, len) \subseteq 0 .. USERSPACETOP - 1
  BY DEF CopyIsConfined
<1> DEFINE A == AddrMax
           top == Width(bot + len - 1)
<1>1. A \in Nat /\ A > 0 /\ USERSPACETOP \in Nat /\ USERSPACETOP > 0 /\ USERSPACETOP < A
  BY TrapAssumption DEF AddrMax
<1>2. top = ((bot + len - 1) % A)
  BY DEF Width
<1> HIDE DEF A
<1>3. bot \in Nat /\ len \in Nat /\ bot < A /\ len < A
  BY <1>1 DEF A
<1>4. len > 0 => bot + len - 1 \in Int /\ 0 <= bot + len - 1 /\ bot + len - 1 < A + A
  BY <1>1, <1>3
<1>5. len > 0 => /\ bot + len - 1 < A => top = bot + len - 1
                 /\ bot + len - 1 >= A => top = bot + len - 1 - A
  BY <1>1, <1>2, <1>4, AddressWraps
<1> HIDE DEF top
<1>6. len > 0 /\ ~(top < bot) => top = bot + len - 1
  BY <1>1, <1>3, <1>5
<1> DEFINE stop == IF top >= USERSPACETOP THEN USERSPACETOP - bot ELSE len
<1>7. copycheck(bot, len).ok = (~(top < bot) /\ bot < USERSPACETOP) /\ copycheck(bot, len).stoplen = stop
  BY DEF copycheck, top
<1>8. CopyinTouches(bot, len) \subseteq 0 .. USERSPACETOP - 1
  <2> SUFFICES ASSUME ~(top < bot), bot < USERSPACETOP, stop = len, NEW x \in bot .. bot + len - 1
               PROVE  x \in 0 .. USERSPACETOP - 1
    BY <1>7 DEF CopyinTouches
  <2>1. len > 0
    BY <1>3
  <2>2. top = bot + len - 1
    BY <1>6, <2>1
  <2> QED
    BY <1>1, <1>3, <2>2
<1>9. CopystrTouches(bot, len) \subseteq 0 .. USERSPACETOP - 1
  <2> SUFFICES ASSUME ~(top < bot), bot < USERSPACETOP, NEW i \in 0 .. len - 1, i < stop
               PROVE  bot + i \in 0 .. USERSPACETOP - 1
    BY <1>7 DEF CopystrTouches
  <2>1. len > 0
    BY <1>3
  <2>2. top = bot + len - 1
    BY <1>6, <2>1
  <2> QED
    BY <1>1, <1>3, <2>2
<1> QED
  BY <1>8, <1>9

LEMMA TrapStep ==
  ASSUME TrapInv, [trapNext]_trapVars
  PROVE  TrapInv'
<1>1. ASSUME NEW code \in {"irq", "sys", "tlb"}, common_exception(code) PROVE TrapInv'
  BY <1>1, ExceptionStep
<1>2. CASE IrqEntry \/ TrapEntry
  BY <1>2, EntryStep
<1>3. CASE spinlock_acquire \/ spinlock_release
  BY <1>3, SpinlockStep
<1>4. CASE splhigh \/ splxBack
  BY <1>4, SplStep
<1>5. CASE CopyBegins \/ CopyEnds
  BY <1>5, CopyStep
<1>6. ASSUME NEW u \in TThread, thread_switch(u) PROVE TrapInv'
  BY <1>6, SwitchStep
<1>7. ASSUME NEW u \in TThread, IdleEnds(u) PROVE TrapInv'
  BY <1>7, IdleStep
<1>8. CASE IdleWindow
  BY <1>8, WindowStep
<1>9. CASE Resumes
  BY <1>9, ResumeStep
<1>10. CASE IrqDone \/ TrapDone \/ FatalFault
  BY <1>10, DoneStep
<1>11. CASE exception_return
  BY <1>11, ReturnStep
<1>12. CASE mips_usermode
  BY <1>12, UsermodeStep
<1>13. CASE UNCHANGED trapVars
  <2>1. /\ UNCHANGED <<curthread, irqs, usermode, stk, curspl, iplhigh>>
        /\ UNCHANGED <<in_interrupt, badfault, cpustack, failed>>
    BY <1>13 DEF trapVars
  <2>2. TrapType'
    BY <2>1 DEF TrapInv, TrapType
  <2>3. LevelsAgree' /\ OthersSwitched'
    BY <2>1 DEF TrapInv, LevelsAgree, OthersSwitched
  <2>4. FlagsAgree'
    BY <2>1 DEF TrapInv, FlagsAgree
  <2>5. CpuAgrees'
    BY <2>1 DEF TrapInv, CpuAgrees
  <2> QED
    BY <2>2, <2>3, <2>4, <2>5 DEF TrapInv
<1> QED
  BY <1>1, <1>2, <1>3, <1>4, <1>5, <1>6, <1>7, <1>8, <1>9, <1>10, <1>11, <1>12, <1>13
     DEF trapNext

LEMMA TrapAgrees ==
  ASSUME TrapInv
  PROVE  InterruptStateAgrees
<1> DEFINE s == stk[curthread]
           k == iplhigh[curthread]
<1>1. /\ curthread \in TThread /\ failed = FALSE /\ usermode \in BOOLEAN
      /\ stk \in [TThread -> Seq(FrameType)] /\ curspl[curthread] \in {0, 1}
  BY DEF TrapInv, TrapType
<1>2. CopyIsConfined
  BY Confined
<1>3. ASSUME usermode
      PROVE  /\ irqs /\ curspl[curthread] = 0 /\ k = 0 /\ ~in_interrupt[curthread]
             /\ cpustack = curthread /\ s = <<>>
  <2>1. CpuInv(s, k, irqs, usermode, cpustack = curthread)
    BY DEF TrapInv, CpuAgrees
  <2>2. irqs /\ cpustack = curthread /\ s = <<>>
    BY <1>3, <2>1 DEF CpuInv
  <2>3. ThreadInv(s, curspl[curthread], k)
    BY <1>1 DEF TrapInv, LevelsAgree
  <2>4. curspl[curthread] = 0 /\ k = 0
    BY <2>2, <2>3 DEF ThreadInv, Level, Spins
  <2>5. ~Inside(s)
    BY <2>2 DEF Inside
  <2>6. ~in_interrupt[curthread]
    BY <1>1, <2>5 DEF TrapInv, FlagsAgree
  <2> QED
    BY <2>2, <2>4, <2>6
<1>4. ASSUME ~usermode, irqs, Top.at # "idle"
      PROVE  curspl[curthread] = 0 /\ k = 0 /\ ~in_interrupt[curthread] /\ Top.at # "exit"
  <2> DEFINE n == Len(s)
  <2>1. /\ StackInv(s) /\ n \in Nat /\ n >= 1 /\ Top = s[n] /\ Top \in FrameType
        /\ curspl[curthread] = FrameLevel(s, Top) /\ k = FrameLevel(s, Top) + Top.spin
        /\ CpuInv(s, k, irqs, FALSE, cpustack = curthread) /\ FrameInv(Top, n)
        /\ OverInv(s, n)
    BY <1>4, MyStack
  <2>2. in_interrupt[curthread] <=>
           IrqBelow(s, n) \/ (Top.code = "irq" /\ Top.at \notin {"entry", "exit"})
    BY <1>4, MyStack
  <2>3. Top.at \in {"work", "copy", "idle", "switch", "entry", "exit"} /\ Top.spin \in Nat
    BY <2>1 DEF FrameType
  <2>4. Top.at \in {"work", "copy", "switch"} /\ k = 0
    BY <1>4, <2>1, <2>3 DEF CpuInv
  <2>5. curspl[curthread] = 0
    <3> HIDE DEF s, k
    <3> QED
      BY <1>1, <2>1, <2>3, <2>4
  <2>6. Top.at # "switch" /\ Top.code # "irq"
    BY <2>1, <2>4, <2>5 DEF FrameLevel, WorkLevel, Base, FrameInv
  <2>7. ~IrqBelow(s, n)
    <3> SUFFICES ASSUME NEW j \in 1 .. n - 1, s[j].code = "irq" PROVE FALSE
      BY DEF IrqBelow
    <3>1. j \in 1 .. n /\ BelowInv(s, j) /\ FrameInv(s[j], j)
      BY <2>1 DEF StackInv
    <3>2. s[j].at = "idle"
      BY <3>1 DEF BelowInv, FrameInv
    <3>3. j + 1 = n
      BY <3>1, <3>2 DEF BelowInv
    <3>4. n > 1 /\ n - 1 = j
      BY <2>1, <3>3
    <3>5. Under(s, n) = 1
      BY <3>2, <3>4 DEF Under
    <3> QED
      BY <2>1, <2>6, <3>5 DEF OverInv
  <2> QED
    BY <2>2, <2>4, <2>5, <2>6, <2>7
<1>5. ASSUME NEW t \in TThread
      PROVE  badfault[t] <=> \E i \in DOMAIN stk[t] : stk[t][i].at = "copy"
  <2>1. DOMAIN stk[t] = 1 .. Len(stk[t])
    BY <1>1
  <2>2. badfault[t] <=> Copies(stk[t])
    BY DEF TrapInv, FlagsAgree
  <2> QED
    BY <2>1, <2>2 DEF Copies
<1> QED
  BY <1>1, <1>2, <1>3, <1>4, <1>5 DEF InterruptStateAgrees, me

\* However interrupts, system calls, faults and switches are nested, and for any number of
\* threads, what spl.c, trap.c and copyinout.c record about interrupts agrees with the
\* processor, and no assertion of trap.c and syscall.c fails.
THEOREM InterruptsStayRecorded == trapSpec => []InterruptStateAgrees
<1>1. trapInit => TrapInv
  BY TrapInit
<1>2. TrapInv /\ [trapNext]_trapVars => TrapInv'
  BY TrapStep
<1>3. TrapInv => InterruptStateAgrees
  BY TrapAgrees
<1> QED
  BY <1>1, <1>2, <1>3, PTL DEF trapSpec

-----------------------------------------------------------------------------
(* The emulator's handles *)

EmuVnode == [isdir : BOOLEAN, ref : Nat]

\* References of a vnode that are not a caller's: the root's own, and the one that stays
\* when emu_close has failed.
Extra(h, v, hd, ls) ==
  \/ h = RootHandle /\ v[h].ref = hd[h] + 1
  \/ h # RootHandle /\ h \in ls /\ v[h].ref = hd[h] + 1
  \/ h # RootHandle /\ v[h].ref = hd[h] /\ hd[h] > 0

\* Vnodes v, open handles o, holders hd and lost handles ls.
EmuTables(v, o, hd, ls) ==
  /\ v \in [DOMAIN v -> EmuVnode] /\ DOMAIN v \subseteq EmuHandle /\ RootHandle \in DOMAIN v
  /\ hd \in [EmuHandle -> Nat]
  /\ \A h \in EmuHandle \ DOMAIN v : hd[h] = 0
  /\ DOMAIN v \subseteq DOMAIN o /\ DOMAIN o \subseteq DOMAIN v \cup ls
  /\ \A h \in DOMAIN v : Extra(h, v, hd, ls)

EmuInv ==
  /\ EmuTables(ef_vnodes, hostOpen, held, lost)
  /\ fatal = FALSE /\ oom \in Nat /\ depth = oom

LEMMA WithDomain ==
  ASSUME NEW g, NEW h, NEW v
  PROVE  /\ DOMAIN With(g, h, v) = DOMAIN g \cup {h} /\ With(g, h, v)[h] = v
         /\ \A k \in DOMAIN g : k # h => With(g, h, v)[k] = g[k]
         /\ DOMAIN Without(g, h) = DOMAIN g \ {h}
         /\ \A k \in DOMAIN g : k # h => Without(g, h)[k] = g[k]
BY DEF With, Without

\* One more holder of a vnode in memory.
LEMMA EmuIncref ==
  ASSUME NEW v, NEW o, NEW hd, NEW ls, EmuTables(v, o, hd, ls), NEW h \in DOMAIN v,
         NEW p, DOMAIN v \subseteq DOMAIN p, DOMAIN p \subseteq DOMAIN v \cup ls
  PROVE  EmuTables([v EXCEPT ![h].ref = v[h].ref + 1], p, [hd EXCEPT ![h] = hd[h] + 1], ls)
<1> DEFINE w == [v EXCEPT ![h].ref = v[h].ref + 1]
           e == [hd EXCEPT ![h] = hd[h] + 1]
<1>1. /\ v \in [DOMAIN v -> EmuVnode] /\ DOMAIN v \subseteq EmuHandle /\ hd \in [EmuHandle -> Nat]
      /\ \A k \in EmuHandle \ DOMAIN v : hd[k] = 0
      /\ \A k \in DOMAIN v : Extra(k, v, hd, ls)
      /\ RootHandle \in DOMAIN v
  BY DEF EmuTables
<1>2. v[h] \in EmuVnode /\ v[h].ref \in Nat /\ h \in EmuHandle /\ hd[h] \in Nat
  BY <1>1 DEF EmuVnode
<1>3. w = [v EXCEPT ![h] = [v[h] EXCEPT !.ref = v[h].ref + 1]]
  BY <1>1
<1>4. [v[h] EXCEPT !.ref = v[h].ref + 1] \in EmuVnode /\ [v[h] EXCEPT !.ref = v[h].ref + 1].ref = v[h].ref + 1
  BY <1>2 DEF EmuVnode
<1>5. DOMAIN w = DOMAIN v /\ w[h].ref = v[h].ref + 1 /\ \A k \in DOMAIN v : k # h => w[k] = v[k]
  BY <1>1, <1>3, <1>4
<1>6. w \in [DOMAIN w -> EmuVnode]
  BY <1>1, <1>3, <1>4
<1>7. e \in [EmuHandle -> Nat] /\ e[h] = hd[h] + 1 /\ \A k \in EmuHandle : k # h => e[k] = hd[k]
  BY <1>1, <1>2
<1> HIDE DEF w, e
<1>8. \A k \in EmuHandle \ DOMAIN v : e[k] = 0
  BY <1>1, <1>7
<1>9. ASSUME NEW k \in DOMAIN v PROVE Extra(k, w, e, ls)
  <2>1. Extra(k, v, hd, ls) /\ k \in EmuHandle
    BY <1>1
  <2>2. CASE k = h
    BY <1>2, <1>5, <1>7, <2>1, <2>2 DEF Extra
  <2>3. CASE k # h
    BY <1>5, <1>7, <2>1, <2>3 DEF Extra
  <2> QED
    BY <2>2, <2>3
<1>10. EmuTables(w, p, e, ls)
  BY <1>1, <1>5, <1>6, <1>7, <1>8, <1>9 DEF EmuTables
<1> QED
  BY <1>10 DEF w, e

\* The first holder of a new vnode.
LEMMA EmuNew ==
  ASSUME NEW v, NEW o, NEW hd, NEW ls, EmuTables(v, o, hd, ls), NEW h \in EmuHandle,
         h \notin DOMAIN v, NEW n
  PROVE  EmuTables(With(v, h, [isdir |-> FALSE, ref |-> 1]), With(o, h, n),
                   [hd EXCEPT ![h] = hd[h] + 1], ls)
<1> DEFINE x == [isdir |-> FALSE, ref |-> 1]
           w == With(v, h, x)
           p == With(o, h, n)
           e == [hd EXCEPT ![h] = hd[h] + 1]
<1>1. /\ v \in [DOMAIN v -> EmuVnode] /\ DOMAIN v \subseteq EmuHandle /\ hd \in [EmuHandle -> Nat]
      /\ \A k \in EmuHandle \ DOMAIN v : hd[k] = 0
      /\ \A k \in DOMAIN v : Extra(k, v, hd, ls)
      /\ RootHandle \in DOMAIN v
      /\ DOMAIN v \subseteq DOMAIN o /\ DOMAIN o \subseteq DOMAIN v \cup ls
  BY DEF EmuTables
<1>2. x \in EmuVnode /\ x.ref = 1
  BY DEF EmuVnode
<1>3. /\ DOMAIN w = DOMAIN v \cup {h} /\ w[h] = x /\ DOMAIN p = DOMAIN o \cup {h}
      /\ \A k \in DOMAIN v : k # h => w[k] = v[k]
  <2> HIDE DEF x
  <2>1. DOMAIN w = DOMAIN v \cup {h} /\ w[h] = x /\ \A k \in DOMAIN v : k # h => w[k] = v[k]
    BY DEF With
  <2>2. DOMAIN p = DOMAIN o \cup {h}
    BY DEF With
  <2> QED
    BY <2>1, <2>2
<1>4. e \in [EmuHandle -> Nat] /\ e[h] = 1 /\ \A k \in EmuHandle : k # h => e[k] = hd[k]
  BY <1>1
<1> HIDE DEF x
<1>5. w \in [DOMAIN w -> EmuVnode]
  BY <1>1, <1>2, <1>3 DEF With
<1> HIDE DEF w, p, e
<1>6. \A k \in EmuHandle \ DOMAIN w : e[k] = 0
  BY <1>1, <1>3, <1>4
<1>7. ASSUME NEW k \in DOMAIN w PROVE Extra(k, w, e, ls)
  <2>1. CASE k = h
    BY <1>1, <1>2, <1>3, <1>4, <2>1 DEF Extra
  <2>2. CASE k # h
    <3>1. k \in DOMAIN v /\ Extra(k, v, hd, ls) /\ k \in EmuHandle
      BY <1>1, <1>3, <2>2
    <3> QED
      BY <1>3, <1>4, <2>2, <3>1 DEF Extra
  <2> QED
    BY <2>1, <2>2
<1>8. EmuTables(w, p, e, ls)
  BY <1>1, <1>3, <1>4, <1>5, <1>6, <1>7 DEF EmuTables
<1> QED
  BY <1>8 DEF w, p, e, x

\* A holder less, of several references or of the last, whose handle is closed or lost.
LEMMA EmuDecref ==
  ASSUME NEW v, NEW o, NEW hd, NEW ls, EmuTables(v, o, hd, ls), NEW h \in EmuHandle, hd[h] > 0
  PROVE  LET e == [hd EXCEPT ![h] = hd[h] - 1] IN
         /\ h \in DOMAIN v /\ h \in DOMAIN o
         /\ v[h].ref > 1 => EmuTables([v EXCEPT ![h].ref = v[h].ref - 1], o, e, ls)
         /\ ~(v[h].ref > 1) => /\ EmuTables(Without(v, h), Without(o, h), e, ls \ {h})
                               /\ EmuTables(v, o, e, ls \cup {h})
<1> DEFINE e == [hd EXCEPT ![h] = hd[h] - 1]
<1>1. /\ v \in [DOMAIN v -> EmuVnode] /\ DOMAIN v \subseteq EmuHandle /\ hd \in [EmuHandle -> Nat]
      /\ \A k \in EmuHandle \ DOMAIN v : hd[k] = 0
      /\ \A k \in DOMAIN v : Extra(k, v, hd, ls)
      /\ RootHandle \in DOMAIN v
      /\ DOMAIN v \subseteq DOMAIN o /\ DOMAIN o \subseteq DOMAIN v \cup ls
  BY DEF EmuTables
<1>2. h \in DOMAIN v /\ h \in DOMAIN o /\ hd[h] \in Nat
  BY <1>1
<1>3. v[h] \in EmuVnode /\ v[h].ref \in Nat /\ Extra(h, v, hd, ls)
  BY <1>1, <1>2 DEF EmuVnode
<1>4. e \in [EmuHandle -> Nat] /\ e[h] = hd[h] - 1 /\ \A k \in EmuHandle : k # h => e[k] = hd[k]
  BY <1>1, <1>2
<1> HIDE DEF e
<1>5. \A k \in EmuHandle \ DOMAIN v : e[k] = 0
  BY <1>1, <1>2, <1>4
<1>6. ASSUME v[h].ref > 1 PROVE EmuTables([v EXCEPT ![h].ref = v[h].ref - 1], o, e, ls)
  <2> DEFINE w == [v EXCEPT ![h].ref = v[h].ref - 1]
             y == [v[h] EXCEPT !.ref = v[h].ref - 1]
  <2>1. y \in EmuVnode /\ y.ref = v[h].ref - 1
    BY <1>3, <1>6 DEF EmuVnode
  <2>2. w = [v EXCEPT ![h] = y]
    BY <1>1
  <2> HIDE DEF w, y
  <2>3. /\ w \in [DOMAIN w -> EmuVnode] /\ DOMAIN w = DOMAIN v /\ w[h] = y
        /\ \A k \in DOMAIN v : k # h => w[k] = v[k]
    BY <1>1, <1>2, <2>1, <2>2
  <2>4. ASSUME NEW k \in DOMAIN v PROVE Extra(k, w, e, ls)
    <3>1. Extra(k, v, hd, ls) /\ k \in EmuHandle
      BY <1>1
    <3>2. CASE k = h
      BY <1>2, <1>3, <1>4, <1>6, <2>1, <2>3, <3>2 DEF Extra
    <3>3. CASE k # h
      BY <1>4, <2>3, <3>1, <3>3 DEF Extra
    <3> QED
      BY <3>2, <3>3
  <2> QED
    BY <1>1, <1>4, <1>5, <2>3, <2>4 DEF EmuTables, w
<1>7. ASSUME ~(v[h].ref > 1)
      PROVE  /\ EmuTables(Without(v, h), Without(o, h), e, ls \ {h})
             /\ EmuTables(v, o, e, ls \cup {h})
  <2>1. h # RootHandle /\ v[h].ref = 1 /\ hd[h] = 1 /\ e[h] = 0
    BY <1>2, <1>3, <1>4, <1>7 DEF Extra
  <2>2. EmuTables(v, o, e, ls \cup {h})
    <3>1. ASSUME NEW k \in DOMAIN v PROVE Extra(k, v, e, ls \cup {h})
      <4>1. Extra(k, v, hd, ls) /\ k \in EmuHandle
        BY <1>1
      <4> QED
        BY <1>4, <2>1, <4>1 DEF Extra
    <3> QED
      BY <1>1, <1>4, <1>5, <3>1 DEF EmuTables
  <2> DEFINE w == Without(v, h)
             p == Without(o, h)
  <2>3. /\ DOMAIN w = DOMAIN v \ {h} /\ DOMAIN p = DOMAIN o \ {h}
        /\ \A k \in DOMAIN v : k # h => w[k] = v[k]
    BY WithDomain
  <2>4. w \in [DOMAIN w -> EmuVnode]
    BY <1>1, <2>3 DEF Without
  <2> HIDE DEF w, p
  <2>5. \A k \in EmuHandle \ DOMAIN w : e[k] = 0
    BY <1>5, <2>1, <2>3
  <2>6. ASSUME NEW k \in DOMAIN w PROVE Extra(k, w, e, ls \ {h})
    <3>1. Extra(k, v, hd, ls) /\ k \in EmuHandle /\ k # h /\ k \in DOMAIN v
      BY <1>1, <2>3
    <3> QED
      BY <1>4, <2>3, <3>1 DEF Extra
  <2>7. EmuTables(w, p, e, ls \ {h})
    BY <1>1, <1>4, <2>1, <2>3, <2>4, <2>5, <2>6 DEF EmuTables
  <2> QED
    BY <2>2, <2>7 DEF w, p
<1> QED
  BY <1>2, <1>6, <1>7 DEF e

\* The emulator's files that have no vnode come and go.
LEMMA EmuLoad ==
  ASSUME NEW v, NEW o, NEW hd, NEW ls, EmuTables(v, o, hd, ls), NEW h \in EmuHandle, NEW n
  PROVE  /\ h \in DOMAIN v =>
              EmuTables([v EXCEPT ![h].ref = v[h].ref + 1], With(o, h, n), [hd EXCEPT ![h] = hd[h] + 1], ls)
         /\ h \notin DOMAIN v => /\ EmuTables(v, Without(o, h), hd, ls \ {h})
                                 /\ EmuTables(v, With(o, h, n), hd, ls \cup {h})
<1>1. /\ v \in [DOMAIN v -> EmuVnode] /\ DOMAIN v \subseteq EmuHandle /\ hd \in [EmuHandle -> Nat]
      /\ \A k \in EmuHandle \ DOMAIN v : hd[k] = 0
      /\ \A k \in DOMAIN v : Extra(k, v, hd, ls)
      /\ RootHandle \in DOMAIN v
      /\ DOMAIN v \subseteq DOMAIN o /\ DOMAIN o \subseteq DOMAIN v \cup ls
  BY DEF EmuTables
<1> DEFINE p == With(o, h, n)
           q == Without(o, h)
<1>2. DOMAIN p = DOMAIN o \cup {h} /\ DOMAIN q = DOMAIN o \ {h}
  BY WithDomain
<1> HIDE DEF p, q
<1>3. ASSUME h \in DOMAIN v
      PROVE  EmuTables([v EXCEPT ![h].ref = v[h].ref + 1], p, [hd EXCEPT ![h] = hd[h] + 1], ls)
  <2>1. DOMAIN v \subseteq DOMAIN p /\ DOMAIN p \subseteq DOMAIN v \cup ls
    BY <1>1, <1>2, <1>3
  <2> QED
    BY <1>3, <2>1, EmuIncref
<1>4. ASSUME h \notin DOMAIN v PROVE EmuTables(v, q, hd, ls \ {h}) /\ EmuTables(v, p, hd, ls \cup {h})
  <2>1. \A k \in DOMAIN v : Extra(k, v, hd, ls \ {h}) /\ Extra(k, v, hd, ls \cup {h})
    BY <1>1, <1>4 DEF Extra
  <2> QED
    BY <1>1, <1>2, <1>4, <2>1 DEF EmuTables
<1> QED
  BY <1>3, <1>4 DEF p, q

LEMMA EmuInit ==
  ASSUME emuInit
  PROVE  EmuInv
<1> DEFINE R == RootHandle
<1>1. /\ DOMAIN hostOpen = {R} /\ DOMAIN ef_vnodes = {R} /\ ef_vnodes[R] = [isdir |-> TRUE, ref |-> 1]
      /\ held = [h \in EmuHandle |-> 0] /\ R \in EmuHandle
  BY EmuAssumption DEF emuInit
<1>2. [isdir |-> TRUE, ref |-> 1] \in EmuVnode /\ [isdir |-> TRUE, ref |-> 1].ref = 1
  BY DEF EmuVnode
<1>3. ef_vnodes \in [DOMAIN ef_vnodes -> EmuVnode]
  BY <1>2 DEF emuInit
<1>4. \A h \in DOMAIN ef_vnodes : Extra(h, ef_vnodes, held, lost)
  BY <1>1, <1>2 DEF Extra
<1>5. EmuTables(ef_vnodes, hostOpen, held, lost)
  BY <1>1, <1>3, <1>4 DEF EmuTables
<1> QED
  BY <1>5 DEF EmuInv, emuInit

LEMMA EmuStep ==
  ASSUME EmuInv, [emuNext]_emuVars
  PROVE  EmuInv'
<1>1. /\ EmuTables(ef_vnodes, hostOpen, held, lost)
      /\ fatal = FALSE /\ oom \in Nat /\ depth = oom
  BY DEF EmuInv
<1>2. ASSUME NEW name, NEW create, NEW excl, emufs_lookup(name, create, excl) PROVE EmuInv'
  <2>1. PICK h \in EmuHandle :
          \/ /\ LoadVnode(h)
             /\ hostOpen' = With(hostOpen, h, name)
             /\ UNCHANGED <<lost, fatal>>
          \/ /\ LoadFails(h)
             /\ fatal' = fatal
             /\ \/ hostOpen' = Without(hostOpen, h) /\ lost' = lost \ {h}
                \/ hostOpen' = With(hostOpen, h, name) /\ lost' = lost \cup {h}
    BY <1>2 DEF emufs_lookup
  <2>2. CASE /\ LoadVnode(h)
             /\ hostOpen' = With(hostOpen, h, name)
             /\ UNCHANGED <<lost, fatal>>
    <3>1. /\ held' = [held EXCEPT ![h] = held[h] + 1] /\ UNCHANGED <<depth, oom>>
          /\ h \in DOMAIN ef_vnodes => ef_vnodes' = [ef_vnodes EXCEPT ![h].ref = ef_vnodes[h].ref + 1]
          /\ h \notin DOMAIN ef_vnodes => ef_vnodes' = With(ef_vnodes, h, [isdir |-> FALSE, ref |-> 1])
      BY <2>2 DEF LoadVnode
    <3>2. EmuTables(ef_vnodes', hostOpen', held', lost)
      <4>1. CASE h \in DOMAIN ef_vnodes
        <5>1. EmuTables([ef_vnodes EXCEPT ![h].ref = ef_vnodes[h].ref + 1], With(hostOpen, h, name),
                        [held EXCEPT ![h] = held[h] + 1], lost)
          BY <1>1, <4>1, EmuLoad
        <5> QED
          BY <2>2, <3>1, <4>1, <5>1
      <4>2. CASE h \notin DOMAIN ef_vnodes
        BY <1>1, <2>2, <3>1, <4>2, EmuNew
      <4> QED
        BY <4>1, <4>2
    <3> QED
      BY <1>1, <2>2, <3>1, <3>2 DEF EmuInv
  <2>3. CASE /\ LoadFails(h)
             /\ fatal' = fatal
             /\ \/ hostOpen' = Without(hostOpen, h) /\ lost' = lost \ {h}
                \/ hostOpen' = With(hostOpen, h, name) /\ lost' = lost \cup {h}
    <3>1. /\ h \notin DOMAIN ef_vnodes
          /\ (oom' = oom + 1 /\ depth' = depth + 1) \/ UNCHANGED <<depth, oom>>
          /\ ef_vnodes' = ef_vnodes /\ held' = held
      BY <2>3 DEF LoadFails
    <3>2. /\ EmuTables(ef_vnodes, Without(hostOpen, h), held, lost \ {h})
          /\ EmuTables(ef_vnodes, With(hostOpen, h, name), held, lost \cup {h})
      BY <1>1, <3>1, EmuLoad
    <3>3. EmuTables(ef_vnodes', hostOpen', held', lost')
      BY <2>3, <3>1, <3>2
    <3> QED
      BY <1>1, <2>3, <3>1, <3>3 DEF EmuInv
  <2> QED
    BY <2>1, <2>2, <2>3
<1>3. CASE emufs_getroot
  <2>1. /\ ef_vnodes' = [ef_vnodes EXCEPT ![RootHandle].ref = ef_vnodes[RootHandle].ref + 1]
        /\ held' = [held EXCEPT ![RootHandle] = held[RootHandle] + 1]
        /\ UNCHANGED <<hostOpen, depth, oom, lost, fatal>>
    BY <1>3 DEF emufs_getroot
  <2>2. /\ RootHandle \in DOMAIN ef_vnodes /\ DOMAIN ef_vnodes \subseteq DOMAIN hostOpen
        /\ DOMAIN hostOpen \subseteq DOMAIN ef_vnodes \cup lost
    BY <1>1 DEF EmuTables
  <2>3. EmuTables(ef_vnodes', hostOpen', held', lost')
    BY <1>1, <2>1, <2>2, EmuIncref
  <2> QED
    BY <1>1, <2>1, <2>3 DEF EmuInv
<1>4. ASSUME NEW h \in EmuHandle, emufs_reclaim(h) PROVE EmuInv'
  <2> DEFINE e == [held EXCEPT ![h] = held[h] - 1]
  <2>1. /\ held[h] > 0 /\ held' = e /\ UNCHANGED <<depth, oom>>
        /\ ef_vnodes[h].ref > 1 =>
             /\ ef_vnodes' = [ef_vnodes EXCEPT ![h].ref = ef_vnodes[h].ref - 1]
             /\ UNCHANGED <<hostOpen, lost, fatal>>
        /\ ~(ef_vnodes[h].ref > 1) =>
             /\ emu_close(h)
             /\ ef_vnodes' = IF hostOpen' = hostOpen THEN ef_vnodes ELSE Without(ef_vnodes, h)
    BY <1>4 DEF emufs_reclaim
  <2>2. /\ h \in DOMAIN ef_vnodes /\ h \in DOMAIN hostOpen
        /\ ef_vnodes[h].ref > 1 =>
             EmuTables([ef_vnodes EXCEPT ![h].ref = ef_vnodes[h].ref - 1], hostOpen, e, lost)
        /\ ~(ef_vnodes[h].ref > 1) =>
             /\ EmuTables(Without(ef_vnodes, h), Without(hostOpen, h), e, lost \ {h})
             /\ EmuTables(ef_vnodes, hostOpen, e, lost \cup {h})
    BY <1>1, <2>1, EmuDecref
  <2> HIDE DEF e
  <2>3. CASE ef_vnodes[h].ref > 1
    BY <1>1, <2>1, <2>2, <2>3 DEF EmuInv
  <2>4. CASE ~(ef_vnodes[h].ref > 1)
    <3>1. /\ fatal' = (fatal \/ h \notin DOMAIN hostOpen)
          /\ \/ hostOpen' = Without(hostOpen, h) /\ lost' = lost \ {h}
             \/ lost' = lost \cup {h} /\ hostOpen' = hostOpen
      BY <2>1, <2>4 DEF emu_close, translate_err
    <3>2. fatal' = FALSE
      BY <1>1, <2>2, <3>1
    <3>3. Without(hostOpen, h) # hostOpen
      <4>1. DOMAIN Without(hostOpen, h) = DOMAIN hostOpen \ {h}
        BY DEF Without
      <4> QED
        BY <2>2, <4>1
    <3>4. EmuTables(ef_vnodes', hostOpen', held', lost')
      BY <2>1, <2>2, <2>4, <3>1, <3>3
    <3> QED
      BY <1>1, <2>1, <3>2, <3>4 DEF EmuInv
  <2> QED
    BY <2>3, <2>4
<1>5. ASSUME NEW h \in EmuHandle, NEW op \in NeedsHandle, UseHandle(h, op) PROVE EmuInv'
  <2>1. /\ held[h] > 0 /\ fatal' = (fatal \/ h \notin DOMAIN hostOpen)
        /\ UNCHANGED <<hostOpen, ef_vnodes, held, depth, oom, lost>>
    BY <1>5 DEF UseHandle, translate_err
  <2>2. h \in DOMAIN hostOpen
    BY <1>1, <2>1, EmuDecref
  <2>3. fatal' = FALSE
    BY <1>1, <2>1, <2>2
  <2> QED
    BY <1>1, <2>1, <2>3 DEF EmuInv
<1>6. CASE UNCHANGED emuVars
  BY <1>1, <1>6 DEF EmuInv, emuVars
<1> QED
  BY <1>2, <1>3, <1>4, <1>5, <1>6 DEF emuNext, OpenClose

\* The emulator's handles and emufs's vnodes go together for any number of files, handles
\* and holders, through closes that fail and loads that run out of memory: emu.c never
\* gives the emulator a handle that is not open, which would stop the kernel.
THEOREM HandlesStayKept == emuSpec => []HandlesAreKept
<1>1. emuInit => EmuInv
  BY EmuInit
<1>2. EmuInv /\ [emuNext]_emuVars => EmuInv'
  BY EmuStep
<1>3. EmuInv => HandlesAreKept
  <2> SUFFICES ASSUME EmuInv PROVE HandlesAreKept
    OBVIOUS
  <2>1. EmuTables(ef_vnodes, hostOpen, held, lost) /\ ~fatal /\ depth = oom
    BY DEF EmuInv
  <2>2. /\ DOMAIN ef_vnodes \subseteq DOMAIN hostOpen
        /\ DOMAIN hostOpen \subseteq DOMAIN ef_vnodes \cup lost
    BY <2>1 DEF EmuTables
  <2>3. ASSUME NEW h \in DOMAIN ef_vnodes
        PROVE  ef_vnodes[h].ref = held[h] +
                 (IF h = RootHandle \/ (h \in lost /\ ef_vnodes[h].ref # held[h]) THEN 1 ELSE 0)
    <3>1. Extra(h, ef_vnodes, held, lost) /\ held[h] \in Nat
      BY <2>1 DEF EmuTables
    <3> QED
      BY <3>1 DEF Extra
  <2> QED
    BY <2>1, <2>2, <2>3 DEF HandlesAreKept
<1> QED
  BY <1>1, <1>2, <1>3, PTL DEF emuSpec

-----------------------------------------------------------------------------
(* The table of devices *)

KdName == DevName \cup {RawOf[n] : n \in DevName} \cup {"null", NULL, NoFs}
KdType == [name : KdName, rawname : KdName, device : BOOLEAN, vol : KdName, busy : BOOLEAN,
           ref : Nat, opens : Nat]

\* The names a device has for good.
OwnNames(kd) == {kd.name, kd.rawname} \ {NULL}

\* Table k, with the users u and the open files o of each entry.
Apart(k) == \A i, j \in 1 .. Len(k) : i # j => OwnNames(k[i]) \cap OwnNames(k[j]) = {}
Lengths(k, u, o) ==
  k \in Seq(KdType) /\ u \in Seq(Nat) /\ o \in Seq(Nat) /\ Len(u) = Len(k) /\ Len(o) = Len(k)
UsedRight(kd) == kd.busy => kd.vol # NoFs
Counted(kd, m, n) == kd.ref = 1 + m /\ kd.opens = n /\ m = n

KdInv ==
  /\ Lengths(knowndevs, users, opened)
  /\ Apart(knowndevs)
  /\ \A i \in 1 .. Len(knowndevs) : UsedRight(knowndevs[i])
  /\ \A i \in 1 .. Len(knowndevs) : Counted(knowndevs[i], users[i], opened[i])

\* A new entry is in no use, and its counts are the table's own.
LEMMA EntryFacts ==
  ASSUME NEW n \in KdName, NEW r \in KdName, NEW d \in BOOLEAN, NEW v \in KdName
  PROVE  LET kd == Entry(n, r, d, v) IN
         /\ kd \in KdType /\ UsedRight(kd) /\ Counted(kd, 0, 0)
         /\ kd.name = n /\ kd.rawname = r /\ kd.vol = v
BY DEF Entry, KdType, UsedRight, Counted

\* devnull_create: the table has the null device.
LEMMA KdInitially ==
  ASSUME kdInit
  PROVE  KdInv
<1> DEFINE e == Entry("null", NULL, TRUE, NoFs)
<1>1. e \in KdType /\ UsedRight(e) /\ Counted(e, 0, 0)
  BY EntryFacts DEF KdName
<1>2. knowndevs = <<e>> /\ users = <<0>> /\ opened = <<0>>
  BY DEF kdInit
<1> HIDE DEF e
<1>3. Lengths(knowndevs, users, opened) /\ Len(knowndevs) = 1 /\ knowndevs[1] = e
      /\ users[1] = 0 /\ opened[1] = 0
  BY <1>1, <1>2 DEF Lengths
<1>4. \A i \in 1 .. 1 : i = 1
  OBVIOUS
<1> QED
  BY <1>1, <1>3, <1>4 DEF KdInv, Apart

\* A name that no entry has is added at the end.
LEMMA AddStep ==
  ASSUME KdInv, NEW n \in DevName, NEW m \in BOOLEAN, NEW d \in BOOLEAN, NEW v \in {NULL, NoFs},
         vfs_doadd(n, m, d, v)
  PROVE  KdInv'
<1> DEFINE r == IF m THEN RawOf[n] ELSE NULL
           e == Entry(n, r, d, v)
           k == knowndevs
           z == Len(k)
<1>1. /\ ~badnames(NamesOf(e)) /\ k' = Append(k, e) /\ users' = Append(users, 0)
      /\ opened' = Append(opened, 0)
  BY DEF vfs_doadd
<1>2. n \in KdName /\ r \in KdName /\ v \in KdName
  BY DEF KdName
<1> HIDE DEF r
<1>3. e \in KdType /\ UsedRight(e) /\ Counted(e, 0, 0) /\ e.name = n /\ e.rawname = r /\ e.vol = v
  BY <1>2, EntryFacts
<1> HIDE DEF e
<1>4. k \in Seq(KdType) /\ users \in Seq(Nat) /\ opened \in Seq(Nat) /\ Len(users) = z /\ Len(opened) = z
  BY DEF KdInv, Lengths
<1>5. /\ k' \in Seq(KdType) /\ Len(k') = z + 1 /\ k'[z + 1] = e /\ z \in Nat
      /\ \A i \in 1 .. z : k'[i] = k[i]
  BY <1>1, <1>3, <1>4
<1>6. /\ users' \in Seq(Nat) /\ Len(users') = z + 1 /\ users'[z + 1] = 0
      /\ \A i \in 1 .. z : users'[i] = users[i]
  BY <1>1, <1>4
<1>7. /\ opened' \in Seq(Nat) /\ Len(opened') = z + 1 /\ opened'[z + 1] = 0
      /\ \A i \in 1 .. z : opened'[i] = opened[i]
  BY <1>1, <1>4
<1>8. DOMAIN k = 1 .. z
  BY <1>4
<1>9. \A i \in 1 .. z : OwnNames(k[i]) \cap OwnNames(e) = {}
  BY <1>1, <1>8 DEF badnames, NamesOf, OwnNames, Index
<1> DEFINE w == k'
<1> HIDE DEF z, w
<1>10. \A i \in 1 .. z + 1 : i \in 1 .. z \/ i = z + 1
  BY <1>5
<1>11. w \in Seq(KdType) /\ Len(w) = z + 1 /\ w[z + 1] = e /\ \A i \in 1 .. z : w[i] = k[i]
  BY <1>5 DEF w
<1>12. \A i, j \in 1 .. z : i # j => OwnNames(k[i]) \cap OwnNames(k[j]) = {}
  BY DEF KdInv, Apart, z
<1>13. Apart(w)
  <2> SUFFICES ASSUME NEW i \in 1 .. z + 1, NEW j \in 1 .. z + 1, i # j
               PROVE  OwnNames(w[i]) \cap OwnNames(w[j]) = {}
    BY <1>11 DEF Apart
  <2> QED
    BY <1>9, <1>10, <1>11, <1>12
<1>14. \A i \in 1 .. z : UsedRight(k[i]) /\ Counted(k[i], users[i], opened[i])
  BY DEF KdInv, z
<1>15. \A i \in 1 .. z + 1 : UsedRight(w[i]) /\ Counted(w[i], users'[i], opened'[i])
  BY <1>3, <1>6, <1>7, <1>10, <1>11, <1>14
<1> QED
  BY <1>6, <1>7, <1>11, <1>13, <1>15 DEF KdInv, Lengths, w

\* A step that keeps the names of all entries.
LEMMA KeepStep ==
  ASSUME KdInv, Lengths(knowndevs', users', opened'), Len(knowndevs') = Len(knowndevs),
         \A i \in 1 .. Len(knowndevs) :
           /\ knowndevs'[i].name = knowndevs[i].name /\ knowndevs'[i].rawname = knowndevs[i].rawname
           /\ UsedRight(knowndevs'[i])
           /\ Counted(knowndevs'[i], users'[i], opened'[i])
  PROVE  KdInv'
<1>1. \A i \in 1 .. Len(knowndevs) : OwnNames(knowndevs'[i]) = OwnNames(knowndevs[i])
  BY DEF OwnNames
<1>2. Apart(knowndevs')
  BY <1>1 DEF KdInv, Apart
<1> QED
  BY <1>2 DEF KdInv

\* One entry changes.
LEMMA OneEntry ==
  ASSUME KdInv, NEW i \in 1 .. Len(knowndevs), NEW e \in KdType, NEW m \in Nat,
         knowndevs' = [knowndevs EXCEPT ![i] = e],
         e.name = knowndevs[i].name, e.rawname = knowndevs[i].rawname, UsedRight(e), Counted(e, m, m),
         users' = [users EXCEPT ![i] = m], opened' = [opened EXCEPT ![i] = m]
  PROVE  KdInv'
<1> DEFINE k == knowndevs
           z == Len(k)
<1>1. k \in Seq(KdType) /\ users \in Seq(Nat) /\ opened \in Seq(Nat) /\ Len(users) = z /\ Len(opened) = z
  BY DEF KdInv, Lengths
<1>2. k' \in Seq(KdType) /\ Len(k') = z /\ k'[i] = e /\ \A j \in 1 .. z : j # i => k'[j] = k[j]
  BY <1>1
<1>3. /\ users' \in Seq(Nat) /\ Len(users') = z /\ users'[i] = m
      /\ \A j \in 1 .. z : j # i => users'[j] = users[j]
  BY <1>1
<1>4. /\ opened' \in Seq(Nat) /\ Len(opened') = z /\ opened'[i] = m
      /\ \A j \in 1 .. z : j # i => opened'[j] = opened[j]
  BY <1>1
<1>5. Lengths(k', users', opened')
  BY <1>2, <1>3, <1>4 DEF Lengths
<1>6. \A j \in 1 .. z : UsedRight(k[j]) /\ Counted(k[j], users[j], opened[j])
  BY DEF KdInv
<1>7. \A j \in 1 .. z :
        /\ k'[j].name = k[j].name /\ k'[j].rawname = k[j].rawname
        /\ UsedRight(k'[j]) /\ Counted(k'[j], users'[j], opened'[j])
  BY <1>2, <1>3, <1>4, <1>6
<1> QED
  BY <1>2, <1>5, <1>7, KeepStep

\* What is known of an entry.
LEMMA EntryOf ==
  ASSUME KdInv, NEW i \in 1 .. Len(knowndevs)
  PROVE  LET kd == knowndevs[i] IN
         /\ kd \in KdType /\ UsedRight(kd) /\ kd.busy \in BOOLEAN
         /\ users[i] \in Nat /\ opened[i] = users[i] /\ kd.ref = 1 + users[i] /\ kd.opens = users[i]
         /\ users = [users EXCEPT ![i] = users[i]] /\ opened = [opened EXCEPT ![i] = users[i]]
         /\ knowndevs \in Seq(KdType)
<1>1. /\ knowndevs \in Seq(KdType) /\ users \in Seq(Nat) /\ opened \in Seq(Nat)
      /\ Len(users) = Len(knowndevs) /\ Len(opened) = Len(knowndevs)
  BY DEF KdInv, Lengths
<1>2. UsedRight(knowndevs[i]) /\ Counted(knowndevs[i], users[i], opened[i])
  BY DEF KdInv
<1>3. knowndevs[i] \in KdType /\ users[i] \in Nat
  BY <1>1
<1>4. knowndevs[i].busy \in BOOLEAN
  BY <1>3 DEF KdType
<1>5. opened[i] = users[i]
  BY <1>2 DEF Counted
<1>6. users = [users EXCEPT ![i] = users[i]] /\ opened = [opened EXCEPT ![i] = users[i]]
  BY <1>1, <1>5
<1> QED
  BY <1>1, <1>2, <1>3, <1>4, <1>5, <1>6 DEF Counted

\* vfs_mount, vfs_unmount and the use of a volume change a volume that is not in use, or
\* the use of one that is mounted.
LEMMA VolumeStep ==
  ASSUME KdInv, NEW i \in Index,
         \/ \E n \in DevName, v \in DevName \cup {NULL} : vfs_mount(i, n, v)
         \/ \E n \in DevName : vfs_unmount(i, n)
         \/ UseVolume(i)
  PROVE  KdInv'
<1> DEFINE k == knowndevs
           kd == k[i]
<1>1. i \in 1 .. Len(k)
  BY DEF Index, KdInv, Lengths
<1>2. /\ kd \in KdType /\ UsedRight(kd) /\ kd.busy \in BOOLEAN
      /\ users[i] \in Nat /\ kd.ref = 1 + users[i] /\ kd.opens = users[i]
      /\ users = [users EXCEPT ![i] = users[i]] /\ opened = [opened EXCEPT ![i] = users[i]]
      /\ k \in Seq(KdType)
  BY <1>1, EntryOf
<1>3. UNCHANGED <<users, opened>>
  BY DEF vfs_mount, vfs_unmount, UseVolume
<1>4. ASSUME NEW e, e \in KdType, e.name = kd.name, e.rawname = kd.rawname, e.ref = kd.ref,
             e.opens = kd.opens, UsedRight(e), k' = [k EXCEPT ![i] = e]
      PROVE  KdInv'
  <2>1. Counted(e, users[i], users[i])
    BY <1>2, <1>4 DEF Counted
  <2>2. users' = [users EXCEPT ![i] = users[i]] /\ opened' = [opened EXCEPT ![i] = users[i]]
    BY <1>2, <1>3
  <2> DEFINE m == users[i]
  <2>3. m \in Nat /\ Counted(e, m, m) /\ users' = [users EXCEPT ![i] = m] /\ opened' = [opened EXCEPT ![i] = m]
    BY <1>2, <2>1, <2>2
  <2> HIDE DEF m
  <2> QED
    BY <1>1, <1>4, <2>3, OneEntry
<1>5. ASSUME NEW v \in KdName, ~kd.busy, k' = [k EXCEPT ![i].vol = v] PROVE KdInv'
  <2> DEFINE e == [kd EXCEPT !.vol = v]
  <2>1. /\ e \in KdType /\ e.name = kd.name /\ e.rawname = kd.rawname /\ e.ref = kd.ref
        /\ e.opens = kd.opens /\ e.busy = kd.busy
    BY <1>2 DEF KdType
  <2>2. k' = [k EXCEPT ![i] = e]
    BY <1>1, <1>2, <1>5
  <2> HIDE DEF e
  <2>3. UsedRight(e)
    BY <1>5, <2>1 DEF UsedRight
  <2> QED
    BY <1>4, <2>1, <2>2, <2>3
<1>6. CASE \E n \in DevName, v \in DevName \cup {NULL} : vfs_mount(i, n, v)
  <2>1. PICK v \in DevName \cup {NULL} : k' = [k EXCEPT ![i].vol = v] /\ kd.vol = NoFs
    BY <1>6 DEF vfs_mount
  <2>2. ~kd.busy
    BY <1>2, <2>1 DEF UsedRight
  <2>3. v \in KdName
    BY DEF KdName
  <2> QED
    BY <1>5, <2>1, <2>2, <2>3
<1>7. CASE \E n \in DevName : vfs_unmount(i, n)
  <2>1. k' = [k EXCEPT ![i].vol = NoFs] /\ ~kd.busy
    BY <1>7 DEF vfs_unmount
  <2>2. NoFs \in KdName
    BY DEF KdName
  <2> QED
    BY <1>5, <2>1, <2>2
<1>8. CASE UseVolume(i)
  <2> DEFINE b == ~kd.busy
             e == [kd EXCEPT !.busy = b]
  <2>1. k' = [k EXCEPT ![i].busy = b] /\ kd.vol # NoFs
    BY <1>8 DEF UseVolume
  <2>2. b \in BOOLEAN
    OBVIOUS
  <2> HIDE DEF b
  <2>3. /\ e \in KdType /\ e.name = kd.name /\ e.rawname = kd.rawname /\ e.ref = kd.ref
        /\ e.opens = kd.opens /\ e.vol = kd.vol
    BY <1>2, <2>2 DEF KdType
  <2>4. k' = [k EXCEPT ![i] = e]
    BY <1>1, <1>2, <2>1
  <2> HIDE DEF e
  <2>5. UsedRight(e)
    BY <2>1, <2>3 DEF UsedRight
  <2> QED
    BY <1>4, <2>3, <2>4, <2>5
<1> QED
  BY <1>6, <1>7, <1>8

\* vfs_unmountall takes volumes that are not in use.
LEMMA UnmountallStep ==
  ASSUME KdInv, vfs_unmountall
  PROVE  KdInv'
<1>0. PICK failing \in SUBSET Index :
        /\ knowndevs' = [i \in Index |->
                          IF knowndevs[i].rawname # NULL /\ ~ knowndevs[i].busy /\ i \notin failing
                          THEN [knowndevs[i] EXCEPT !.vol = NoFs] ELSE knowndevs[i]]
        /\ users' = users /\ opened' = opened
  BY DEF vfs_unmountall
<1> DEFINE k == knowndevs
           z == Len(k)
           E(i) == IF k[i].rawname # NULL /\ ~k[i].busy /\ i \notin failing THEN [k[i] EXCEPT !.vol = NoFs] ELSE k[i]
<1>1. k \in Seq(KdType) /\ users \in Seq(Nat) /\ opened \in Seq(Nat) /\ Len(users) = z /\ Len(opened) = z
  BY DEF KdInv, Lengths
<1>2. k' = [i \in 1 .. z |-> E(i)] /\ users' = users /\ opened' = opened
  BY <1>0, <1>1 DEF Index
<1>3. ASSUME NEW i \in 1 .. z
      PROVE  /\ E(i) \in KdType /\ E(i).name = k[i].name /\ E(i).rawname = k[i].rawname
             /\ UsedRight(E(i)) /\ Counted(E(i), users[i], opened[i])
  <2>1. k[i] \in KdType /\ UsedRight(k[i]) /\ Counted(k[i], users[i], opened[i])
    BY <1>1 DEF KdInv
  <2>2. NoFs \in KdName
    BY DEF KdName
  <2> DEFINE e == [k[i] EXCEPT !.vol = NoFs]
  <2>3. /\ e \in KdType /\ e.name = k[i].name /\ e.rawname = k[i].rawname /\ e.ref = k[i].ref
        /\ e.opens = k[i].opens /\ e.busy = k[i].busy
    BY <2>1, <2>2 DEF KdType
  <2>4. CASE k[i].rawname # NULL /\ ~k[i].busy /\ i \notin failing
    <3>1. E(i) = e
      BY <2>4
    <3> HIDE DEF e, E
    <3>2. UsedRight(e) /\ Counted(e, users[i], opened[i])
      BY <2>1, <2>3, <2>4 DEF UsedRight, Counted
    <3> QED
      BY <2>3, <3>1, <3>2
  <2>5. CASE ~(k[i].rawname # NULL /\ ~k[i].busy /\ i \notin failing)
    BY <2>1, <2>5
  <2> QED
    BY <2>4, <2>5
<1> HIDE DEF E
<1>4. k' \in Seq(KdType) /\ Len(k') = z /\ \A i \in 1 .. z : k'[i] = E(i)
  BY <1>1, <1>2, <1>3
<1>5. Lengths(k', users', opened')
  BY <1>1, <1>2, <1>4 DEF Lengths
<1>6. \A i \in 1 .. z :
        /\ k'[i].name = k[i].name /\ k'[i].rawname = k[i].rawname
        /\ UsedRight(k'[i]) /\ Counted(k'[i], users'[i], opened'[i])
  BY <1>2, <1>3, <1>4
<1> QED
  BY <1>4, <1>5, <1>6, KeepStep

\* Lookup gives the first entry that has an answer.
LEMMA FirstAnswer ==
  ASSUME KdInv, NEW n
  PROVE  LET has == {i \in Index : Answer(i, n) # "next"} IN
         /\ has = {} => vfs_getroot(n) = 0
         /\ has # {} => vfs_getroot(n) \in has
<1> DEFINE has == {i \in Index : Answer(i, n) # "next"}
<1>1. Index = 1 .. Len(knowndevs)
  BY DEF Index, KdInv, Lengths
<1>2. has \in SUBSET Nat
  BY <1>1
<1>3. vfs_getroot(n) = IF has = {} THEN 0 ELSE CHOOSE i \in has : \A j \in has : i <= j
  BY DEF vfs_getroot
<1> HIDE DEF has
<1>4. has # {} => \E i \in has : \A j \in has : i <= j
  BY <1>2, LeastOfNats
<1>5. has # {} => (CHOOSE i \in has : \A j \in has : i <= j) \in has
  BY <1>4
<1> QED
  BY <1>3, <1>5 DEF has

\* An entry with new counts keeps its names, its volume and its use.
Recount(c, r, o) == [c EXCEPT !.ref = r, !.opens = o]

LEMMA Recounted ==
  ASSUME NEW c \in KdType, NEW r \in Nat, NEW o \in Nat,
         NEW e, e = Recount(c, r, o)
  PROVE  /\ e \in KdType /\ e.name = c.name /\ e.rawname = c.rawname
         /\ e.ref = r /\ e.opens = o /\ e.vol = c.vol /\ e.busy = c.busy
  BY DEF KdType, Recount

\* Of two writes to one entry of the table the second stays.
LEMMA WrittenTwice ==
  ASSUME NEW S, NEW t \in Seq(S), NEW p \in 1 .. Len(t), NEW a \in S, NEW b \in S
  PROVE  /\ [t EXCEPT ![p] = a][p] = a
         /\ [[t EXCEPT ![p] = a] EXCEPT ![p] = b] = [t EXCEPT ![p] = b]
<1> DEFINE f == [t EXCEPT ![p] = a]
           g == [f EXCEPT ![p] = b]
           h == [t EXCEPT ![p] = b]
<1>1. t \in [1 .. Len(t) -> S]
  OBVIOUS
<1>2. f \in [1 .. Len(t) -> S] /\ f[p] = a /\ \A q \in 1 .. Len(t) : q # p => f[q] = t[q]
  BY <1>1
<1>3. h \in [1 .. Len(t) -> S] /\ h[p] = b /\ \A q \in 1 .. Len(t) : q # p => h[q] = t[q]
  BY <1>1
<1> HIDE DEF f
<1>4. g \in [1 .. Len(t) -> S] /\ g[p] = b /\ \A q \in 1 .. Len(t) : q # p => g[q] = f[q]
  BY <1>2
<1> HIDE DEF g, h
<1>5. g = h
  BY <1>2, <1>3, <1>4
<1> QED
  BY <1>2, <1>5 DEF f, g, h

\* vnode_decref, then vn_opencount down by one.
LEMMA Dropped ==
  ASSUME NEW c \in KdType, c.ref > 1, c.opens > 0, NEW d, d = [c EXCEPT !.ref = c.ref - 1]
  PROVE  /\ d \in KdType /\ d.opens = c.opens
         /\ [d EXCEPT !.opens = d.opens - 1] = [c EXCEPT !.ref = c.ref - 1, !.opens = c.opens - 1]
  BY DEF KdType

\* vfs_open of a device takes a reference and an open count.
LEMMA OpenStep ==
  ASSUME KdInv, NEW n, OpenDevice(n)
  PROVE  KdInv'
<1> DEFINE k == knowndevs
           i == vfs_getroot(n)
           kd == k[i]
<1>1. i # 0 /\ k' = [k EXCEPT ![i].ref = @ + 1, ![i].opens = @ + 1]
      /\ users' = [users EXCEPT ![i] = users[i] + 1] /\ opened' = [opened EXCEPT ![i] = opened[i] + 1]
  BY DEF OpenDevice
<1>2. i \in Index
  BY <1>1, FirstAnswer
<1>3. i \in 1 .. Len(k)
  BY <1>2 DEF Index, KdInv, Lengths
<1> HIDE DEF i
<1>4. /\ kd \in KdType /\ UsedRight(kd)
      /\ users[i] \in Nat /\ opened[i] = users[i] /\ kd.ref = 1 + users[i] /\ kd.opens = users[i]
      /\ k \in Seq(KdType)
  BY <1>3, EntryOf
<1> DEFINE m == users[i] + 1
           e == Recount(kd, 1 + m, m)
<1>5. m \in Nat /\ 1 + m = kd.ref + 1 /\ m = kd.opens + 1
  BY <1>4
<1>6. k' = [k EXCEPT ![i] = [kd EXCEPT !.ref = kd.ref + 1, !.opens = kd.opens + 1]]
  BY <1>1, <1>3, <1>4 DEF KdType
<1>7. k' = [k EXCEPT ![i] = e] /\ users' = [users EXCEPT ![i] = m] /\ opened' = [opened EXCEPT ![i] = m]
  BY <1>1, <1>4, <1>5, <1>6 DEF Recount
<1> HIDE DEF m
<1>8. /\ e \in KdType /\ e.name = kd.name /\ e.rawname = kd.rawname /\ e.ref = 1 + m
      /\ e.opens = m /\ e.vol = kd.vol /\ e.busy = kd.busy
  <2>1. kd \in KdType /\ m \in Nat /\ 1 + m \in Nat
    BY <1>4, <1>5
  <2>2. e = Recount(kd, 1 + m, m)
    OBVIOUS
  <2> HIDE DEF kd, e
  <2> QED
    BY <2>1, <2>2, Recounted
<1> HIDE DEF e
<1>9. UsedRight(e) /\ Counted(e, m, m)
  BY <1>4, <1>8 DEF UsedRight, Counted
<1> QED
  BY <1>3, <1>5, <1>7, <1>8, <1>9, OneEntry

\* vfs_close gives them back, and the table's reference is left.
LEMMA CloseStep ==
  ASSUME KdInv, NEW i \in Index, CloseDevice(i)
  PROVE  KdInv'
<1> DEFINE k == knowndevs
           kd == k[i]
<1>1. opened[i] > 0 /\ k' = [Decref(i) EXCEPT ![i].opens = @ - 1]
      /\ users' = [users EXCEPT ![i] = users[i] - 1] /\ opened' = [opened EXCEPT ![i] = opened[i] - 1]
  BY DEF CloseDevice
<1>2. i \in 1 .. Len(k)
  BY DEF Index, KdInv, Lengths
<1>3. /\ kd \in KdType /\ UsedRight(kd)
      /\ users[i] \in Nat /\ opened[i] = users[i] /\ kd.ref = 1 + users[i] /\ kd.opens = users[i]
      /\ k \in Seq(KdType)
  BY <1>2, EntryOf
<1> DEFINE m == users[i] - 1
           e == Recount(kd, 1 + m, m)
           d == [kd EXCEPT !.ref = kd.ref - 1]
<1>4. m \in Nat /\ 1 + m = kd.ref - 1 /\ m = kd.opens - 1 /\ kd.ref > 1
  BY <1>1, <1>3
<1>5. Decref(i) = [k EXCEPT ![i] = d]
  BY <1>2, <1>3, <1>4 DEF Decref
<1>6. d \in KdType /\ [d EXCEPT !.opens = d.opens - 1] = e
  <2> HIDE DEF m, d
  <2>1. [d EXCEPT !.opens = d.opens - 1] = [kd EXCEPT !.ref = kd.ref - 1, !.opens = kd.opens - 1]
        /\ d \in KdType
    <3>1. kd \in KdType /\ kd.ref > 1 /\ kd.opens > 0
      BY <1>3, <1>4
    <3>2. d = [kd EXCEPT !.ref = kd.ref - 1]
      BY DEF d
    <3> HIDE DEF kd, d
    <3> QED
      BY <3>1, <3>2, Dropped, Zenon
  <2> QED
    BY <2>1, <1>4 DEF Recount
<1>7. /\ e \in KdType /\ e.name = kd.name /\ e.rawname = kd.rawname /\ e.ref = 1 + m
      /\ e.opens = m /\ e.vol = kd.vol /\ e.busy = kd.busy
  <2>1. kd \in KdType /\ m \in Nat /\ 1 + m \in Nat
    BY <1>3, <1>4
  <2>2. e = Recount(kd, 1 + m, m)
    BY DEF e
  <2> HIDE DEF m, d, kd, e
  <2> QED
    BY <2>1, <2>2, Recounted
<1> DEFINE j == [k EXCEPT ![i] = d]
           f == [d EXCEPT !.opens = d.opens - 1]
<1>8. k' = [j EXCEPT ![i] = [j[i] EXCEPT !.opens = j[i].opens - 1]]
  BY <1>1, <1>5
<1>9. k' = [k EXCEPT ![i] = f]
  <2> HIDE DEF d
  <2>1. j[i] = d
    BY <1>2, <1>3, <1>6, WrittenTwice
  <2>2. k' = [j EXCEPT ![i] = f]
    BY <1>8, <2>1
  <2>3. f \in KdType
    BY <1>6, <1>7
  <2> HIDE DEF f
  <2> QED
    BY <2>2, <2>3, <1>2, <1>3, <1>6, WrittenTwice
<1> HIDE DEF d, e
<1>10. k' = [k EXCEPT ![i] = e] /\ users' = [users EXCEPT ![i] = m] /\ opened' = [opened EXCEPT ![i] = m]
  BY <1>1, <1>3, <1>6, <1>9
<1> HIDE DEF m
<1>11. UsedRight(e) /\ Counted(e, m, m)
  BY <1>3, <1>7 DEF UsedRight, Counted
<1> QED
  BY <1>2, <1>4, <1>7, <1>10, <1>11, OneEntry

\* Every operation keeps the table.
LEMMA KdStep ==
  ASSUME KdInv, [kdNext]_kdVars
  PROVE  KdInv'
<1>1. ASSUME NEW n \in DevName, NEW m \in BOOLEAN, vfs_doadd(n, m, TRUE, NoFs) PROVE KdInv'
  BY <1>1, AddStep
<1>2. ASSUME NEW n \in DevName, vfs_doadd(n, FALSE, FALSE, NULL) PROVE KdInv'
  BY <1>2, AddStep
<1>3. ASSUME NEW i \in Index,
             \/ \E n \in DevName, v \in DevName \cup {NULL} : vfs_mount(i, n, v)
             \/ \E n \in DevName : vfs_unmount(i, n)
             \/ UseVolume(i)
      PROVE  KdInv'
  BY <1>3, VolumeStep
<1>4. CASE vfs_unmountall
  BY <1>4, UnmountallStep
<1>5. ASSUME NEW i \in Index, CloseDevice(i) PROVE KdInv'
  BY <1>5, CloseStep
<1>6. ASSUME NEW n \in DevName, OpenDevice(n) PROVE KdInv'
  BY <1>6, OpenStep
<1>7. CASE UNCHANGED kdVars
  BY <1>7 DEF KdInv, kdVars
<1> QED
  BY <1>1, <1>2, <1>3, <1>4, <1>5, <1>6, <1>7 DEF kdNext, OpenRefused

\* The first entry that answers to a device's name is the device, or a volume of that
\* name hides it.
LEMMA KdFound ==
  ASSUME KdInv
  PROVE  DevicesAreFound
<1> SUFFICES ASSUME NEW i \in Index
             PROVE  LET kd == knowndevs[i] IN
                    /\ \A n \in {kd.name, kd.rawname} \ {NULL} :
                         \/ vfs_getroot(n) = i
                         \/ knowndevs[vfs_getroot(n)].vol = n
                    /\ kd.busy => kd.vol # NoFs
                    /\ kd.ref = 1 + users[i]
                    /\ kd.opens = opened[i]
  BY DEF DevicesAreFound
<1> DEFINE kd == knowndevs[i]
<1>1. Index = 1 .. Len(knowndevs)
  BY DEF Index, KdInv, Lengths
<1>2. UsedRight(kd) /\ opened[i] = users[i] /\ kd.ref = 1 + users[i] /\ kd.opens = users[i]
  BY <1>1, EntryOf
<1>3. ASSUME NEW n \in {kd.name, kd.rawname} \ {NULL}
      PROVE  vfs_getroot(n) = i \/ knowndevs[vfs_getroot(n)].vol = n
  <2> DEFINE j == vfs_getroot(n)
             jd == knowndevs[j]
  <2>1. Answer(i, n) # "next"
    BY DEF Answer
  <2>2. j \in Index /\ Answer(j, n) # "next"
    BY <2>1, FirstAnswer
  <2> HIDE DEF j
  <2>3. n \in {jd.name, jd.rawname} \/ jd.vol = n
    BY <2>2 DEF Answer
  <2>4. n \in {jd.name, jd.rawname} => j = i
    BY <1>1, <2>2 DEF KdInv, Apart, OwnNames
  <2> QED
    BY <2>3, <2>4 DEF j
<1> QED
  BY <1>2, <1>3 DEF UsedRight

\* For any number of devices and any names: vfslist.c and device.c find a device under its
\* names unless a mounted volume was given that name, never drop a volume in use,
\* and leave the table its reference to each device's vnode.
THEOREM DevicesStayFound == kdSpec => []DevicesAreFound
<1>1. kdInit => KdInv
  BY KdInitially
<1>2. KdInv /\ [kdNext]_kdVars => KdInv'
  BY KdStep
<1>3. KdInv => DevicesAreFound
  BY KdFound
<1> QED
  BY <1>1, <1>2, <1>3, PTL DEF kdSpec

-----------------------------------------------------------------------------
(* The menu *)

\* A program's thread has a copy of the arguments asked for.
ProgOK(p) ==
  /\ p = [asked |-> p.asked, array |-> "copy", copy |-> p.asked, read |-> p.read, got |-> p.got]
  /\ p.read => p.got = p.asked

\* What is typed is a line; and after a failure in the kernel's arguments there is nothing more.
MenuInv ==
  /\ mpc \in {"execute", "read", "off", "panic"}
  /\ linebuf \in Seq(KeyChar)
  /\ mpc = "read" => screen = linebuf
  /\ failed1 => mpc = "panic"
  /\ \E S : progs \in Seq(S)
  /\ \A i \in DOMAIN progs : ProgOK(progs[i])

LEMMA AtEndFacts ==
  ASSUME NEW s \in Seq(KeyChar), NEW sp \in BOOLEAN
  PROVE  AtEnd(s, sp) \in 0 .. Len(s)
<1> DEFINE l == Len(s)
           N == {n \in 0 .. l : n < l => (s[l - n] = SP) # sp}
<1>1. l \in Nat
  OBVIOUS
<1> HIDE DEF l
<1>2. l \in N /\ N \in SUBSET Nat
  BY <1>1
<1>3. PICK n \in N : \A m \in N : n <= m
  BY <1>2, LeastOfNats
<1>4. n \in 0 .. l /\ (n < l => (s[l - n] = SP) # sp)
  OBVIOUS
<1>5. ASSUME NEW i \in l - n + 1 .. l PROVE (s[i] = SP) = sp
  <2> DEFINE m == l - i
  <2>1. m \in 0 .. l /\ m < n /\ l - m = i /\ m < l
    BY <1>1, <1>4
  <2> HIDE DEF m
  <2>2. m \notin N
    <3> HIDE DEF N
    <3> QED
      BY <1>1, <1>3, <1>4, <2>1
  <2>3. m \in 0 .. l /\ m < l /\ m \notin N /\ l - m = i
    BY <2>1, <2>2
  <2>4. ~((s[l - m] = SP) # sp)
    BY <2>3
  <2> QED
    BY <2>3, <2>4
<1>6. \E k \in 0 .. l : /\ \A i \in l - k + 1 .. l : (s[i] = SP) = sp
                        /\ k < l => (s[l - k] = SP) # sp
  BY <1>4, <1>5
<1> QED
  BY <1>6 DEF AtEnd, l

\* A line without its last n characters.
LEMMA ShorterFacts ==
  ASSUME NEW s \in Seq(KeyChar), NEW n \in 0 .. Len(s)
  PROVE  /\ SubSeq(s, 1, Len(s) - n) \in Seq(KeyChar) /\ Len(SubSeq(s, 1, Len(s) - n)) = Len(s) - n
<1>1. Len(s) \in Nat /\ Len(s) - n \in 0 .. Len(s)
  OBVIOUS
<1> DEFINE k == Len(s) - n
<1>2. k \in 0 .. Len(s)
  BY <1>1
<1> HIDE DEF k
<1>3. \A i \in 1 .. k : s[i] \in KeyChar
  BY <1>1, <1>2
<1>4. SubSeq(s, 1, k) \in Seq(KeyChar) /\ Len(SubSeq(s, 1, k)) = k
  BY <1>1, <1>2, <1>3, SubSeqProperties
<1> QED
  BY <1>4 DEF k

LEMMA MenuInitially == menuInit => MenuInv
<1> SUFFICES ASSUME menuInit PROVE MenuInv
  OBVIOUS
<1>1. <<>> \in Seq(KeyChar) /\ DOMAIN <<>> = {}
  OBVIOUS
<1> QED
  BY <1>1 DEF menuInit, MenuInv

\* kgets keeps the screen and the buffer alike.
LEMMA EditStep ==
  ASSUME MenuInv, NEW b \in Seq(KeyChar), NEW s, s = b, Edits(b, s)
  PROVE  MenuInv'
  BY DEF MenuInv, Edits

LEMMA KgetsStep ==
  ASSUME MenuInv, kgets
  PROVE  MenuInv'
<1>1. linebuf \in Seq(KeyChar) /\ Len(linebuf) \in Nat
  BY DEF MenuInv
<1>2. mpc = "read" => screen = linebuf
  BY DEF MenuInv
<1>3. ASSUME NEW n \in 0 .. Len(linebuf), mpc = "read"
      PROVE  Shorter(n) \in Seq(KeyChar) /\ backsp(n) = Shorter(n) /\ Len(Shorter(n)) = Len(linebuf) - n
  BY <1>1, <1>2, <1>3, ShorterFacts DEF Shorter, backsp
<1>4. ASSUME NEW ch \in KeyChar, TypeChar(ch) PROVE MenuInv'
  <2>1. Append(linebuf, ch) = Append(screen, ch) /\ Append(linebuf, ch) \in Seq(KeyChar)
        /\ Edits(Append(linebuf, ch), Append(screen, ch))
    BY <1>1, <1>2, <1>4 DEF TypeChar, Edits
  <2> QED
    BY <2>1, EditStep
<1>5. CASE Backspace
  <2>1. mpc = "read" /\ linebuf # <<>> /\ Edits(Shorter(1), backsp(1))
    BY <1>5 DEF Backspace, Edits
  <2>2. 1 \in 0 .. Len(linebuf)
    BY <1>1, <2>1, EmptySeq
  <2> QED
    BY <1>3, <2>1, <2>2, EditStep
<1>6. CASE Reprint
  BY <1>1, <1>6, EditStep DEF Reprint
<1>7. CASE EraseLine
  <2>1. mpc = "read" /\ Edits(<<>>, backsp(Len(linebuf)))
    BY <1>7 DEF EraseLine, Edits
  <2>2. Len(linebuf) \in 0 .. Len(linebuf)
    BY <1>1
  <2>3. Len(Shorter(Len(linebuf))) = 0 /\ Shorter(Len(linebuf)) \in Seq(KeyChar)
        /\ backsp(Len(linebuf)) = Shorter(Len(linebuf))
    BY <1>1, <1>3, <2>1, <2>2
  <2>4. backsp(Len(linebuf)) = <<>>
    BY <2>3, EmptySeq
  <2>5. <<>> \in Seq(KeyChar)
    OBVIOUS
  <2> QED
    BY <2>1, <2>4, <2>5, EditStep
<1>8. CASE EraseWord
  <2> DEFINE blanks == AtEnd(linebuf, TRUE)
             left == Shorter(blanks)
             word == AtEnd(left, FALSE)
  <2>1. mpc = "read" /\ Edits(Shorter(blanks + word), backsp(blanks + word))
    BY <1>8 DEF EraseWord, Edits
  <2>2. blanks \in 0 .. Len(linebuf)
    BY <1>1, AtEndFacts
  <2>3. left \in Seq(KeyChar) /\ Len(left) = Len(linebuf) - blanks
    BY <1>3, <2>1, <2>2
  <2>4. word \in 0 .. Len(left)
    BY <2>3, AtEndFacts
  <2> HIDE DEF blanks, left, word
  <2>5. blanks + word \in 0 .. Len(linebuf)
    BY <1>1, <2>2, <2>3, <2>4
  <2> DEFINE n == blanks + word
  <2>6. Shorter(n) \in Seq(KeyChar) /\ backsp(n) = Shorter(n) /\ Edits(Shorter(n), backsp(n))
    BY <1>3, <2>1, <2>5
  <2> QED
    BY <2>6, EditStep
<1>9. ASSUME NEW text \in Seq(KeyChar), EndLine(text) PROVE MenuInv'
  BY <1>9 DEF EndLine, MenuInv
<1>10. <<>> \in Seq(KeyChar)
  OBVIOUS
<1> QED
  BY <1>1, <1>4, <1>5, <1>6, <1>7, <1>8, <1>9, <1>10 DEF kgets

\* common_prog.
LEMMA StartStep ==
  ASSUME MenuInv, NEW words, progs' = Append(progs, argscopy(words)),
         mpc' = mpc, linebuf' = linebuf, screen' = screen, failed1' = failed1
  PROVE  MenuInv'
<1> DEFINE e == argscopy(words)
<1>1. PICK S : progs \in Seq(S)
  BY DEF MenuInv
<1>2. ProgOK(e)
  BY DEF argscopy, ProgOK
<1> HIDE DEF e
<1>3. progs' = Append(progs, e)
  BY DEF e
<1> DEFINE T == S \cup {e}
<1>4. progs \in Seq(T) /\ e \in T
  <2>1. Len(progs) \in Nat /\ DOMAIN progs = 1 .. Len(progs) /\ \A i \in 1 .. Len(progs) : progs[i] \in S
    BY <1>1
  <2>2. progs \in [1 .. Len(progs) -> T]
    BY <1>1, <2>1
  <2> HIDE DEF T
  <2>3. progs \in Seq(T)
    BY <2>1, <2>2, SeqDef
  <2> QED
    BY <2>3 DEF T
<1> HIDE DEF T
<1>5. /\ progs' \in Seq(T) /\ Len(progs') = Len(progs) + 1 /\ Len(progs) \in Nat
      /\ progs'[Len(progs) + 1] = e /\ \A i \in 1 .. Len(progs) : progs'[i] = progs[i]
  BY <1>3, <1>4
<1>6. DOMAIN progs' = 1 .. Len(progs) + 1 /\ DOMAIN progs = 1 .. Len(progs)
  BY <1>4, <1>5
<1>7. \A i \in DOMAIN progs' : ProgOK(progs'[i])
  <2> SUFFICES ASSUME NEW i \in 1 .. Len(progs) + 1 PROVE ProgOK(progs'[i])
    BY <1>6
  <2>1. CASE i = Len(progs) + 1
    BY <1>2, <1>5, <2>1
  <2>2. CASE i # Len(progs) + 1
    <3>1. i \in 1 .. Len(progs)
      BY <1>5, <2>2
    <3> QED
      BY <1>5, <1>6, <3>1 DEF MenuInv
  <2> QED
    BY <2>1, <2>2
<1> QED
  BY <1>5, <1>7 DEF MenuInv

\* cmd_progthread.
LEMMA ThreadLooks ==
  ASSUME MenuInv, NEW i \in DOMAIN progs, cmd_progthread(i)
  PROVE  MenuInv'
<1> DEFINE p == progs[i]
           g == IF p.array = "copy" THEN p.copy ELSE OnStack
           e == [p EXCEPT !.read = TRUE, !.got = g]
<1>1. progs' = [progs EXCEPT ![i] = e]
  BY DEF cmd_progthread
<1>2. ProgOK(p)
  BY DEF MenuInv
<1>3. p.array = "copy" /\ p.copy = p.asked
  BY <1>2 DEF ProgOK
<1>4. g = p.asked
  BY <1>3
<1>5. ProgOK(e)
  <2> HIDE DEF g, p
  <2> DEFINE a == p.asked
             r == p.read
             q == p.got
  <2>1. p = [asked |-> a, array |-> "copy", copy |-> a, read |-> r, got |-> q]
    BY <1>2 DEF ProgOK
  <2> HIDE DEF a, r, q
  <2>2. e = [asked |-> a, array |-> "copy", copy |-> a, read |-> TRUE, got |-> g]
    <3>1. p \in [asked : {a}, array : {"copy"}, copy : {a}, read : {r, TRUE}, got : {q, g}]
      BY <2>1
    <3>2. /\ e \in [asked : {a}, array : {"copy"}, copy : {a}, read : {r, TRUE}, got : {q, g}]
          /\ e.asked = a /\ e.array = "copy" /\ e.copy = a /\ e.read = TRUE /\ e.got = g
      BY <3>1
    <3> HIDE DEF e
    <3> QED
      BY <3>2
  <2>3. g = a
    BY <1>4 DEF a
  <2> QED
    BY <2>2, <2>3 DEF ProgOK
<1> HIDE DEF e, p, g
<1>6. PICK S : progs \in Seq(S)
  BY DEF MenuInv
<1> DEFINE T == S \cup {e}
<1>7. /\ Len(progs) \in Nat /\ DOMAIN progs = 1 .. Len(progs) /\ progs \in [1 .. Len(progs) -> S]
  BY <1>6
<1>8. progs' \in [1 .. Len(progs) -> T] /\ progs'[i] = e /\ \A j \in 1 .. Len(progs) : j # i => progs'[j] = progs[j]
  BY <1>1, <1>7
<1> HIDE DEF T
<1>9. progs' \in Seq(T)
  BY <1>7, <1>8, SeqDef
<1>10. \A j \in DOMAIN progs' : ProgOK(progs'[j])
  BY <1>5, <1>7, <1>8 DEF MenuInv
<1>11. mpc' = mpc /\ linebuf' = linebuf /\ screen' = screen /\ failed1' = failed1
  BY DEF cmd_progthread, editVars
<1> QED
  BY <1>9, <1>10, <1>11 DEF MenuInv

LEMMA MenuStep == MenuInv /\ [menuNext]_menuVars => MenuInv'
<1> SUFFICES ASSUME MenuInv, [menuNext]_menuVars PROVE MenuInv'
  OBVIOUS
<1>1. CASE kgets
  BY <1>1, KgetsStep
<1>2. CASE cmd_prog
  BY <1>2, StartStep DEF cmd_prog, editVars
<1>3. CASE cmd_shell
  BY <1>3, StartStep DEF cmd_shell, editVars
<1>4. CASE cmd_panic \/ CopyFaults
  BY <1>4 DEF cmd_panic, CopyFaults, editVars, MenuInv, Executing
<1>5. CASE CommandOk
  BY <1>5 DEF CommandOk, editVars, MenuInv
<1>6. CASE CommandFails
  BY <1>6 DEF CommandFails, editVars, MenuInv, Executing
<1>7. CASE cmd_quit
  BY <1>7 DEF cmd_quit, sys_reboot, editVars, MenuInv, Executing
<1>8. CASE Prompt
  <2>1. <<>> \in Seq(KeyChar)
    OBVIOUS
  <2> QED
    BY <1>8, <2>1 DEF Prompt, MenuInv
<1>9. CASE \E i \in DOMAIN progs : cmd_progthread(i)
  BY <1>9, ThreadLooks
<1>10. CASE UNCHANGED menuVars
  BY <1>10 DEF menuVars, MenuInv
<1> QED
  BY <1>1, <1>2, <1>3, <1>4, <1>5, <1>6, <1>7, <1>8, <1>9, <1>10 DEF menuNext

\* The line editor of kgets and the threads started by common_prog: for lines of any
\* length, through every sequence of corrections, the buffer is what the screen
\* shows, a program's thread finds the arguments it was started with, however late
\* it looks, and after a failure in the kernel's arguments there is no prompt.
THEOREM MenuKeepsItsWord == menuSpec => []MenuDoesAsTold
<1>1. MenuInv => MenuDoesAsTold
  BY DEF MenuInv, MenuDoesAsTold, ProgOK
<1> QED
  BY <1>1, MenuInitially, MenuStep, PTL DEF menuSpec

-----------------------------------------------------------------------------
(* The bus: the invariant *)

SoftcRec == [kind : DeviceKind, slot : 0 .. LB_NSLOTS, unit : Nat, parent : Nat, conf : BOOLEAN]
ProbeRec == [dev : DeviceKind, at : Nat, first : BOOLEAN, unit : Nat, got : Nat]

BusType ==
  /\ machine \in [BusSlot -> DeviceKind \cup {"none"}] /\ board \in CpuBoards
  /\ softc \in Seq(SoftcRec) /\ tobe \in Seq(ProbeRec)
  /\ ls_slotsinuse \subseteq BusSlot /\ ls_devdata \in [BusSlot -> Nat] /\ enabled \subseteq BusSlot
  /\ nextunit \in [DeviceKind -> Nat] /\ the \in [Generic -> Nat] /\ addfailed \subseteq Generic

\* Cards: slots, and handlers.
CardsOK(sc, mach, inuse, data) ==
  /\ \A i, j \in DOMAIN sc : sc[i].kind \notin Generic /\ sc[j].kind \notin Generic /\ sc[i].slot = sc[j].slot => i = j
  /\ \A i \in DOMAIN sc : sc[i].kind \notin Generic =>
       /\ sc[i].slot \in BusSlot /\ sc[i].slot \in inuse /\ mach[sc[i].slot] = sc[i].kind
       /\ sc[i].kind \notin {"ltrace", "lrandom"} => data[sc[i].slot] = i

\* Configured devices have units of their own, below the next; a generic one is in use.
UnitsOK(sc, next, th) ==
  /\ \A i, j \in DOMAIN sc :
       sc[i].conf /\ sc[j].conf /\ sc[i].kind \notin Generic /\ sc[i].kind = sc[j].kind /\ sc[i].unit = sc[j].unit => i = j
  /\ \A i \in DOMAIN sc : sc[i].conf /\ sc[i].kind \notin Generic => sc[i].unit < next[sc[i].kind]
  /\ \A i \in DOMAIN sc : sc[i].conf /\ sc[i].kind \in Generic => th[sc[i].kind] = i

\* The device a generic one is on is configured, and a serial port has one console.
ParentOf(dev) == IF dev = "con" THEN "lser" ELSE IF dev = "random" THEN "lrandom" ELSE "ltimer"
IsParent(sc, p, dev) == p \in DOMAIN sc /\ sc[p].conf /\ sc[p].kind = ParentOf(dev)
ParentsOK(sc) ==
  /\ \A i \in DOMAIN sc : sc[i].kind \in Generic => IsParent(sc, sc[i].parent, sc[i].kind)
  /\ \A i, j \in DOMAIN sc : sc[i].kind = "con" /\ sc[j].kind = "con" /\ sc[i].parent = sc[j].parent => i = j

\* A generic device in use is configured; one whose unit is free was not registered.
TheOK(sc, th, next, af) ==
  /\ \A k \in Generic : th[k] # 0 => th[k] \in DOMAIN sc /\ sc[th[k]].kind = k /\ sc[th[k]].conf
  /\ \A k \in Generic : th[k] # 0 /\ next[k] = 0 => k \in af

\* The probes to come: the first may have its softc; a card is listed once; what is at
\* a device comes after it is configured.
ProbeOK(sc, next, e) ==
  /\ e.dev \in Generic => IsParent(sc, e.at, e.dev)
  /\ e.dev = "con" /\ e.got = 0 => \A j \in DOMAIN sc : sc[j].kind = "con" => sc[j].parent # e.at
  /\ ~e.first => e.unit >= next[e.dev]
  /\ e.got # 0 => /\ ~e.first /\ e.got \in DOMAIN sc
                  /\ sc[e.got].kind = e.dev /\ sc[e.got].unit = e.unit /\ ~sc[e.got].conf
                  /\ e.dev \in Generic => next[e.dev] = 0
Waits(e) == e.got = 0 /\ (e.dev \in Generic => e.first)
Differ(e, f) ==
  /\ e.dev = f.dev => e.dev \in Generic
  /\ e.dev = "con" /\ f.dev = "con" => e.at # f.at
ProbesOK(sc, tb, next) ==
  /\ \A i \in DOMAIN tb : ProbeOK(sc, next, tb[i])
  /\ \A i \in DOMAIN tb : i # 1 => Waits(tb[i])
  /\ \A i, j \in DOMAIN tb : i # j => Differ(tb[i], tb[j])

\* A card that may interrupt is configured; one timer ticks.
EnabledOK(sc, en, mach) ==
  /\ \A s \in en : \E i \in DOMAIN sc : sc[i].conf /\ sc[i].kind \notin Generic /\ sc[i].slot = s
  /\ \A r, s \in en : mach[r] = "ltimer" /\ mach[s] = "ltimer" => r = s

CpusOK ==
  /\ bpc # "cpus" => allcpus = <<board.self>> \o Ascending(board.mask \ {board.self})
  /\ cram = <<>> \/ (bpc # "cpus" /\ cram = StartNumbers)

BusInv ==
  /\ BusType
  /\ CardsOK(softc, machine, ls_slotsinuse, ls_devdata)
  /\ UnitsOK(softc, nextunit, the)
  /\ ParentsOK(softc)
  /\ TheOK(softc, the, nextunit, addfailed)
  /\ ProbesOK(softc, tobe, nextunit)
  /\ EnabledOK(softc, enabled, machine)
  /\ CpusOK
  /\ bpc = "panic" => addfailed # {}
  /\ bpc = "wild" /\ Cardinality(Configured("lser")) = 1 => the.con = 0

-----------------------------------------------------------------------------
(* Probes and soft contexts *)

LEMMA KindFacts ==
  /\ \A k \in Generic : k \in DeviceKind /\ k \notin CardKind /\ ParentOf(k) \in {"lser", "lrandom", "ltimer"}
  /\ \A k \in CardKind : k \in DeviceKind /\ k \notin Generic
  /\ \A k \in DeviceKind : k \in CardKind \/ k \in Generic
  /\ "con" \in Generic /\ ParentOf("con") = "lser"
  BY DEF Generic, CardKind, DeviceKind, ParentOf

\* What autoconf lists for device dev at softc g.
NewProbe(e, dev, g) ==
  e \in ProbeRec /\ e.dev \in Generic /\ ParentOf(e.dev) = dev /\ e.at = g /\ e.first = TRUE /\ e.got = 0

Lists(A, L, g) ==
  /\ A \in Seq(ProbeRec) /\ DOMAIN A = DOMAIN L
  /\ \A i \in DOMAIN L : A[i].dev = L[i] /\ A[i].at = g /\ A[i].first = TRUE /\ A[i].got = 0

LEMMA AutoconfList ==
  ASSUME NEW bus \in DOMAIN DevicesAt, NEW L \in Seq(DeviceKind), DevicesAt[bus] = L, NEW g \in Nat
  PROVE  Lists(autoconf(bus, g), L, g)
<1> DEFINE A == autoconf(bus, g)
           n == Len(L)
<1>1. A = [i \in DOMAIN L |-> [dev |-> L[i], at |-> g, first |-> TRUE, unit |-> 0, got |-> 0]]
  BY DEF autoconf
<1>2. n \in Nat /\ DOMAIN L = 1 .. n /\ \A i \in 1 .. n : L[i] \in DeviceKind
  BY LenProperties, ElementOfSeq
<1> HIDE DEF n, A
<1>3. \A i \in 1 .. n : A[i] = [dev |-> L[i], at |-> g, first |-> TRUE, unit |-> 0, got |-> 0]
  BY <1>1, <1>2
<1>4. \A i \in 1 .. n : A[i] \in ProbeRec /\ A[i].dev = L[i] /\ A[i].at = g /\ A[i].first = TRUE /\ A[i].got = 0
  <2> SUFFICES ASSUME NEW i \in 1 .. n
               PROVE  A[i] \in ProbeRec /\ A[i].dev = L[i] /\ A[i].at = g /\ A[i].first = TRUE /\ A[i].got = 0
    OBVIOUS
  <2> DEFINE d == L[i]
  <2>1. d \in DeviceKind /\ A[i] = [dev |-> d, at |-> g, first |-> TRUE, unit |-> 0, got |-> 0]
    BY <1>2, <1>3
  <2> HIDE DEF d
  <2>2. [dev |-> d, at |-> g, first |-> TRUE, unit |-> 0, got |-> 0] \in ProbeRec
    BY <2>1 DEF ProbeRec
  <2>3. A[i].dev = d /\ A[i].at = g /\ A[i].first = TRUE /\ A[i].got = 0
    BY <2>1
  <2> QED
    BY <2>1, <2>2, <2>3 DEF d
<1>5. DOMAIN A = 1 .. n
  BY <1>1, <1>2
<1>6. A \in [1 .. n -> ProbeRec]
  BY <1>1, <1>2, <1>4
<1>7. A \in Seq(ProbeRec)
  BY <1>2, <1>6, SeqDef
<1> QED
  BY <1>2, <1>4, <1>5, <1>7 DEF A, Lists

LEMMA ListFacts ==
  /\ DOMAIN DevicesAt = {"lamebus", "ltimer", "lser", "lrandom"}
  /\ DevicesAt["lamebus"] = <<"emu", "ltrace", "ltimer", "lrandom", "lhd", "lser">>
  /\ DevicesAt["ltimer"] = <<"beep", "rtclock">>
  /\ DevicesAt["lser"] = <<"con">>
  /\ DevicesAt["lrandom"] = <<"random">>
  BY DEF DevicesAt

LEMMA AutoconfCard ==
  ASSUME NEW dev \in CardKind, NEW g \in Nat
  PROVE  LET A == autoconf(dev, g)
         IN  /\ A \in Seq(ProbeRec)
             /\ \A i \in DOMAIN A : NewProbe(A[i], dev, g)
             /\ \A i, j \in DOMAIN A : i # j => A[i].dev # A[j].dev
<1> DEFINE A == autoconf(dev, g)
<1>1. CASE dev \in {"ltimer", "lser", "lrandom"}
  <2> DEFINE L == DevicesAt[dev]
  <2>1. /\ dev \in DOMAIN DevicesAt /\ L \in Seq(DeviceKind)
        /\ \A i \in DOMAIN L : L[i] \in Generic /\ ParentOf(L[i]) = dev
        /\ \A i, j \in DOMAIN L : i # j => L[i] # L[j]
    <3>1. CASE dev = "ltimer"
      <4> DEFINE M == <<"beep", "rtclock">>
      <4>1. L = M /\ dev \in DOMAIN DevicesAt
        BY <3>1, ListFacts
      <4>2. M \in Seq(DeviceKind) /\ DOMAIN M = {1, 2} /\ M[1] = "beep" /\ M[2] = "rtclock"
        BY DEF DeviceKind, Generic
      <4> HIDE DEF M, L
      <4>3. \A i \in DOMAIN M : M[i] \in Generic /\ ParentOf(M[i]) = dev
        BY <3>1, <4>2 DEF Generic, ParentOf
      <4>4. \A i, j \in DOMAIN M : i # j => M[i] # M[j]
        BY <4>2
      <4> QED
        BY <4>1, <4>2, <4>3, <4>4
    <3>2. CASE dev = "lser"
      <4>1. L = <<"con">> /\ dev \in DOMAIN DevicesAt
        BY <3>2, ListFacts
      <4> HIDE DEF L
      <4> QED
        BY <3>2, <4>1 DEF Generic, DeviceKind, ParentOf
    <3>3. CASE dev = "lrandom"
      <4>1. L = <<"random">> /\ dev \in DOMAIN DevicesAt
        BY <3>3, ListFacts
      <4> HIDE DEF L
      <4> QED
        BY <3>3, <4>1 DEF Generic, DeviceKind, ParentOf
    <3> QED
      BY <1>1, <3>1, <3>2, <3>3
  <2>a. Lists(A, L, g)
    BY <2>1, AutoconfList
  <2> HIDE DEF L
  <2>2. /\ A \in Seq(ProbeRec) /\ DOMAIN A = DOMAIN L
        /\ \A i \in DOMAIN L : A[i].dev = L[i] /\ A[i].at = g /\ A[i].first = TRUE /\ A[i].got = 0
    BY <2>a DEF Lists
  <2> HIDE DEF A
  <2>3. \A i \in DOMAIN A : A[i] \in ProbeRec
    BY <2>2, ElementOfSeq, LenProperties
  <2>4. \A i \in DOMAIN A : NewProbe(A[i], dev, g)
    BY <2>1, <2>2, <2>3 DEF NewProbe
  <2>5. \A i, j \in DOMAIN A : i # j => A[i].dev # A[j].dev
    BY <2>1, <2>2
  <2> QED
    BY <2>2, <2>4, <2>5 DEF A
<1>2. CASE dev \in {"emu", "ltrace", "lhd"}
  <2>1. dev \notin DOMAIN DevicesAt
    BY <1>2, ListFacts
  <2>2. A = <<>>
    BY <2>1 DEF autoconf
  <2> HIDE DEF A
  <2>3. A \in Seq(ProbeRec) /\ DOMAIN A = {}
    BY <2>2
  <2> QED
    BY <2>3 DEF A
<1> QED
  BY <1>1, <1>2 DEF CardKind

LEMMA AutoconfGeneric ==
  ASSUME NEW dev \in Generic, NEW g
  PROVE  autoconf(dev, g) = <<>>
<1>1. dev \notin DOMAIN DevicesAt
  BY DEF DevicesAt, Generic
<1> QED
  BY <1>1 DEF autoconf

LEMMA AutoconfBus ==
  LET A == autoconf("lamebus", 0)
  IN  /\ A \in Seq(ProbeRec)
      /\ \A i \in DOMAIN A : A[i].dev \in CardKind /\ A[i].first = TRUE /\ A[i].got = 0
      /\ \A i, j \in DOMAIN A : i # j => A[i].dev # A[j].dev
<1> DEFINE L == <<"emu", "ltrace", "ltimer", "lrandom", "lhd", "lser">>
           A == autoconf("lamebus", 0)
<1>1. /\ L \in Seq(DeviceKind) /\ DOMAIN L = {1, 2, 3, 4, 5, 6}
      /\ L[1] = "emu" /\ L[2] = "ltrace" /\ L[3] = "ltimer" /\ L[4] = "lrandom" /\ L[5] = "lhd" /\ L[6] = "lser"
  BY DEF DeviceKind, CardKind
<1>2. DevicesAt["lamebus"] = L /\ "lamebus" \in DOMAIN DevicesAt
  BY ListFacts
<1> HIDE DEF L
<1>3. \A i \in DOMAIN L : L[i] \in CardKind
  BY <1>1 DEF CardKind
<1>4. \A i, j \in DOMAIN L : i # j => L[i] # L[j]
  BY <1>1
<1>5. /\ A \in Seq(ProbeRec) /\ DOMAIN A = DOMAIN L
      /\ \A i \in DOMAIN L : A[i].dev = L[i] /\ A[i].at = 0 /\ A[i].first = TRUE /\ A[i].got = 0
  <2> DEFINE bus == "lamebus"
             g == 0
  <2>1. bus \in DOMAIN DevicesAt /\ DevicesAt[bus] = L /\ g \in Nat
    BY <1>2
  <2>2. A = autoconf(bus, g)
    OBVIOUS
  <2> HIDE DEF bus, g, A
  <2>4. Lists(A, L, g)
    BY <1>1, <2>1, <2>2, AutoconfList
  <2>3. /\ A \in Seq(ProbeRec) /\ DOMAIN A = DOMAIN L
        /\ \A i \in DOMAIN L : A[i].dev = L[i] /\ A[i].at = g /\ A[i].first = TRUE /\ A[i].got = 0
    BY <2>4 DEF Lists
  <2> QED
    BY <2>3 DEF g
<1> HIDE DEF A
<1>6. /\ \A i \in DOMAIN A : A[i].dev \in CardKind /\ A[i].first = TRUE /\ A[i].got = 0
      /\ \A i, j \in DOMAIN A : i # j => A[i].dev # A[j].dev
  BY <1>3, <1>4, <1>5
<1> QED
  BY <1>5, <1>6 DEF A

\* sd is sc with a soft context x that is not configured yet, as number n.
Grown(sc, sd, x, n) ==
  /\ n \notin DOMAIN sc /\ n \in Nat \ {0} /\ DOMAIN sd = DOMAIN sc \cup {n}
  /\ sd[n] = x /\ ~x.conf /\ \A i \in DOMAIN sc : sd[i] = sc[i]

LEMMA GrownParent ==
  ASSUME NEW sc, NEW sd, NEW x, NEW n, Grown(sc, sd, x, n), NEW p, NEW dev, IsParent(sc, p, dev)
  PROVE  IsParent(sd, p, dev)
  BY DEF Grown, IsParent

LEMMA GrownOthers ==
  ASSUME NEW sc, NEW sd, NEW x, NEW n, Grown(sc, sd, x, n),
         NEW next, NEW th, NEW af, NEW en, NEW mach
  PROVE  /\ UnitsOK(sc, next, th) => UnitsOK(sd, next, th)
         /\ TheOK(sc, th, next, af) => TheOK(sd, th, next, af)
         /\ EnabledOK(sc, en, mach) => EnabledOK(sd, en, mach)
<1>1. /\ n \notin DOMAIN sc /\ DOMAIN sd = DOMAIN sc \cup {n}
      /\ sd[n] = x /\ ~x.conf /\ \A i \in DOMAIN sc : sd[i] = sc[i]
  BY DEF Grown
<1>2. \A i \in DOMAIN sd : sd[i].conf => i \in DOMAIN sc /\ sd[i] = sc[i]
  BY <1>1
<1>3. UnitsOK(sc, next, th) => UnitsOK(sd, next, th)
  <2> SUFFICES ASSUME UnitsOK(sc, next, th) PROVE UnitsOK(sd, next, th)
    OBVIOUS
  <2>1. ASSUME NEW i \in DOMAIN sd, NEW j \in DOMAIN sd, sd[i].conf, sd[j].conf, sd[i].kind \notin Generic,
               sd[i].kind = sd[j].kind, sd[i].unit = sd[j].unit
        PROVE  i = j
    BY <1>2, <2>1 DEF UnitsOK
  <2>2. ASSUME NEW i \in DOMAIN sd, sd[i].conf, sd[i].kind \notin Generic PROVE sd[i].unit < next[sd[i].kind]
    BY <1>2, <2>2 DEF UnitsOK
  <2>3. ASSUME NEW i \in DOMAIN sd, sd[i].conf, sd[i].kind \in Generic PROVE th[sd[i].kind] = i
    BY <1>2, <2>3 DEF UnitsOK
  <2> QED
    BY <2>1, <2>2, <2>3 DEF UnitsOK
<1>4. TheOK(sc, th, next, af) => TheOK(sd, th, next, af)
  BY <1>1 DEF TheOK
<1>5. EnabledOK(sc, en, mach) => EnabledOK(sd, en, mach)
  <2> SUFFICES ASSUME EnabledOK(sc, en, mach) PROVE EnabledOK(sd, en, mach)
    OBVIOUS
  <2>1. ASSUME NEW s \in en PROVE \E i \in DOMAIN sd : sd[i].conf /\ sd[i].kind \notin Generic /\ sd[i].slot = s
    <3>1. PICK i \in DOMAIN sc : sc[i].conf /\ sc[i].kind \notin Generic /\ sc[i].slot = s
      BY DEF EnabledOK
    <3>2. i \in DOMAIN sd /\ sd[i] = sc[i]
      BY <1>1
    <3> QED
      BY <3>1, <3>2
  <2> QED
    BY <2>1 DEF EnabledOK
<1> QED
  BY <1>3, <1>4, <1>5

LEMMA GrownParents ==
  ASSUME NEW sc, NEW sd, NEW x, NEW n, Grown(sc, sd, x, n), ParentsOK(sc),
         x.kind \in Generic => IsParent(sc, x.parent, x.kind),
         x.kind = "con" => \A j \in DOMAIN sc : sc[j].kind = "con" => sc[j].parent # x.parent
  PROVE  ParentsOK(sd)
<1>1. /\ n \notin DOMAIN sc /\ DOMAIN sd = DOMAIN sc \cup {n}
      /\ sd[n] = x /\ \A i \in DOMAIN sc : sd[i] = sc[i]
  BY DEF Grown
<1>2. ASSUME NEW i \in DOMAIN sd, sd[i].kind \in Generic PROVE IsParent(sd, sd[i].parent, sd[i].kind)
  <2>1. IsParent(sc, sd[i].parent, sd[i].kind)
    BY <1>1, <1>2 DEF ParentsOK
  <2> QED
    BY <2>1, GrownParent
<1>3. ASSUME NEW i \in DOMAIN sd, NEW j \in DOMAIN sd, sd[i].kind = "con", sd[j].kind = "con", sd[i].parent = sd[j].parent
      PROVE  i = j
  <2>1. i \in DOMAIN sc \/ i = n
    BY <1>1
  <2>2. j \in DOMAIN sc \/ j = n
    BY <1>1
  <2>3. i \in DOMAIN sc => sd[i] = sc[i]
    BY <1>1
  <2>4. j \in DOMAIN sc => sd[j] = sc[j]
    BY <1>1
  <2>5. CASE i \in DOMAIN sc /\ j \in DOMAIN sc
    BY <1>3, <2>3, <2>4, <2>5 DEF ParentsOK
  <2>6. CASE i \in DOMAIN sc /\ j = n
    BY <1>1, <1>3, <2>3, <2>6
  <2>7. CASE j \in DOMAIN sc /\ i = n
    BY <1>1, <1>3, <2>4, <2>7
  <2> QED
    BY <2>1, <2>2, <2>5, <2>6, <2>7
<1> QED
  BY <1>2, <1>3 DEF ParentsOK

LEMMA GrownByCard ==
  ASSUME NEW sc, NEW sd, NEW x, NEW n, Grown(sc, sd, x, n), NEW mach, NEW inuse, NEW data,
         CardsOK(sc, mach, inuse, data), x.slot \in BusSlot \ inuse, mach[x.slot] = x.kind,
         NEW data2, \A s \in BusSlot : s # x.slot => data2[s] = data[s],
         x.kind \notin {"ltrace", "lrandom"} => data2[x.slot] = n
  PROVE  CardsOK(sd, mach, inuse \cup {x.slot}, data2)
<1>1. /\ n \notin DOMAIN sc /\ DOMAIN sd = DOMAIN sc \cup {n}
      /\ sd[n] = x /\ \A i \in DOMAIN sc : sd[i] = sc[i]
  BY DEF Grown
<1>2. ASSUME NEW i \in DOMAIN sc, sc[i].kind \notin Generic
      PROVE  /\ sc[i].slot \in BusSlot /\ sc[i].slot \in inuse /\ mach[sc[i].slot] = sc[i].kind
             /\ sc[i].kind \notin {"ltrace", "lrandom"} => data[sc[i].slot] = i
             /\ sc[i].slot # x.slot
  BY <1>2 DEF CardsOK
<1>3. ASSUME NEW i \in DOMAIN sd, sd[i].kind \notin Generic
      PROVE  /\ sd[i].slot \in BusSlot /\ sd[i].slot \in inuse \cup {x.slot} /\ mach[sd[i].slot] = sd[i].kind
             /\ sd[i].kind \notin {"ltrace", "lrandom"} => data2[sd[i].slot] = i
  <2>1. CASE i = n
    BY <1>1, <2>1
  <2>2. CASE i \in DOMAIN sc
    <3>1. sd[i] = sc[i]
      BY <1>1, <2>2
    <3>2. /\ sc[i].slot \in BusSlot /\ sc[i].slot \in inuse /\ mach[sc[i].slot] = sc[i].kind
          /\ sc[i].kind \notin {"ltrace", "lrandom"} => data[sc[i].slot] = i
          /\ sc[i].slot # x.slot
      BY <1>2, <1>3, <2>2, <3>1
    <3> QED
      BY <3>1, <3>2
  <2> QED
    BY <1>1, <2>1, <2>2
<1>4. ASSUME NEW i \in DOMAIN sd, NEW j \in DOMAIN sd, sd[i].kind \notin Generic, sd[j].kind \notin Generic,
             sd[i].slot = sd[j].slot
      PROVE  i = j
  <2>1. i \in DOMAIN sc => sd[i] = sc[i] /\ sc[i].slot # x.slot
    BY <1>1, <1>2, <1>4
  <2>2. j \in DOMAIN sc => sd[j] = sc[j] /\ sc[j].slot # x.slot
    BY <1>1, <1>2, <1>4
  <2>3. CASE i \in DOMAIN sc /\ j \in DOMAIN sc
    BY <1>4, <2>1, <2>2, <2>3 DEF CardsOK
  <2>4. CASE i = n \/ j = n
    BY <1>1, <1>4, <2>1, <2>2, <2>4
  <2> QED
    BY <1>1, <2>3, <2>4
<1> QED
  BY <1>3, <1>4 DEF CardsOK

LEMMA GrownByGeneric ==
  ASSUME NEW sc, NEW sd, NEW x, NEW n, Grown(sc, sd, x, n), NEW mach, NEW inuse, NEW data,
         CardsOK(sc, mach, inuse, data), x.kind \in Generic
  PROVE  CardsOK(sd, mach, inuse, data)
<1>1. /\ DOMAIN sd = DOMAIN sc \cup {n} /\ sd[n] = x /\ \A i \in DOMAIN sc : sd[i] = sc[i]
  BY DEF Grown
<1>2. \A i \in DOMAIN sd : sd[i].kind \notin Generic => i \in DOMAIN sc /\ sd[i] = sc[i]
  BY <1>1
<1>3. ASSUME NEW i \in DOMAIN sd, sd[i].kind \notin Generic
      PROVE  /\ sd[i].slot \in BusSlot /\ sd[i].slot \in inuse /\ mach[sd[i].slot] = sd[i].kind
             /\ sd[i].kind \notin {"ltrace", "lrandom"} => data[sd[i].slot] = i
  BY <1>2, <1>3 DEF CardsOK
<1>4. ASSUME NEW i \in DOMAIN sd, NEW j \in DOMAIN sd, sd[i].kind \notin Generic, sd[j].kind \notin Generic,
             sd[i].slot = sd[j].slot
      PROVE  i = j
  BY <1>2, <1>4 DEF CardsOK
<1> QED
  BY <1>3, <1>4 DEF CardsOK

\* The first probe e has got its soft context, number n.
LEMMA GrownProbes ==
  ASSUME NEW sc, NEW sd, NEW x, NEW n, Grown(sc, sd, x, n), NEW next, NEW tb, NEW tc, NEW e, NEW d,
         ProbesOK(sc, tb, next), DOMAIN tc = DOMAIN tb, tb[1] = e, tc[1] = d, 1 \in DOMAIN tb,
         \A i \in DOMAIN tb : i # 1 => tc[i] = tb[i],
         d.dev = e.dev, d.at = e.at, d.got = n, ~d.first, d.unit >= next[d.dev],
         x.kind = e.dev, x.parent = e.at, x.unit = d.unit,
         e.dev \in Generic => next[e.dev] = 0
  PROVE  ProbesOK(sd, tc, next)
<1>1. /\ n \notin DOMAIN sc /\ n \in Nat \ {0} /\ DOMAIN sd = DOMAIN sc \cup {n}
      /\ sd[n] = x /\ ~x.conf /\ \A i \in DOMAIN sc : sd[i] = sc[i]
  BY DEF Grown
<1>2. /\ \A i \in DOMAIN tb : ProbeOK(sc, next, tb[i])
      /\ \A i \in DOMAIN tb : i # 1 => Waits(tb[i])
      /\ \A i, j \in DOMAIN tb : i # j => Differ(tb[i], tb[j])
  BY DEF ProbesOK
<1>3. ProbeOK(sd, next, d)
  <2>1. ProbeOK(sc, next, e)
    BY <1>2
  <2>2. d.dev \in Generic => IsParent(sd, d.at, d.dev)
    <3>1. d.dev \in Generic => IsParent(sc, d.at, d.dev)
      BY <2>1 DEF ProbeOK
    <3> QED
      BY <3>1, GrownParent
  <2>3. d.got # 0 /\ d.got \in DOMAIN sd /\ sd[d.got] = x
    BY <1>1
  <2> QED
    BY <1>1, <2>2, <2>3 DEF ProbeOK
<1>4. ASSUME NEW i \in DOMAIN tb, i # 1 PROVE ProbeOK(sd, next, tb[i])
  <2> DEFINE f == tb[i]
  <2>1. ProbeOK(sc, next, f) /\ Waits(f) /\ Differ(e, f)
    BY <1>2, <1>4
  <2> HIDE DEF f
  <2>2. f.dev \in Generic => IsParent(sd, f.at, f.dev)
    <3>1. f.dev \in Generic => IsParent(sc, f.at, f.dev)
      BY <2>1 DEF ProbeOK
    <3> QED
      BY <3>1, GrownParent
  <2>3. f.got = 0
    BY <2>1 DEF Waits
  <2>4. ASSUME f.dev = "con", NEW j \in DOMAIN sd, sd[j].kind = "con" PROVE sd[j].parent # f.at
    <3>1. CASE j = n
      BY <1>1, <2>1, <2>4, <3>1 DEF Differ
    <3>2. CASE j \in DOMAIN sc
      BY <1>1, <2>1, <2>3, <2>4, <3>2 DEF ProbeOK
    <3> QED
      BY <1>1, <3>1, <3>2
  <2>5. ~f.first => f.unit >= next[f.dev]
    BY <2>1 DEF ProbeOK
  <2>6. ProbeOK(sd, next, f)
    BY <2>2, <2>3, <2>4, <2>5 DEF ProbeOK
  <2> QED
    BY <2>6 DEF f
<1>5. \A i \in DOMAIN tc : ProbeOK(sd, next, tc[i])
  BY <1>3, <1>4
<1>6. \A i \in DOMAIN tc : i # 1 => Waits(tc[i])
  BY <1>2
<1>7. ASSUME NEW i \in DOMAIN tc, NEW j \in DOMAIN tc, i # j PROVE Differ(tc[i], tc[j])
  <2>1. Differ(tb[i], tb[j])
    BY <1>2, <1>7
  <2>2. tc[i].dev = tb[i].dev /\ tc[i].at = tb[i].at
    OBVIOUS
  <2>3. tc[j].dev = tb[j].dev /\ tc[j].at = tb[j].at
    OBVIOUS
  <2> QED
    BY <2>1, <2>2, <2>3 DEF Differ
<1> QED
  BY <1>5, <1>6, <1>7 DEF ProbesOK

\* sd is sc with number g configured.
Confs(sc, sd, g) ==
  /\ g \in DOMAIN sc /\ ~sc[g].conf /\ DOMAIN sd = DOMAIN sc /\ sd[g].conf
  /\ \A i \in DOMAIN sc : i # g => sd[i] = sc[i]
  /\ sd[g].kind = sc[g].kind /\ sd[g].slot = sc[g].slot /\ sd[g].unit = sc[g].unit /\ sd[g].parent = sc[g].parent

LEMMA ConfsFields ==
  ASSUME NEW sc, NEW sd, NEW g, Confs(sc, sd, g)
  PROVE  /\ DOMAIN sd = DOMAIN sc
         /\ \A i \in DOMAIN sc : /\ sd[i].kind = sc[i].kind /\ sd[i].slot = sc[i].slot
                                 /\ sd[i].unit = sc[i].unit /\ sd[i].parent = sc[i].parent
                                 /\ sc[i].conf => sd[i].conf
  BY DEF Confs

LEMMA ConfsParent ==
  ASSUME NEW sc, NEW sd, NEW g, Confs(sc, sd, g), NEW p, NEW dev, IsParent(sc, p, dev)
  PROVE  IsParent(sd, p, dev) /\ p # g
<1>1. p # g
  BY DEF Confs, IsParent
<1> QED
  BY <1>1 DEF Confs, IsParent

LEMMA ConfsOthers ==
  ASSUME NEW sc, NEW sd, NEW g, Confs(sc, sd, g), NEW mach, NEW inuse, NEW data
  PROVE  /\ CardsOK(sc, mach, inuse, data) => CardsOK(sd, mach, inuse, data)
         /\ ParentsOK(sc) => ParentsOK(sd)
<1>1. /\ DOMAIN sd = DOMAIN sc
      /\ \A i \in DOMAIN sc : /\ sd[i].kind = sc[i].kind /\ sd[i].slot = sc[i].slot
                              /\ sd[i].unit = sc[i].unit /\ sd[i].parent = sc[i].parent
  BY ConfsFields
<1>2. CardsOK(sc, mach, inuse, data) => CardsOK(sd, mach, inuse, data)
  <2> SUFFICES ASSUME CardsOK(sc, mach, inuse, data) PROVE CardsOK(sd, mach, inuse, data)
    OBVIOUS
  <2>1. ASSUME NEW i \in DOMAIN sd, sd[i].kind \notin Generic
        PROVE  /\ sd[i].slot \in BusSlot /\ sd[i].slot \in inuse /\ mach[sd[i].slot] = sd[i].kind
               /\ sd[i].kind \notin {"ltrace", "lrandom"} => data[sd[i].slot] = i
    BY <1>1, <2>1 DEF CardsOK
  <2>2. ASSUME NEW i \in DOMAIN sd, NEW j \in DOMAIN sd, sd[i].kind \notin Generic, sd[j].kind \notin Generic,
               sd[i].slot = sd[j].slot
        PROVE  i = j
    BY <1>1, <2>2 DEF CardsOK
  <2> QED
    BY <2>1, <2>2 DEF CardsOK
<1>3. ParentsOK(sc) => ParentsOK(sd)
  <2> SUFFICES ASSUME ParentsOK(sc) PROVE ParentsOK(sd)
    OBVIOUS
  <2>1. ASSUME NEW i \in DOMAIN sd, sd[i].kind \in Generic PROVE IsParent(sd, sd[i].parent, sd[i].kind)
    <3>1. IsParent(sc, sd[i].parent, sd[i].kind)
      BY <1>1, <2>1 DEF ParentsOK
    <3> QED
      BY <3>1, ConfsParent
  <2>2. ASSUME NEW i \in DOMAIN sd, NEW j \in DOMAIN sd, sd[i].kind = "con", sd[j].kind = "con", sd[i].parent = sd[j].parent
        PROVE  i = j
    BY <1>1, <2>2 DEF ParentsOK
  <2> QED
    BY <2>1, <2>2 DEF ParentsOK
<1> QED
  BY <1>2, <1>3

\* Units, of a card or a generic device.
LEMMA ConfsCard ==
  ASSUME NEW sc, NEW sd, NEW g, Confs(sc, sd, g), NEW next \in [DeviceKind -> Nat], NEW th, NEW af,
         UnitsOK(sc, next, th), TheOK(sc, th, next, af),
         NEW k \in CardKind, sc[g].kind = k, NEW u \in Nat, sc[g].unit = u, u >= next[k],
         NEW next2, next2 = [next EXCEPT ![k] = u + 1],
         \A i \in DOMAIN sc : sc[i].unit \in Nat /\ sc[i].kind \in DeviceKind
  PROVE  UnitsOK(sd, next2, th) /\ TheOK(sd, th, next2, af)
<1>1. /\ DOMAIN sd = DOMAIN sc
      /\ \A i \in DOMAIN sc : /\ sd[i].kind = sc[i].kind /\ sd[i].slot = sc[i].slot
                              /\ sd[i].unit = sc[i].unit /\ sd[i].parent = sc[i].parent
                              /\ sc[i].conf => sd[i].conf
  BY ConfsFields
<1>2. \A i \in DOMAIN sc : sd[i].conf => sc[i].conf \/ i = g
  BY DEF Confs
<1>3. next2[k] = u + 1 /\ \A l \in DeviceKind : l # k => next2[l] = next[l]
  BY KindFacts
<1>4. \A l \in Generic : next2[l] = next[l]
  BY <1>3, KindFacts
<1>5. \A i \in DOMAIN sc : sc[i].conf /\ sc[i].kind = k => sc[i].unit < u
  <2> SUFFICES ASSUME NEW i \in DOMAIN sc, sc[i].conf, sc[i].kind = k PROVE sc[i].unit < u
    OBVIOUS
  <2>1. sc[i].unit < next[k]
    BY KindFacts DEF UnitsOK
  <2>2. sc[i].unit \in Nat /\ next[k] \in Nat
    BY KindFacts
  <2> QED
    BY <2>1, <2>2
<1>6. ASSUME NEW i \in DOMAIN sd, NEW j \in DOMAIN sd, sd[i].conf, sd[j].conf, sd[i].kind \notin Generic,
             sd[i].kind = sd[j].kind, sd[i].unit = sd[j].unit
      PROVE  i = j
  <2>1. i \in DOMAIN sc /\ j \in DOMAIN sc /\ (sc[i].conf \/ i = g) /\ (sc[j].conf \/ j = g)
    BY <1>1, <1>2, <1>6
  <2>2. sc[i].kind \notin Generic /\ sc[i].kind = sc[j].kind /\ sc[i].unit = sc[j].unit
    BY <1>1, <1>6
  <2>3. CASE sc[i].conf /\ sc[j].conf
    BY <2>1, <2>2, <2>3 DEF UnitsOK
  <2>4. CASE sc[i].conf /\ j = g
    <3>1. sc[i].unit < u /\ sc[i].unit = u
      BY <1>5, <2>1, <2>2, <2>4
    <3> QED
      BY <3>1
  <2>5. CASE i = g /\ sc[j].conf
    <3>1. sc[j].unit < u /\ sc[j].unit = u
      BY <1>5, <2>1, <2>2, <2>5
    <3> QED
      BY <3>1
  <2> QED
    BY <2>1, <2>3, <2>4, <2>5
<1>7. ASSUME NEW i \in DOMAIN sd, sd[i].conf, sd[i].kind \notin Generic PROVE sd[i].unit < next2[sd[i].kind]
  <2>1. i \in DOMAIN sc /\ (sc[i].conf \/ i = g) /\ sd[i].kind = sc[i].kind /\ sd[i].unit = sc[i].unit
    BY <1>1, <1>2, <1>7
  <2>2. CASE sc[i].kind = k
    <3>1. sc[i].unit < u + 1
      <4>1. sc[i].unit \in Nat
        BY <2>1
      <4>2. CASE i = g
        BY <4>2
      <4>3. CASE sc[i].conf
        BY <1>5, <2>1, <2>2, <4>1, <4>3
      <4> QED
        BY <2>1, <4>2, <4>3
    <3> QED
      BY <1>3, <2>1, <2>2, <3>1
  <2>3. CASE sc[i].kind # k
    <3>1. sc[i].conf /\ sc[i].kind \in DeviceKind /\ sc[i].kind \notin Generic
      BY <1>7, <2>1, <2>3
    <3>2. sc[i].unit < next[sc[i].kind]
      BY <2>1, <3>1 DEF UnitsOK
    <3> QED
      BY <1>3, <2>1, <2>3, <3>1, <3>2
  <2> QED
    BY <2>2, <2>3
<1>8. ASSUME NEW i \in DOMAIN sd, sd[i].conf, sd[i].kind \in Generic PROVE th[sd[i].kind] = i
  <2>1. i \in DOMAIN sc /\ (sc[i].conf \/ i = g) /\ sd[i].kind = sc[i].kind
    BY <1>1, <1>2, <1>8
  <2>2. i # g
    BY <1>8, <2>1, KindFacts
  <2> QED
    BY <1>8, <2>1, <2>2 DEF UnitsOK
<1>9. TheOK(sd, th, next2, af)
  <2>1. ASSUME NEW l \in Generic, th[l] # 0 PROVE th[l] \in DOMAIN sd /\ sd[th[l]].kind = l /\ sd[th[l]].conf
    BY <1>1, <2>1 DEF TheOK
  <2>2. ASSUME NEW l \in Generic, th[l] # 0, next2[l] = 0 PROVE l \in af
    BY <1>4, <2>2 DEF TheOK
  <2> QED
    BY <2>1, <2>2 DEF TheOK
<1> QED
  BY <1>6, <1>7, <1>8, <1>9 DEF UnitsOK

\* Units of other kinds than k are as before.
SameBut(next, next2, k) == \A l \in DeviceKind : l # k => next2[l] = next[l]

SetTo(th, th2, k, g) == th2[k] = g /\ \A l \in Generic : l # k => th2[l] = th[l]
Failed(next2, k, af2) == next2[k] = 0 => k \in af2
Numbered(sc) == \A i \in DOMAIN sc : sc[i].kind \in DeviceKind /\ i # 0

LEMMA ConfsGeneric ==
  ASSUME NEW sc, NEW sd, NEW g \in Nat \ {0}, Confs(sc, sd, g), NEW next \in [DeviceKind -> Nat], NEW th \in [Generic -> Nat],
         NEW af, UnitsOK(sc, next, th), TheOK(sc, th, next, af),
         NEW k \in Generic, sc[g].kind = k, th[k] = 0,
         NEW next2, SameBut(next, next2, k),
         NEW th2, SetTo(th, th2, k, g),
         NEW af2, af \subseteq af2, Failed(next2, k, af2), Numbered(sc)
  PROVE  UnitsOK(sd, next2, th2) /\ TheOK(sd, th2, next2, af2)
<1>0. \A l \in DeviceKind : l # k => next2[l] = next[l]
  BY DEF SameBut
<1>1. /\ DOMAIN sd = DOMAIN sc
      /\ \A i \in DOMAIN sc : /\ sd[i].kind = sc[i].kind /\ sd[i].slot = sc[i].slot
                              /\ sd[i].unit = sc[i].unit /\ sd[i].parent = sc[i].parent
                              /\ sc[i].conf => sd[i].conf
  BY ConfsFields
<1>2. g \in DOMAIN sc /\ sd[g].conf /\ \A i \in DOMAIN sc : sd[i].conf => sc[i].conf \/ i = g
  BY DEF Confs
<1>3. th2[k] = g /\ \A l \in Generic : l # k => th2[l] = th[l]
  BY DEF SetTo
<1>n. \A i \in DOMAIN sc : sc[i].kind \in DeviceKind /\ i # 0
  BY DEF Numbered
<1>f. next2[k] = 0 => k \in af2
  BY DEF Failed
<1>4. \A i \in DOMAIN sd : sd[i].kind \notin Generic /\ sd[i].conf =>
        i \in DOMAIN sc /\ sc[i].conf /\ next2[sd[i].kind] = next[sc[i].kind] /\ sc[i].kind = sd[i].kind
  BY <1>0, <1>1, <1>2, <1>n
<1>5. ASSUME NEW i \in DOMAIN sd, NEW j \in DOMAIN sd, sd[i].conf, sd[j].conf, sd[i].kind \notin Generic,
             sd[i].kind = sd[j].kind, sd[i].unit = sd[j].unit
      PROVE  i = j
  <2>1. i \in DOMAIN sc /\ sc[i].conf /\ j \in DOMAIN sc /\ sc[j].conf
    BY <1>4, <1>5
  <2> QED
    BY <1>1, <1>5, <2>1 DEF UnitsOK
<1>6. ASSUME NEW i \in DOMAIN sd, sd[i].conf, sd[i].kind \notin Generic PROVE sd[i].unit < next2[sd[i].kind]
  BY <1>1, <1>4, <1>6 DEF UnitsOK
<1>7. ASSUME NEW i \in DOMAIN sd, sd[i].conf, sd[i].kind \in Generic PROVE th2[sd[i].kind] = i
  <2>1. i \in DOMAIN sc /\ (sc[i].conf \/ i = g) /\ sd[i].kind = sc[i].kind /\ i # 0
    BY <1>1, <1>2, <1>7, <1>n
  <2>2. CASE i = g
    BY <1>3, <2>1, <2>2
  <2>3. CASE sc[i].conf
    <3>1. th[sc[i].kind] = i
      BY <1>7, <2>1, <2>3 DEF UnitsOK
    <3>2. sc[i].kind # k
      BY <2>1, <3>1
    <3> QED
      BY <1>3, <1>7, <2>1, <3>1, <3>2
  <2> QED
    BY <2>1, <2>2, <2>3
<1>8. ASSUME NEW l \in Generic, th2[l] # 0 PROVE th2[l] \in DOMAIN sd /\ sd[th2[l]].kind = l /\ sd[th2[l]].conf
  <2>1. CASE l = k
    BY <1>1, <1>2, <1>3, <2>1
  <2>2. CASE l # k
    <3>1. th2[l] = th[l] /\ th[l] # 0
      BY <1>3, <1>8, <2>2
    <3> QED
      BY <1>1, <3>1 DEF TheOK
  <2> QED
    BY <2>1, <2>2
<1>9. ASSUME NEW l \in Generic, th2[l] # 0, next2[l] = 0 PROVE l \in af2
  <2>1. CASE l # k
    <3>1. th2[l] = th[l] /\ next2[l] = next[l]
      BY <1>0, <1>3, <2>1, KindFacts
    <3> QED
      BY <1>9, <3>1 DEF TheOK
  <2> QED
    BY <1>9, <1>f, <2>1
<1> QED
  BY <1>5, <1>6, <1>7, <1>8, <1>9 DEF UnitsOK, TheOK

LEMMA ConfsEnabled ==
  ASSUME NEW sc, NEW sd, NEW g, Confs(sc, sd, g), NEW en, NEW mach, EnabledOK(sc, en, mach),
         NEW en2, \/ en2 = en
                  \/ /\ sc[g].kind \notin Generic /\ en2 = en \cup {sc[g].slot}
                     /\ mach[sc[g].slot] = "ltimer" => \A s \in en : mach[s] # "ltimer"
  PROVE  EnabledOK(sd, en2, mach)
<1>1. /\ DOMAIN sd = DOMAIN sc
      /\ \A i \in DOMAIN sc : sd[i].kind = sc[i].kind /\ sd[i].slot = sc[i].slot /\ (sc[i].conf => sd[i].conf)
  BY ConfsFields
<1>2. g \in DOMAIN sc /\ sd[g].conf
  BY DEF Confs
<1>3. ASSUME NEW s \in en PROVE \E i \in DOMAIN sd : sd[i].conf /\ sd[i].kind \notin Generic /\ sd[i].slot = s
  <2>1. PICK i \in DOMAIN sc : sc[i].conf /\ sc[i].kind \notin Generic /\ sc[i].slot = s
    BY DEF EnabledOK
  <2> QED
    BY <1>1, <2>1
<1>4. \A s \in en2 : \E i \in DOMAIN sd : sd[i].conf /\ sd[i].kind \notin Generic /\ sd[i].slot = s
  BY <1>1, <1>2, <1>3
<1>5. \A r, s \in en2 : mach[r] = "ltimer" /\ mach[s] = "ltimer" => r = s
  BY DEF EnabledOK
<1> QED
  BY <1>4, <1>5 DEF EnabledOK

\* A list of probes none of which has its soft context yet.
Ready(sc, next, A) ==
  /\ \A i \in DOMAIN A : ProbeOK(sc, next, A[i]) /\ Waits(A[i])
  /\ \A i, j \in DOMAIN A : i # j => Differ(A[i], A[j])
ListsApart(A, B) == \A i \in DOMAIN A : \A j \in DOMAIN B : Differ(A[i], B[j]) /\ Differ(B[j], A[i])

LEMMA ReadyProbes ==
  ASSUME NEW sc, NEW next, NEW A, Ready(sc, next, A)
  PROVE  ProbesOK(sc, A, next)
  BY DEF Ready, ProbesOK

LEMMA CatElements ==
  ASSUME NEW A \in Seq(ProbeRec), NEW B \in Seq(ProbeRec)
  PROVE  /\ A \o B \in Seq(ProbeRec)
         /\ \A i \in DOMAIN (A \o B) : \/ i \in DOMAIN A /\ (A \o B)[i] = A[i]
                                       \/ i - Len(A) \in DOMAIN B /\ (A \o B)[i] = B[i - Len(A)] /\ i \notin DOMAIN A
  BY LenProperties, ConcatProperties

LEMMA ReadyCat ==
  ASSUME NEW sc, NEW next, NEW A \in Seq(ProbeRec), NEW B \in Seq(ProbeRec),
         Ready(sc, next, A), Ready(sc, next, B), ListsApart(A, B)
  PROVE  Ready(sc, next, A \o B) /\ A \o B \in Seq(ProbeRec)
<1> DEFINE C == A \o B
           m == Len(A)
<1>1. /\ C \in Seq(ProbeRec)
      /\ \A i \in DOMAIN C : \/ i \in DOMAIN A /\ C[i] = A[i]
                             \/ i - m \in DOMAIN B /\ C[i] = B[i - m] /\ i \notin DOMAIN A
  BY CatElements
<1>2. DOMAIN C \subseteq Nat /\ m \in Nat
  <2>1. Len(C) \in Nat /\ DOMAIN C = 1 .. Len(C)
    BY <1>1, LenProperties
  <2> QED
    BY <2>1, LenProperties
<1> HIDE DEF C, m
<1>3. ASSUME NEW i \in DOMAIN C PROVE ProbeOK(sc, next, C[i]) /\ Waits(C[i])
  <2>1. CASE i \in DOMAIN A /\ C[i] = A[i]
    BY <2>1 DEF Ready
  <2>2. CASE i - m \in DOMAIN B /\ C[i] = B[i - m]
    BY <2>2 DEF Ready
  <2> QED
    BY <1>1, <2>1, <2>2
<1>4. ASSUME NEW i \in DOMAIN C, NEW j \in DOMAIN C, i # j PROVE Differ(C[i], C[j])
  <2>1. CASE i \in DOMAIN A /\ C[i] = A[i]
    <3>1. CASE j \in DOMAIN A /\ C[j] = A[j]
      BY <1>4, <2>1, <3>1 DEF Ready
    <3>2. CASE j - m \in DOMAIN B /\ C[j] = B[j - m]
      BY <2>1, <3>2 DEF ListsApart
    <3> QED
      BY <1>1, <3>1, <3>2
  <2>2. CASE i - m \in DOMAIN B /\ C[i] = B[i - m]
    <3>1. CASE j \in DOMAIN A /\ C[j] = A[j]
      BY <2>2, <3>1 DEF ListsApart
    <3>2. CASE j - m \in DOMAIN B /\ C[j] = B[j - m]
      <4>1. i - m # j - m
        BY <1>2, <1>4
      <4> QED
        BY <2>2, <3>2, <4>1 DEF Ready
    <3> QED
      BY <1>1, <3>1, <3>2
  <2> QED
    BY <1>1, <2>1, <2>2
<1> QED
  BY <1>1, <1>3, <1>4 DEF Ready, C

LEMMA ReadyOne ==
  ASSUME NEW sc, NEW next, NEW x \in ProbeRec, ProbeOK(sc, next, x), Waits(x)
  PROVE  Ready(sc, next, <<x>>) /\ <<x>> \in Seq(ProbeRec)
<1>1. DOMAIN <<x>> = {1} /\ <<x>>[1] = x /\ <<x>> \in Seq(ProbeRec)
  OBVIOUS
<1> QED
  BY <1>1 DEF Ready

LEMMA TailElements ==
  ASSUME NEW tb \in Seq(ProbeRec), tb # <<>>
  PROVE  /\ Tail(tb) \in Seq(ProbeRec) /\ 1 \in DOMAIN tb /\ tb[1] \in ProbeRec
         /\ \A i \in DOMAIN Tail(tb) : i + 1 \in DOMAIN tb /\ i + 1 # 1 /\ Tail(tb)[i] = tb[i + 1]
         /\ \A i, j \in DOMAIN Tail(tb) : i # j => i + 1 # j + 1
<1>1. /\ Tail(tb) \in Seq(ProbeRec) /\ Len(Tail(tb)) = Len(tb) - 1
      /\ \A i \in 1 .. Len(Tail(tb)) : Tail(tb)[i] = tb[i + 1]
  BY HeadTailProperties
<1>2. /\ Len(tb) \in Nat /\ DOMAIN tb = 1 .. Len(tb) /\ Len(tb) # 0
      /\ Len(Tail(tb)) \in Nat /\ DOMAIN Tail(tb) = 1 .. Len(Tail(tb))
  BY <1>1, LenProperties, EmptySeq
<1>3. 1 \in DOMAIN tb /\ tb[1] \in ProbeRec
  BY <1>2, ElementOfSeq
<1> DEFINE n == Len(tb)
           T == Tail(tb)
<1>4. /\ T \in Seq(ProbeRec) /\ n \in Nat /\ DOMAIN tb = 1 .. n /\ DOMAIN T = 1 .. n - 1
      /\ \A i \in 1 .. n - 1 : T[i] = tb[i + 1]
  BY <1>1, <1>2
<1> HIDE DEF n, T
<1>5. \A i \in DOMAIN T : i + 1 \in DOMAIN tb /\ i + 1 # 1 /\ T[i] = tb[i + 1]
  BY <1>4
<1>6. \A i, j \in DOMAIN T : i # j => i + 1 # j + 1
  BY <1>4
<1> QED
  BY <1>3, <1>4, <1>5, <1>6 DEF T

LEMMA TailReady ==
  ASSUME NEW sc, NEW next, NEW tb \in Seq(ProbeRec), tb # <<>>, ProbesOK(sc, tb, next)
  PROVE  /\ Ready(sc, next, Tail(tb))
         /\ \A i \in DOMAIN Tail(tb) : Differ(tb[1], Tail(tb)[i]) /\ Differ(Tail(tb)[i], tb[1])
<1> DEFINE T == Tail(tb)
<1>1. /\ 1 \in DOMAIN tb
      /\ \A i \in DOMAIN T : i + 1 \in DOMAIN tb /\ i + 1 # 1 /\ T[i] = tb[i + 1]
      /\ \A i, j \in DOMAIN T : i # j => i + 1 # j + 1
  BY TailElements
<1> HIDE DEF T
<1>2. \A i \in DOMAIN T : ProbeOK(sc, next, T[i]) /\ Waits(T[i])
  BY <1>1 DEF ProbesOK
<1>3. \A i, j \in DOMAIN T : i # j => Differ(T[i], T[j])
  BY <1>1 DEF ProbesOK
<1>4. \A i \in DOMAIN T : Differ(tb[1], T[i]) /\ Differ(T[i], tb[1])
  BY <1>1 DEF ProbesOK
<1> QED
  BY <1>2, <1>3, <1>4 DEF Ready, T

\* A waiting probe stays as it should be when number g, of kind k, has been configured.
LEMMA ConfsProbe ==
  ASSUME NEW sc, NEW sd, NEW g, Confs(sc, sd, g), NEW next, NEW next2, NEW k, NEW f \in ProbeRec,
         SameBut(next, next2, k),
         ProbeOK(sc, next, f), Waits(f), NEW e, e.dev = k, Differ(e, f)
  PROVE  ProbeOK(sd, next2, f)
<1>1. DOMAIN sd = DOMAIN sc /\ \A i \in DOMAIN sc : sd[i].kind = sc[i].kind /\ sd[i].parent = sc[i].parent
  BY ConfsFields
<1>2. f.dev \in Generic => IsParent(sd, f.at, f.dev)
  <2>1. f.dev \in Generic => IsParent(sc, f.at, f.dev)
    BY DEF ProbeOK
  <2> QED
    BY <2>1, ConfsParent
<1>3. f.got = 0
  BY DEF Waits
<1>4. f.dev = "con" => \A j \in DOMAIN sd : sd[j].kind = "con" => sd[j].parent # f.at
  BY <1>1, <1>3 DEF ProbeOK
<1>5. ASSUME ~f.first PROVE f.unit >= next2[f.dev]
  <2>1. f.dev # k /\ f.dev \in DeviceKind
    BY <1>5 DEF ProbeRec, Waits, Differ
  <2>2. f.unit >= next[f.dev]
    BY <1>5 DEF ProbeOK
  <2> QED
    BY <2>1, <2>2 DEF SameBut
<1> QED
  BY <1>2, <1>3, <1>4, <1>5 DEF ProbeOK

LEMMA ConfsTail ==
  ASSUME NEW sc, NEW sd, NEW g, Confs(sc, sd, g), NEW next, NEW next2, NEW k,
         NEW tb \in Seq(ProbeRec), tb # <<>>, ProbesOK(sc, tb, next), tb[1].dev = k,
         SameBut(next, next2, k)
  PROVE  Ready(sd, next2, Tail(tb))
<1> DEFINE T == Tail(tb)
<1>1. Ready(sc, next, T) /\ \A i \in DOMAIN T : Differ(tb[1], T[i])
  BY TailReady
<1>2. T \in Seq(ProbeRec)
  BY TailElements
<1> HIDE DEF T
<1>3. \A i \in DOMAIN T : T[i] \in ProbeRec
  BY <1>2, ElementOfSeq, LenProperties
<1>4. ASSUME NEW i \in DOMAIN T PROVE ProbeOK(sd, next2, T[i]) /\ Waits(T[i])
  <2>1. ProbeOK(sc, next, T[i]) /\ Waits(T[i]) /\ Differ(tb[1], T[i]) /\ T[i] \in ProbeRec
    BY <1>1, <1>3 DEF Ready
  <2> QED
    BY <2>1, ConfsProbe
<1> QED
  BY <1>1, <1>4 DEF Ready, T

\* What autoconf lists at a card that has just been configured.
LEMMA NewReady ==
  ASSUME NEW sc, NEW sd, NEW g \in Nat, Confs(sc, sd, g), NEW next2, NEW k \in CardKind, sc[g].kind = k,
         ParentsOK(sc)
  PROVE  Ready(sd, next2, autoconf(k, g)) /\ autoconf(k, g) \in Seq(ProbeRec)
<1> DEFINE A == autoconf(k, g)
<1>1. /\ A \in Seq(ProbeRec)
      /\ \A i \in DOMAIN A : NewProbe(A[i], k, g)
      /\ \A i, j \in DOMAIN A : i # j => A[i].dev # A[j].dev
  BY AutoconfCard
<1>2. DOMAIN sd = DOMAIN sc /\ \A i \in DOMAIN sc : sd[i].kind = sc[i].kind /\ sd[i].parent = sc[i].parent
  BY ConfsFields
<1> HIDE DEF A
<1>3. ASSUME NEW i \in DOMAIN A PROVE ProbeOK(sd, next2, A[i]) /\ Waits(A[i])
  <2> DEFINE e == A[i]
  <2>1. NewProbe(e, k, g)
    BY <1>1
  <2> HIDE DEF e
  <2>2. e.dev \in Generic /\ ParentOf(e.dev) = k /\ e.at = g /\ e.first /\ e.got = 0
    BY <2>1 DEF NewProbe
  <2>3. IsParent(sd, e.at, e.dev)
    BY <2>2 DEF IsParent, Confs
  <2>4. ASSUME e.dev = "con", NEW j \in DOMAIN sd, sd[j].kind = "con" PROVE sd[j].parent # e.at
    <3>1. IsParent(sc, sc[j].parent, sc[j].kind)
      BY <1>2, <2>4, KindFacts DEF ParentsOK
    <3>2. sc[j].parent # g
      BY <3>1, ConfsParent
    <3> QED
      BY <1>2, <2>2, <3>2
  <2> QED
    BY <2>2, <2>3, <2>4 DEF ProbeOK, Waits, e
<1>4. \A i, j \in DOMAIN A : i # j => Differ(A[i], A[j])
  BY <1>1 DEF Differ
<1> QED
  BY <1>1, <1>3, <1>4 DEF Ready, A

\* A card is up: what is at it, then the card's next unit, then the rest.
LEMMA ConfsList ==
  ASSUME NEW sc, NEW sd, NEW g \in Nat, Confs(sc, sd, g), NEW next, NEW next2, NEW k \in CardKind, sc[g].kind = k,
         NEW tb \in Seq(ProbeRec), tb # <<>>, ProbesOK(sc, tb, next), tb[1].dev = k, ParentsOK(sc),
         SameBut(next, next2, k),
         NEW x \in ProbeRec, x.dev = k, x.got = 0, ~x.first, x.unit >= next2[k]
  PROVE  LET tc == autoconf(k, g) \o (<<x>> \o Tail(tb))
         IN  ProbesOK(sd, tc, next2) /\ tc \in Seq(ProbeRec)
<1> DEFINE A == autoconf(k, g)
           T == Tail(tb)
           X == <<x>>
           B == X \o T
<1>0. k \notin Generic /\ k # "con"
  BY KindFacts
<1>1. Ready(sd, next2, A) /\ A \in Seq(ProbeRec) /\ \A i \in DOMAIN A : NewProbe(A[i], k, g)
  BY NewReady, AutoconfCard
<1>2. Ready(sd, next2, T)
  BY ConfsTail
<1>3. /\ T \in Seq(ProbeRec)
      /\ Ready(sc, next, T) /\ \A i \in DOMAIN T : Differ(tb[1], T[i])
  BY TailElements, TailReady
<1>4. Ready(sd, next2, X) /\ X \in Seq(ProbeRec)
  <2>1. ProbeOK(sd, next2, x) /\ Waits(x)
    BY <1>0 DEF ProbeOK, Waits
  <2> QED
    BY <2>1, ReadyOne
<1>x. DOMAIN X = {1} /\ X[1] = x
  OBVIOUS
<1> HIDE DEF A, T, X
<1>5. \A i \in DOMAIN T : T[i].dev # k
  BY <1>0, <1>3 DEF Differ
<1>6. ListsApart(X, T)
  BY <1>0, <1>5, <1>x DEF ListsApart, Differ
<1>7. Ready(sd, next2, B) /\ B \in Seq(ProbeRec)
  BY <1>2, <1>3, <1>4, <1>6, ReadyCat
<1>8. \A j \in DOMAIN B : B[j] = x \/ \E i \in DOMAIN T : B[j] = T[i]
  BY <1>3, <1>4, <1>x, CatElements
<1> HIDE DEF B
<1>9. ListsApart(A, B)
  <2> SUFFICES ASSUME NEW i \in DOMAIN A, NEW j \in DOMAIN B
               PROVE  Differ(A[i], B[j]) /\ Differ(B[j], A[i])
    BY DEF ListsApart
  <2>1. A[i].dev \in Generic /\ A[i].at = g
    BY <1>1 DEF NewProbe
  <2>2. ASSUME B[j].dev = "con" PROVE B[j].at # g
    <3>1. PICK h \in DOMAIN T : B[j] = T[h]
      BY <1>0, <1>8, <2>2
    <3>2. ProbeOK(sc, next, T[h])
      BY <1>3 DEF Ready
    <3>3. IsParent(sc, T[h].at, T[h].dev)
      BY <2>2, <3>1, <3>2, KindFacts DEF ProbeOK
    <3> QED
      BY <3>1, <3>3, ConfsParent
  <2> DEFINE a == A[i]
             b == B[j]
  <2>3. a.dev \in Generic /\ a.at = g /\ (b.dev = "con" => b.at # g)
    BY <2>1, <2>2
  <2> HIDE DEF a, b
  <2>4. Differ(a, b) /\ Differ(b, a)
    BY <2>3 DEF Differ
  <2> QED
    BY <2>4 DEF a, b
<1>10. Ready(sd, next2, A \o B) /\ A \o B \in Seq(ProbeRec)
  BY <1>1, <1>7, <1>9, ReadyCat
<1> QED
  BY <1>10, ReadyProbes DEF A, B, X, T

-----------------------------------------------------------------------------
(* The numbers of cpus *)

Below(S, h) == {o \in S : o < h}
Increasing(S, s) ==
  s \in [1 .. Cardinality(S) -> S] /\ \A i, j \in DOMAIN s : i < j => s[i] < s[j]

\* h has as many smaller ones as its place says.
LEMMA Ranks ==
  ASSUME NEW S \in SUBSET Nat, IsFiniteSet(S), NEW h \in S
  PROVE  1 + Cardinality(Below(S, h)) \in 1 .. Cardinality(S)
<1>1. Below(S, h) \in SUBSET (S \ {h})
  BY DEF Below
<1>2. IsFiniteSet(S \ {h}) /\ Cardinality(S \ {h}) = Cardinality(S) - 1 /\ Cardinality(S) \in Nat
  BY FS_RemoveElement, FS_CardinalityType
<1>3. IsFiniteSet(Below(S, h)) /\ Cardinality(Below(S, h)) <= Cardinality(S \ {h})
  BY <1>1, <1>2, FS_Subset
<1>4. Cardinality(Below(S, h)) \in Nat
  BY <1>3, FS_CardinalityType
<1> QED
  BY <1>2, <1>3, <1>4

LEMMA RanksGrow ==
  ASSUME NEW S \in SUBSET Nat, IsFiniteSet(S), NEW g \in S, NEW h \in S, g < h
  PROVE  Cardinality(Below(S, g)) < Cardinality(Below(S, h))
<1>1. g \in Nat /\ h \in Nat /\ S \subseteq Nat
  OBVIOUS
<1>2. Below(S, h) \in SUBSET S
  BY DEF Below
<1>3. IsFiniteSet(Below(S, h))
  BY <1>2, FS_Subset
<1>4. Below(S, g) \in SUBSET (Below(S, h))
  <2>1. ASSUME NEW o \in S, o < g PROVE o < h
    <3>1. o \in Nat
      BY <1>1
    <3> QED
      BY <1>1, <2>1, <3>1
  <2> QED
    BY <2>1 DEF Below
<1>5. g \in Below(S, h) /\ g \notin Below(S, g)
  BY <1>1 DEF Below
<1>6. /\ IsFiniteSet(Below(S, g)) /\ Cardinality(Below(S, g)) <= Cardinality(Below(S, h))
      /\ Cardinality(Below(S, h)) # Cardinality(Below(S, g))
  BY <1>3, <1>4, <1>5, FS_Subset
<1>7. Cardinality(Below(S, g)) \in Nat /\ Cardinality(Below(S, h)) \in Nat
  BY <1>3, <1>6, FS_CardinalityType
<1> QED
  BY <1>6, <1>7

LEMMA SomeIncreasing ==
  ASSUME NEW S \in SUBSET Nat, IsFiniteSet(S)
  PROVE  \E s : Increasing(S, s)
<1> DEFINE n == Cardinality(S)
           I == 1 .. n
           r == [h \in S |-> 1 + Cardinality(Below(S, h))]
<1>1. n \in Nat /\ S \subseteq Nat
  BY FS_CardinalityType
<1>2. IsFiniteSet(I) /\ Cardinality(I) = n
  BY <1>1, FS_Interval
<1>3. \A h \in S : r[h] \in I
  BY Ranks
<1>4. \A g, h \in S : g < h => r[g] < r[h]
  <2> SUFFICES ASSUME NEW g \in S, NEW h \in S, g < h PROVE r[g] < r[h]
    OBVIOUS
  <2>1. Cardinality(Below(S, g)) < Cardinality(Below(S, h))
    BY RanksGrow
  <2>2. r[g] = 1 + Cardinality(Below(S, g)) /\ r[h] = 1 + Cardinality(Below(S, h))
    OBVIOUS
  <2>3. r[g] \in I /\ r[h] \in I
    BY <1>3
  <2> DEFINE a == Cardinality(Below(S, g))
             b == Cardinality(Below(S, h))
  <2>4. IsFiniteSet(Below(S, g)) /\ IsFiniteSet(Below(S, h))
    BY FS_Subset DEF Below
  <2>5. a \in Nat /\ b \in Nat
    BY <2>4, FS_CardinalityType
  <2> HIDE DEF a, b, r
  <2>6. r[g] = 1 + a /\ r[h] = 1 + b /\ a < b
    BY <2>1, <2>2 DEF a, b
  <2> QED
    BY <2>5, <2>6
<1> HIDE DEF n, I, r
<1>5. \A g, h \in S : r[g] = r[h] => g = h
  <2> SUFFICES ASSUME NEW g \in S, NEW h \in S, g # h PROVE r[g] # r[h]
    OBVIOUS
  <2>1. g < h \/ h < g
    BY <1>1
  <2>2. r[g] < r[h] \/ r[h] < r[g]
    BY <1>4, <2>1
  <2>3. r[g] \in Nat /\ r[h] \in Nat
    BY <1>1, <1>3 DEF I
  <2> QED
    BY <2>2, <2>3
<1>6. r \in [S -> I]
  BY <1>3 DEF r
<1>7. r \in Surjection(S, I)
  <2>1. r \in Injection(S, I)
    BY <1>5, <1>6, Fun_IsInj
  <2>2. Cardinality(S) = Cardinality(I)
    BY <1>2 DEF n
  <2> QED
    BY <1>2, <2>1, <2>2, FS_Injection
<1>8. \A i \in I : \E h \in S : r[h] = i
  BY <1>7, Fun_SurjectionProperties
<1> DEFINE s == [i \in I |-> CHOOSE h \in S : r[h] = i]
<1>9. \A i \in I : s[i] \in S /\ r[s[i]] = i
  BY <1>8
<1>10. s \in [I -> S]
  BY <1>9
<1> HIDE DEF s
<1>11. ASSUME NEW i \in I, NEW j \in I, i < j PROVE s[i] < s[j]
  <2>1. s[i] \in Nat /\ s[j] \in Nat /\ s[i] \in S /\ s[j] \in S /\ r[s[i]] = i /\ r[s[j]] = j
    BY <1>1, <1>9
  <2>2. i \in Nat /\ j \in Nat
    BY <1>1 DEF I
  <2>3. s[j] < s[i] => j < i
    BY <1>4, <2>1
  <2>4. s[j] # s[i]
    BY <1>11, <2>1, <2>2
  <2> QED
    BY <1>11, <2>1, <2>2, <2>3, <2>4
<1>12. Increasing(S, s)
  BY <1>10, <1>11 DEF Increasing, n, I
<1> QED
  BY <1>12

\* lamebus_find_cpus and lamebus_start_cpus count alike.
LEMMA AscendingRanks ==
  ASSUME NEW S \in SUBSET Nat, IsFiniteSet(S), NEW h \in S
  PROVE  /\ Ascending(S) \in [1 .. Cardinality(S) -> S]
         /\ Ascending(S)[1 + Cardinality(Below(S, h))] = h
<1> DEFINE s == Ascending(S)
           n == Cardinality(S)
           I == 1 .. n
<1>1. n \in Nat /\ S \subseteq Nat
  BY FS_CardinalityType
<1>2. IsFiniteSet(I) /\ Cardinality(I) = n
  BY <1>1, FS_Interval
<1>3. s \in [I -> S] /\ \A i, j \in I : i < j => s[i] < s[j]
  <2>1. \E t \in [I -> S] : \A i, j \in DOMAIN t : i < j => t[i] < t[j]
    BY SomeIncreasing DEF Increasing
  <2>2. s = CHOOSE t \in [I -> S] : \A i, j \in DOMAIN t : i < j => t[i] < t[j]
    BY DEF Ascending
  <2> HIDE DEF s, I
  <2>3. s \in [I -> S] /\ \A i, j \in DOMAIN s : i < j => s[i] < s[j]
    BY <2>1, <2>2
  <2> QED
    BY <2>3
<1> HIDE DEF s, n, I
<1>4. \A i \in I : s[i] \in S /\ s[i] \in Nat /\ i \in Nat
  <2>1. \A i \in I : i \in Nat
    BY <1>1 DEF I
  <2>2. \A i \in I : s[i] \in S
    BY <1>3
  <2> QED
    BY <1>1, <2>1, <2>2
<1>5. \A i, j \in I : s[i] < s[j] => i < j
  <2> SUFFICES ASSUME NEW i \in I, NEW j \in I, s[i] < s[j] PROVE i < j
    OBVIOUS
  <2>1. i \in Nat /\ j \in Nat /\ s[i] \in Nat /\ s[j] \in Nat
    BY <1>4
  <2>2. j < i => s[j] < s[i]
    BY <1>3
  <2>3. i # j
    BY <2>1
  <2> QED
    BY <2>1, <2>2, <2>3
<1>6. \A i, j \in I : s[i] = s[j] => i = j
  <2> SUFFICES ASSUME NEW i \in I, NEW j \in I, i # j PROVE s[i] # s[j]
    OBVIOUS
  <2>1. i \in Nat /\ j \in Nat /\ s[i] \in Nat /\ s[j] \in Nat
    BY <1>4
  <2>2. (i < j => s[i] < s[j]) /\ (j < i => s[j] < s[i])
    BY <1>3
  <2> QED
    BY <2>1, <2>2
<1>7. s \in Surjection(I, S)
  <2>1. s \in Injection(I, S)
    BY <1>3, <1>6, Fun_IsInj
  <2>2. Cardinality(S) = Cardinality(I)
    BY <1>2 DEF n
  <2> QED
    BY <2>1, <2>2, FS_Injection
<1>8. \A x \in S : \E i \in I : s[i] = x
  BY <1>7, Fun_SurjectionProperties
<1>9. PICK i \in I : s[i] = h
  BY <1>8
<1> DEFINE J == 1 .. i - 1
           B == Below(S, h)
           t == [j \in J |-> s[j]]
<1>10. i \in Nat /\ J \subseteq I /\ \A j \in I : j \in J <=> j < i
  BY <1>1, <1>9 DEF I
<1>11. IsFiniteSet(J) /\ Cardinality(J) = i - 1
  <2> DEFINE m == i - 1
  <2>1. m \in Nat /\ 1 \in Int
    BY <1>1, <1>9 DEF I
  <2> HIDE DEF m
  <2>2. IsFiniteSet(1 .. m) /\ Cardinality(1 .. m) = IF 1 > m THEN 0 ELSE m - 1 + 1
    BY <2>1, FS_Interval
  <2>3. Cardinality(1 .. m) = m
    BY <2>1, <2>2
  <2> QED
    BY <2>2, <2>3 DEF m
<1> HIDE DEF J
<1>12. t \in [J -> B]
  <2>1. \A j \in J : s[j] \in S /\ s[j] < h
    BY <1>3, <1>4, <1>9, <1>10
  <2> QED
    BY <2>1 DEF Below
<1>13. \A a, b \in J : t[a] = t[b] => a = b
  BY <1>6, <1>10
<1>14. \A x \in B : \E j \in J : t[j] = x
  <2> SUFFICES ASSUME NEW x \in S, x < h PROVE \E j \in J : t[j] = x
    BY DEF Below
  <2>1. PICK j \in I : s[j] = x
    BY <1>8
  <2>2. j < i
    BY <1>5, <1>9, <2>1
  <2> QED
    BY <1>10, <2>1, <2>2
<1> HIDE DEF t, B
<1>15. Cardinality(B) = i - 1
  <2>1. t \in Bijection(J, B)
    BY <1>12, <1>13, <1>14, Fun_IsBij
  <2>2. ExistsBijection(J, B)
    BY <2>1, Fun_ExistsBij
  <2> QED
    BY <1>11, <2>2, FS_Bijection
<1>16. 1 + Cardinality(B) = i
  BY <1>10, <1>15
<1> QED
  BY <1>3, <1>9, <1>16 DEF s, n, I, B

-----------------------------------------------------------------------------
(* Steps of the boot *)

LEMMA SlotFacts == BusSlot \subseteq Nat /\ BusSlot \subseteq 0 .. LB_NSLOTS /\ NoSlot \in 0 .. LB_NSLOTS
                   /\ NoSlot \notin BusSlot /\ IsFiniteSet(BusSlot) /\ LB_CONTROLLER_SLOT \in BusSlot
<1>1. LB_NSLOTS \in Nat /\ LB_NSLOTS # 0
  BY LamebusAssumption
<1>2. IsFiniteSet(BusSlot)
  BY <1>1, FS_Interval DEF BusSlot
<1> QED
  BY <1>1, <1>2 DEF BusSlot, NoSlot, LB_CONTROLLER_SLOT

LEMMA SeqFacts ==
  ASSUME NEW R, NEW s \in Seq(R)
  PROVE  /\ Len(s) \in Nat /\ DOMAIN s = 1 .. Len(s) /\ \A i \in DOMAIN s : s[i] \in R /\ i \in Nat \ {0}
         /\ IsFiniteSet(DOMAIN s)
<1>1. Len(s) \in Nat /\ DOMAIN s = 1 .. Len(s)
  BY LenProperties
<1>2. IsFiniteSet(DOMAIN s)
  BY <1>1, FS_Interval
<1> QED
  BY <1>1, <1>2, ElementOfSeq

LEMMA AppendGrown ==
  ASSUME NEW sc \in Seq(SoftcRec), NEW x \in SoftcRec, x.conf = FALSE
  PROVE  Grown(sc, Append(sc, x), x, Len(sc) + 1) /\ Append(sc, x) \in Seq(SoftcRec)
<1> DEFINE n == Len(sc)
           sd == Append(sc, x)
<1>1. n \in Nat /\ DOMAIN sc = 1 .. n
  BY LenProperties
<1>2. /\ sd \in Seq(SoftcRec) /\ Len(sd) = n + 1 /\ sd[n + 1] = x
      /\ \A i \in 1 .. n : sd[i] = sc[i]
  BY AppendProperties
<1>3. DOMAIN sd = 1 .. n + 1
  BY <1>2, LenProperties
<1> HIDE DEF n, sd
<1>4. n + 1 \notin DOMAIN sc /\ n + 1 \in Nat \ {0} /\ DOMAIN sd = DOMAIN sc \cup {n + 1}
  BY <1>1, <1>3
<1>5. \A i \in DOMAIN sc : sd[i] = sc[i]
  BY <1>1, <1>2
<1>6. ~x.conf
  OBVIOUS
<1> QED
  BY <1>2, <1>4, <1>5, <1>6 DEF Grown, n, sd

\* The probe at hand.
LEMMA ThisFacts ==
  ASSUME BusInv, Probing
  PROVE  /\ tobe \in Seq(ProbeRec) /\ tobe # <<>> /\ 1 \in DOMAIN tobe /\ this \in ProbeRec /\ this = tobe[1]
         /\ this.dev \in DeviceKind /\ this.at \in Nat /\ this.unit \in Nat /\ this.got \in Nat
         /\ ProbeOK(softc, nextunit, this)
         /\ ThisUnit \in Nat /\ ThisUnit >= nextunit[this.dev] /\ nextunit[this.dev] \in Nat
         /\ bpc = "probe"
<1>1. tobe \in Seq(ProbeRec) /\ tobe # <<>> /\ bpc = "probe" /\ nextunit \in [DeviceKind -> Nat]
  BY DEF BusInv, BusType, Probing
<1>2. 1 \in DOMAIN tobe /\ this \in ProbeRec /\ this = tobe[1]
  BY <1>1, TailElements DEF this
<1>3. this.dev \in DeviceKind /\ this.at \in Nat /\ this.unit \in Nat /\ this.got \in Nat
  BY <1>2 DEF ProbeRec
<1>4. ProbeOK(softc, nextunit, this)
  BY <1>2 DEF BusInv, ProbesOK
<1>5. nextunit[this.dev] \in Nat
  BY <1>1, <1>3
<1>6. ThisUnit \in Nat /\ ThisUnit >= nextunit[this.dev]
  <2>1. CASE this.first
    BY <1>5, <2>1 DEF ThisUnit
  <2>2. CASE ~this.first
    BY <1>3, <1>4, <2>2 DEF ThisUnit, ProbeOK
  <2> QED
    BY <2>1, <2>2
<1> QED
  BY <1>1, <1>2, <1>3, <1>4, <1>5, <1>6

\* NewSoftc makes a soft context for this probe.
LEMMA NewSoftcFacts ==
  ASSUME BusInv, Probing, this.got = 0, NEW slot \in 0 .. LB_NSLOTS, NewSoftc(slot),
         this.dev \in Generic => nextunit[this.dev] = 0
  PROVE  \E x \in SoftcRec :
           /\ Grown(softc, softc', x, ThisSoftc) /\ x.kind = this.dev /\ x.slot = slot
           /\ softc' \in Seq(SoftcRec) /\ tobe' \in Seq(ProbeRec)
           /\ ParentsOK(softc') /\ ProbesOK(softc', tobe', nextunit)
<1> DEFINE x == [kind |-> this.dev, slot |-> slot, unit |-> ThisUnit, parent |-> this.at, conf |-> FALSE]
           n == ThisSoftc
           u == ThisUnit
           e == this
           d == [e EXCEPT !.got = n, !.first = FALSE, !.unit = u]
<1>1. /\ tobe \in Seq(ProbeRec) /\ 1 \in DOMAIN tobe /\ e \in ProbeRec /\ e = tobe[1]
      /\ e.dev \in DeviceKind /\ e.at \in Nat /\ ProbeOK(softc, nextunit, e)
      /\ u \in Nat /\ u >= nextunit[e.dev]
  BY ThisFacts
<1>2. softc \in Seq(SoftcRec) /\ n = Len(softc) + 1 /\ n \in Nat
  BY LenProperties DEF BusInv, BusType, ThisSoftc
<1>3. x \in SoftcRec /\ x.kind = e.dev /\ x.slot = slot /\ x.unit = u /\ x.parent = e.at /\ x.conf = FALSE
  BY <1>1 DEF SoftcRec
<1>4. softc' = Append(softc, x)
  BY DEF NewSoftc
<1>5. tobe' = [tobe EXCEPT ![1] = d]
  <2>1. tobe' = [tobe EXCEPT ![1].got = n, ![1].first = FALSE, ![1].unit = u]
    BY DEF NewSoftc
  <2>2. tobe[1] = e
    BY <1>1
  <2> HIDE DEF e
  <2> QED
    BY <1>1, <2>1, <2>2
<1> HIDE DEF x, n, u, e
<1>6. d \in ProbeRec /\ d.dev = e.dev /\ d.at = e.at /\ d.first = FALSE /\ d.unit = u /\ d.got = n
  <2>1. e \in ProbeRec /\ n \in Nat /\ u \in Nat
    BY <1>1, <1>2
  <2> QED
    BY ONLY <2>1 DEF ProbeRec, d
<1> HIDE DEF d
<1>7. Grown(softc, softc', x, n) /\ softc' \in Seq(SoftcRec)
  BY <1>2, <1>3, <1>4, AppendGrown
<1>8. tobe' \in Seq(ProbeRec) /\ DOMAIN tobe' = DOMAIN tobe /\ tobe'[1] = d /\ \A i \in DOMAIN tobe : i # 1 => tobe'[i] = tobe[i]
  <2>1. DOMAIN tobe' = DOMAIN tobe /\ tobe'[1] = d /\ \A i \in DOMAIN tobe : i # 1 => tobe'[i] = tobe[i]
    BY <1>1, <1>5
  <2>2. tobe' \in Seq(ProbeRec)
    BY <1>1, <1>5, <1>6, ExceptSeq
  <2> QED
    BY <2>1, <2>2
<1>9. ParentsOK(softc')
  <2>1. x.kind \in Generic => IsParent(softc, x.parent, x.kind)
    BY <1>1, <1>3 DEF ProbeOK
  <2>2. x.kind = "con" => \A j \in DOMAIN softc : softc[j].kind = "con" => softc[j].parent # x.parent
    BY <1>1, <1>3 DEF ProbeOK, e
  <2>3. ParentsOK(softc)
    BY DEF BusInv
  <2> QED
    BY <1>7, <2>1, <2>2, <2>3, GrownParents
<1>10. ProbesOK(softc', tobe', nextunit)
  <2>1. ProbesOK(softc, tobe, nextunit)
    BY DEF BusInv
  <2>2. ~d.first
    BY <1>6
  <2>3. d.unit >= nextunit[d.dev]
    BY <1>1, <1>6
  <2>4. e.dev \in Generic => nextunit[e.dev] = 0
    BY DEF e
  <2> QED
    BY <1>1, <1>3, <1>6, <1>7, <1>8, <2>1, <2>2, <2>3, <2>4, GrownProbes
<1> QED
  BY <1>3, <1>7, <1>8, <1>9, <1>10 DEF n, e

LEMMA ProbeFinds ==
  ASSUME BusInv, NEW dev, lamebus_probe(dev) # NoSlot
  PROVE  /\ lamebus_probe(dev) \in BusSlot /\ lamebus_probe(dev) \notin ls_slotsinuse
         /\ machine[lamebus_probe(dev)] = dev
<1> DEFINE found == {s \in BusSlot \ ls_slotsinuse : machine[s] = dev}
<1>1. found # {} /\ lamebus_probe(dev) = CHOOSE s \in found : \A r \in found : s <= r
  BY DEF lamebus_probe
<1>2. found \in SUBSET Nat
  BY SlotFacts
<1> HIDE DEF found
<1>3. \E s \in found : \A r \in found : s <= r
  BY <1>1, <1>2, LeastOfNats
<1>4. lamebus_probe(dev) \in found
  BY <1>1, <1>3
<1> QED
  BY <1>4 DEF found

\* While devices are probed, the rest of the invariant does not say anything that changes.
LEMMA CpusStay ==
  ASSUME BusInv, bpc = "probe", bpc' \in {"probe", "panic"}, UNCHANGED <<board, allcpus, cram>>
  PROVE  CpusOK'
  BY DEF BusInv, CpusOK, StartNumbers

LEMMA AttachCardStep ==
  ASSUME BusInv, NEW dev \in CardKind, NEW irq \in BOOLEAN, irq \/ dev \in {"ltrace", "lrandom"}, AttachCard(dev, irq)
  PROVE  BusInv'
<1> DEFINE slot == lamebus_probe(dev)
<1>1. /\ Probing /\ this.dev = dev /\ this.got = 0 /\ slot # NoSlot
      /\ UNCHANGED <<machine, board, allcpus, cram, enabled, nextunit, the, addfailed>>
  BY DEF AttachCard, cpuVars
<1>2. slot \in BusSlot /\ slot \notin ls_slotsinuse /\ machine[slot] = dev
  BY <1>1, ProbeFinds
<1>3. /\ NewSoftc(slot) /\ ls_slotsinuse' = ls_slotsinuse \cup {slot} /\ bpc' = bpc
      /\ irq => ls_devdata' = [ls_devdata EXCEPT ![slot] = ThisSoftc]
      /\ ~irq => ls_devdata' = ls_devdata
  BY <1>2 DEF AttachCard, lamebus_mark, lamebus_attach_interrupt
<1> HIDE DEF slot
<1>4. PICK x \in SoftcRec :
        /\ Grown(softc, softc', x, ThisSoftc) /\ x.kind = this.dev /\ x.slot = slot
        /\ softc' \in Seq(SoftcRec) /\ tobe' \in Seq(ProbeRec)
        /\ ParentsOK(softc') /\ ProbesOK(softc', tobe', nextunit)
  BY <1>1, <1>2, <1>3, SlotFacts, KindFacts, NewSoftcFacts
<1>5. ls_devdata \in [BusSlot -> Nat] /\ ThisSoftc \in Nat
  BY <1>4 DEF BusInv, BusType, Grown
<1>6. /\ ls_devdata' \in [BusSlot -> Nat]
      /\ \A s \in BusSlot : s # x.slot => ls_devdata'[s] = ls_devdata[s]
      /\ x.kind \notin {"ltrace", "lrandom"} => ls_devdata'[x.slot] = ThisSoftc
  <2>1. CASE irq
    BY <1>2, <1>3, <1>4, <1>5, <2>1
  <2>2. CASE ~irq
    BY <1>1, <1>3, <1>4, <1>5, <2>2
  <2> QED
    BY <2>1, <2>2
<1>7. CardsOK(softc', machine', ls_slotsinuse', ls_devdata')
  <2>1. CardsOK(softc, machine, ls_slotsinuse, ls_devdata)
    BY DEF BusInv
  <2>2. x.slot \in BusSlot \ ls_slotsinuse /\ machine[x.slot] = x.kind
    BY <1>1, <1>2, <1>4
  <2>3. CardsOK(softc', machine, ls_slotsinuse \cup {x.slot}, ls_devdata')
    BY <1>4, <1>6, <2>1, <2>2, GrownByCard
  <2> QED
    BY <1>1, <1>3, <1>4, <2>3
<1>8. UnitsOK(softc', nextunit', the') /\ TheOK(softc', the', nextunit', addfailed') /\ EnabledOK(softc', enabled', machine')
  <2>1. UnitsOK(softc, nextunit, the) /\ TheOK(softc, the, nextunit, addfailed) /\ EnabledOK(softc, enabled, machine)
    BY DEF BusInv
  <2>2. UnitsOK(softc', nextunit, the) /\ TheOK(softc', the, nextunit, addfailed) /\ EnabledOK(softc', enabled, machine)
    BY <1>4, <2>1, GrownOthers
  <2> QED
    BY <1>1, <2>2
<1>9. BusType'
  BY <1>1, <1>2, <1>3, <1>4, <1>6 DEF BusInv, BusType
<1>10. bpc = "probe" /\ CpusOK'
  BY <1>1, <1>3, CpusStay DEF Probing
<1> QED
  BY <1>1, <1>3, <1>4, <1>7, <1>8, <1>9, <1>10 DEF BusInv

LEMMA AttachGenericStep ==
  ASSUME BusInv, NEW dev \in Generic, AttachGeneric(dev)
  PROVE  BusInv'
<1>1. /\ Probing /\ this.dev = dev /\ this.got = 0 /\ nextunit[dev] = 0 /\ NewSoftc(NoSlot)
      /\ UNCHANGED <<machine, board, allcpus, cram, ls_slotsinuse, ls_devdata, enabled, nextunit, the, bpc, addfailed>>
  BY DEF AttachGeneric, cpuVars, slots
<1>4. PICK x \in SoftcRec :
        /\ Grown(softc, softc', x, ThisSoftc) /\ x.kind = this.dev
        /\ softc' \in Seq(SoftcRec) /\ tobe' \in Seq(ProbeRec)
        /\ ParentsOK(softc') /\ ProbesOK(softc', tobe', nextunit)
  BY <1>1, SlotFacts, NewSoftcFacts
<1>7. CardsOK(softc', machine', ls_slotsinuse', ls_devdata')
  <2>1. CardsOK(softc, machine, ls_slotsinuse, ls_devdata)
    BY DEF BusInv
  <2>3. CardsOK(softc', machine, ls_slotsinuse, ls_devdata)
    BY <1>1, <1>4, <2>1, GrownByGeneric
  <2> QED
    BY <1>1, <2>3
<1>8. UnitsOK(softc', nextunit', the') /\ TheOK(softc', the', nextunit', addfailed') /\ EnabledOK(softc', enabled', machine')
  <2>1. UnitsOK(softc, nextunit, the) /\ TheOK(softc, the, nextunit, addfailed) /\ EnabledOK(softc, enabled, machine)
    BY DEF BusInv
  <2>2. UnitsOK(softc', nextunit, the) /\ TheOK(softc', the, nextunit, addfailed) /\ EnabledOK(softc', enabled, machine)
    BY <1>4, <2>1, GrownOthers
  <2> QED
    BY <1>1, <2>2
<1>9. BusType'
  BY <1>1, <1>4 DEF BusInv, BusType
<1>10. bpc = "probe" /\ CpusOK'
  BY <1>1, CpusStay DEF Probing
<1> QED
  BY <1>1, <1>4, <1>7, <1>8, <1>9, <1>10 DEF BusInv

\* Skip and Fails: on to the next line.
LEMMA NextLineStep ==
  ASSUME BusInv, Probing, Fails
  PROVE  BusInv'
<1>1. /\ tobe' = Tail(tobe)
      /\ UNCHANGED <<machine, board, allcpus, cram, softc, ls_slotsinuse, ls_devdata, enabled, nextunit, the, bpc, addfailed>>
  BY DEF Fails, cpuVars, slots
<1>2. tobe \in Seq(ProbeRec) /\ tobe # <<>> /\ bpc = "probe"
  BY ThisFacts
<1>3. ProbesOK(softc, tobe, nextunit)
  BY DEF BusInv
<1>4. Ready(softc, nextunit, Tail(tobe)) /\ Tail(tobe) \in Seq(ProbeRec)
  BY <1>2, <1>3, TailReady, TailElements
<1>5. ProbesOK(softc', tobe', nextunit') /\ tobe' \in Seq(ProbeRec)
  BY <1>1, <1>4, ReadyProbes
<1>6. BusType'
  BY <1>1, <1>5 DEF BusInv, BusType
<1>7. CpusOK'
  BY <1>1, <1>2, CpusStay
<1>8. /\ CardsOK(softc', machine', ls_slotsinuse', ls_devdata')
      /\ UnitsOK(softc', nextunit', the') /\ ParentsOK(softc') /\ TheOK(softc', the', nextunit', addfailed')
      /\ EnabledOK(softc', enabled', machine')
  BY <1>1 DEF BusInv
<1> QED
  BY <1>1, <1>2, <1>5, <1>6, <1>7, <1>8 DEF BusInv

\* The soft context of the probe at hand is configured.
LEMMA ConfsStep ==
  ASSUME BusInv, Probing, this.got # 0, softc' = [softc EXCEPT ![this.got].conf = TRUE]
  PROVE  /\ Confs(softc, softc', this.got) /\ softc' \in Seq(SoftcRec) /\ this.got \in Nat \ {0}
         /\ softc[this.got].kind = this.dev /\ softc[this.got].unit = ThisUnit /\ ~this.first
         /\ this.dev \in Generic => nextunit[this.dev] = 0
<1> DEFINE g == this.got
           x == [softc[g] EXCEPT !.conf = TRUE]
<1>1. ProbeOK(softc, nextunit, this) /\ g \in Nat /\ this.unit \in Nat
  BY ThisFacts
<1>2. /\ ~this.first /\ g \in DOMAIN softc
      /\ softc[g].kind = this.dev /\ softc[g].unit = this.unit /\ ~softc[g].conf
      /\ this.dev \in Generic => nextunit[this.dev] = 0
  BY <1>1 DEF ProbeOK
<1>3. ThisUnit = this.unit
  BY <1>2 DEF ThisUnit
<1>4. softc \in Seq(SoftcRec) /\ softc[g] \in SoftcRec
  BY <1>2, SeqFacts DEF BusInv, BusType
<1>5. softc' = [softc EXCEPT ![g] = x]
  BY <1>2
<1>6. x \in SoftcRec /\ x.conf = TRUE /\ x.kind = softc[g].kind /\ x.slot = softc[g].slot /\ x.unit = softc[g].unit /\ x.parent = softc[g].parent
  <2> DEFINE y == softc[g]
  <2>1. y \in SoftcRec
    BY <1>4
  <2> HIDE DEF y
  <2>2. LET z == [y EXCEPT !.conf = TRUE]
        IN  z \in SoftcRec /\ z.conf = TRUE /\ z.kind = y.kind /\ z.slot = y.slot /\ z.unit = y.unit /\ z.parent = y.parent
    BY ONLY <2>1 DEF SoftcRec
  <2> QED
    BY <2>2 DEF y
<1> HIDE DEF g, x
<1>7. softc' \in Seq(SoftcRec)
  BY <1>2, <1>4, <1>5, <1>6, ExceptSeq
<1>8. DOMAIN softc' = DOMAIN softc /\ softc'[g] = x /\ \A i \in DOMAIN softc : i # g => softc'[i] = softc[i]
  BY <1>2, <1>4, <1>5
<1>9. Confs(softc, softc', g)
  BY <1>2, <1>6, <1>8 DEF Confs
<1> QED
  BY <1>1, <1>2, <1>3, <1>7, <1>9 DEF g

LEMMA CardIsUpStep ==
  ASSUME BusInv, NEW dev \in CardKind, Configuring(dev), NEW irq \in BOOLEAN, CardIsUp(irq),
         irq /\ dev = "ltimer" => \A s \in enabled : machine[s] # "ltimer"
  PROVE  BusInv'
<1> DEFINE g == this.got
           u == ThisUnit
           x == [this EXCEPT !.got = 0, !.unit = u + 1]
<1>1. Probing /\ this.dev = dev /\ this.got # 0
  BY DEF Configuring
<1>2. /\ softc' = [softc EXCEPT ![this.got].conf = TRUE]
      /\ nextunit' = [nextunit EXCEPT ![dev] = u + 1]
      /\ tobe' = autoconf(dev, g) \o (<<x>> \o Tail(tobe))
      /\ enabled' = IF irq THEN enabled \cup {softc[g].slot} ELSE enabled
      /\ UNCHANGED <<machine, board, allcpus, cram, ls_slotsinuse, ls_devdata, bpc, the, addfailed>>
  BY <1>1 DEF CardIsUp, Succeeds, NextUnit, cpuVars, slots
<1>3. /\ Confs(softc, softc', g) /\ softc' \in Seq(SoftcRec) /\ g \in Nat \ {0}
      /\ softc[g].kind = dev /\ softc[g].unit = u /\ ~this.first
  BY <1>1, <1>2, ConfsStep
<1>4. /\ tobe \in Seq(ProbeRec) /\ tobe # <<>> /\ this \in ProbeRec /\ this = tobe[1]
      /\ u \in Nat /\ u >= nextunit[dev] /\ bpc = "probe"
  BY <1>1, ThisFacts
<1>5. x \in ProbeRec /\ x.dev = dev /\ x.got = 0 /\ x.unit = u + 1 /\ ~x.first
  <2> DEFINE y == this
             v == u + 1
  <2>1. y \in ProbeRec /\ v \in Nat
    BY <1>4
  <2> HIDE DEF y, u, v
  <2>2. LET z == [y EXCEPT !.got = 0, !.unit = v]
        IN  z \in ProbeRec /\ z.dev = y.dev /\ z.got = 0 /\ z.unit = v /\ z.first = y.first
    BY ONLY <2>1 DEF ProbeRec
  <2> QED
    BY <1>1, <1>3, <2>2 DEF y, v
<1> HIDE DEF g, u, x
<1>6. nextunit \in [DeviceKind -> Nat] /\ dev \in DeviceKind
  BY KindFacts DEF BusInv, BusType
<1>7. nextunit' \in [DeviceKind -> Nat] /\ nextunit'[dev] = u + 1 /\ SameBut(nextunit, nextunit', dev)
  BY <1>2, <1>4, <1>6 DEF SameBut
<1>8. ProbesOK(softc', tobe', nextunit') /\ tobe' \in Seq(ProbeRec)
  <2>1. ProbesOK(softc, tobe, nextunit) /\ ParentsOK(softc)
    BY DEF BusInv
  <2>2. x.unit >= nextunit'[dev]
    BY <1>4, <1>5, <1>7
  <2>3. tobe[1].dev = dev
    BY <1>1, <1>4
  <2> DEFINE tc == autoconf(dev, g) \o (<<x>> \o Tail(tobe))
  <2>4. ProbesOK(softc', tc, nextunit') /\ tc \in Seq(ProbeRec)
    BY <1>3, <1>4, <1>5, <1>7, <2>1, <2>2, <2>3, ConfsList
  <2> QED
    BY <1>2, <2>4
<1>9. UnitsOK(softc', nextunit', the') /\ TheOK(softc', the', nextunit', addfailed')
  <2>1. UnitsOK(softc, nextunit, the) /\ TheOK(softc, the, nextunit, addfailed)
    BY DEF BusInv
  <2>2. \A i \in DOMAIN softc : softc[i].unit \in Nat /\ softc[i].kind \in DeviceKind
    <3>1. \A i \in DOMAIN softc : softc[i] \in SoftcRec
      BY SeqFacts DEF BusInv, BusType
    <3> QED
      BY <3>1 DEF SoftcRec
  <2>3. UnitsOK(softc', nextunit', the) /\ TheOK(softc', the, nextunit', addfailed)
    BY <1>2, <1>3, <1>4, <1>6, <2>1, <2>2, ConfsCard
  <2> QED
    BY <1>2, <2>3
<1>10. CardsOK(softc', machine', ls_slotsinuse', ls_devdata') /\ ParentsOK(softc')
  <2>1. CardsOK(softc, machine, ls_slotsinuse, ls_devdata) /\ ParentsOK(softc)
    BY DEF BusInv
  <2>2. CardsOK(softc', machine, ls_slotsinuse, ls_devdata) /\ ParentsOK(softc')
    BY <1>3, <2>1, ConfsOthers
  <2> QED
    BY <1>2, <2>2
<1>11. softc[g].slot \in BusSlot /\ machine[softc[g].slot] = dev /\ softc[g].kind \notin Generic
  <2>1. g \in DOMAIN softc
    BY <1>3 DEF Confs
  <2> QED
    BY <1>3, <2>1, KindFacts DEF BusInv, CardsOK
<1>12. EnabledOK(softc', enabled', machine')
  <2>1. EnabledOK(softc, enabled, machine)
    BY DEF BusInv
  <2>2. \/ enabled' = enabled
        \/ /\ softc[g].kind \notin Generic /\ enabled' = enabled \cup {softc[g].slot}
           /\ machine[softc[g].slot] = "ltimer" => \A s \in enabled : machine[s] # "ltimer"
    <3>1. CASE irq
      BY <1>2, <1>11, <3>1
    <3>2. CASE ~irq
      BY <1>2, <3>2
    <3> QED
      BY <3>1, <3>2
  <2>3. EnabledOK(softc', enabled', machine)
    BY <1>3, <2>1, <2>2, ConfsEnabled
  <2> QED
    BY <1>2, <2>3
<1>13. BusType'
  <2>1. enabled' \subseteq BusSlot
    BY <1>2, <1>11 DEF BusInv, BusType
  <2> QED
    BY <1>2, <1>3, <1>7, <1>8, <2>1 DEF BusInv, BusType
<1>14. CpusOK'
  BY <1>2, <1>4, CpusStay
<1> QED
  BY <1>2, <1>4, <1>8, <1>9, <1>10, <1>12, <1>13, <1>14 DEF BusInv

\* A generic device is in use: registered, or not (next unit still 0).
LEMMA GenericIsUpStep ==
  ASSUME BusInv, NEW dev \in Generic, Configuring(dev), the[dev] = 0,
         softc' = [softc EXCEPT ![this.got].conf = TRUE],
         the' = [the EXCEPT ![dev] = this.got], tobe' = Tail(tobe),
         \/ nextunit' = [nextunit EXCEPT ![dev] = ThisUnit + 1] /\ addfailed' = addfailed
         \/ nextunit' = nextunit /\ addfailed' = addfailed \cup {dev},
         UNCHANGED <<machine, board, allcpus, cram, ls_slotsinuse, ls_devdata, enabled, bpc>>
  PROVE  BusInv'
<1> DEFINE g == this.got
           u == ThisUnit
<1>1. Probing /\ this.dev = dev /\ this.got # 0
  BY DEF Configuring
<1>3. /\ Confs(softc, softc', g) /\ softc' \in Seq(SoftcRec) /\ g \in Nat \ {0} /\ softc[g].kind = dev
  BY <1>1, ConfsStep
<1>4. /\ tobe \in Seq(ProbeRec) /\ tobe # <<>> /\ this = tobe[1] /\ u \in Nat /\ bpc = "probe"
  BY <1>1, ThisFacts
<1>2. \/ nextunit' = [nextunit EXCEPT ![dev] = u + 1] /\ addfailed' = addfailed
      \/ nextunit' = nextunit /\ addfailed' = addfailed \cup {dev}
  OBVIOUS
<1>x. the' = [the EXCEPT ![dev] = g]
  OBVIOUS
<1> HIDE DEF g, u
<1>6. nextunit \in [DeviceKind -> Nat] /\ dev \in DeviceKind /\ the \in [Generic -> Nat] /\ addfailed \subseteq Generic
  BY KindFacts DEF BusInv, BusType
<1>7. /\ nextunit' \in [DeviceKind -> Nat] /\ \A l \in DeviceKind : l # dev => nextunit'[l] = nextunit[l]
      /\ addfailed \subseteq addfailed' /\ (nextunit'[dev] = 0 => dev \in addfailed') /\ addfailed' \subseteq Generic
  <2>1. CASE nextunit' = [nextunit EXCEPT ![dev] = u + 1] /\ addfailed' = addfailed
    <3>1. u + 1 \in Nat /\ u + 1 # 0
      BY <1>4
    <3> QED
      BY <1>6, <2>1, <3>1
  <2>2. CASE nextunit' = nextunit /\ addfailed' = addfailed \cup {dev}
    BY <1>6, <2>2
  <2> QED
    BY <1>2, <2>1, <2>2
<1>8. ProbesOK(softc', tobe', nextunit') /\ tobe' \in Seq(ProbeRec)
  <2>1. ProbesOK(softc, tobe, nextunit)
    BY DEF BusInv
  <2>2. SameBut(nextunit, nextunit', dev)
    BY <1>7 DEF SameBut
  <2>3. tobe[1].dev = dev
    BY <1>1, <1>4
  <2>4. Ready(softc', nextunit', Tail(tobe)) /\ Tail(tobe) \in Seq(ProbeRec)
    BY <1>3, <1>4, <2>1, <2>2, <2>3, ConfsTail, TailElements
  <2> QED
    BY <2>4, ReadyProbes
<1>9. UnitsOK(softc', nextunit', the') /\ TheOK(softc', the', nextunit', addfailed')
  <2>1. UnitsOK(softc, nextunit, the) /\ TheOK(softc, the, nextunit, addfailed)
    BY DEF BusInv
  <2>2. \A i \in DOMAIN softc : softc[i].kind \in DeviceKind /\ i # 0
    <3>1. \A i \in DOMAIN softc : softc[i] \in SoftcRec /\ i # 0
      BY SeqFacts DEF BusInv, BusType
    <3> QED
      BY <3>1 DEF SoftcRec
  <2>3. SameBut(nextunit, nextunit', dev)
    BY <1>7 DEF SameBut
  <2>4. Confs(softc, softc', g) /\ g \in Nat \ {0} /\ softc[g].kind = dev
    BY <1>3
  <2>5. nextunit \in [DeviceKind -> Nat] /\ the \in [Generic -> Nat] /\ dev \in Generic /\ the[dev] = 0
    BY <1>6
  <2>6. addfailed \subseteq addfailed'
    BY <1>7
  <2>7. Failed(nextunit', dev, addfailed')
    BY <1>7 DEF Failed
  <2>8. SetTo(the, the', dev, g)
    BY <1>6, <1>x DEF SetTo
  <2>9. Numbered(softc)
    BY <2>2 DEF Numbered
  <2> QED
    BY ONLY <2>8, <2>9, <2>1, <2>2, <2>3, <2>4, <2>5, <2>6, <2>7, ConfsGeneric
<1>10. CardsOK(softc', machine', ls_slotsinuse', ls_devdata') /\ ParentsOK(softc')
  <2>1. CardsOK(softc, machine, ls_slotsinuse, ls_devdata) /\ ParentsOK(softc)
    BY DEF BusInv
  <2>2. CardsOK(softc', machine, ls_slotsinuse, ls_devdata) /\ ParentsOK(softc')
    BY <1>3, <2>1, ConfsOthers
  <2> QED
    BY <2>2
<1>12. EnabledOK(softc', enabled', machine')
  <2>1. EnabledOK(softc, enabled, machine)
    BY DEF BusInv
  <2>3. EnabledOK(softc', enabled, machine)
    BY <1>3, <2>1, ConfsEnabled
  <2> QED
    BY <2>3
<1>13. BusType'
  <2>1. the' \in [Generic -> Nat]
    BY <1>3, <1>6, <1>x
  <2> QED
    BY <1>3, <1>7, <1>8, <2>1 DEF BusInv, BusType
<1>14. CpusOK'
  BY <1>4, CpusStay
<1> QED
  BY <1>4, <1>8, <1>9, <1>10, <1>12, <1>13, <1>14 DEF BusInv

\* KASSERT(the_X == NULL) fails only after an earlier config had set it and failed.
LEMMA PanicsStep ==
  ASSUME BusInv, NEW dev \in Generic, Configuring(dev), the[dev] # 0, Panics
  PROVE  BusInv'
<1>1. Probing /\ this.dev = dev /\ this.got # 0
  BY DEF Configuring
<1>2. ProbeOK(softc, nextunit, this) /\ bpc = "probe"
  BY <1>1, ThisFacts
<1>3. nextunit[dev] = 0
  BY <1>1, <1>2 DEF ProbeOK
<1>4. dev \in addfailed
  BY <1>3 DEF BusInv, TheOK
<1>5. /\ bpc' = "panic"
      /\ UNCHANGED <<machine, board, allcpus, cram, softc, ls_slotsinuse, ls_devdata, enabled, nextunit, the, tobe, addfailed>>
  BY DEF Panics, cpuVars, slots
<1>6. CpusOK'
  BY <1>2, <1>5, CpusStay
<1>7. BusType'
  BY <1>5 DEF BusInv, BusType
<1>8. /\ CardsOK(softc', machine', ls_slotsinuse', ls_devdata')
      /\ UnitsOK(softc', nextunit', the') /\ ParentsOK(softc') /\ TheOK(softc', the', nextunit', addfailed')
      /\ EnabledOK(softc', enabled', machine') /\ ProbesOK(softc', tobe', nextunit')
  BY <1>5 DEF BusInv
<1> QED
  BY <1>4, <1>5, <1>6, <1>7, <1>8 DEF BusInv

LEMMA IsUpStep ==
  ASSUME BusInv, NEW dev \in Generic, Configuring(dev), IsUp(dev)
  PROVE  BusInv'
<1>1. CASE the[dev] # 0
  BY <1>1, PanicsStep DEF IsUp
<1>2. CASE the[dev] = 0
  <2>1. this.dev = dev
    BY DEF Configuring
  <2>2. /\ softc' = [softc EXCEPT ![this.got].conf = TRUE] /\ the' = [the EXCEPT ![dev] = this.got]
        /\ nextunit' = [nextunit EXCEPT ![dev] = ThisUnit + 1] /\ addfailed' = addfailed
        /\ tobe' = autoconf(dev, this.got) \o Tail(tobe)
        /\ UNCHANGED <<machine, board, allcpus, cram, ls_slotsinuse, ls_devdata, enabled, bpc>>
    BY <1>2, <2>1 DEF IsUp, Succeeds, NextUnit, cpuVars, slots
  <2>3. tobe' = Tail(tobe)
    <3>1. autoconf(dev, this.got) = <<>>
      BY AutoconfGeneric
    <3>2. Tail(tobe) \in Seq(ProbeRec)
      BY ThisFacts, TailElements DEF Configuring
    <3> QED
      BY <2>2, <3>1, <3>2, ConcatEmptySeq
  <2> QED
    BY <1>2, <2>2, <2>3, GenericIsUpStep
<1> QED
  BY <1>1, <1>2

LEMMA AddDevFailsStep ==
  ASSUME BusInv, NEW dev \in Generic, Configuring(dev), AddDevFails(dev)
  PROVE  BusInv'
  BY GenericIsUpStep DEF AddDevFails, cpuVars, slots

\* One serial port and a console in use: the port's handler finds that console.
LEMMA OnePort ==
  ASSUME BusInv, the.con # 0, Cardinality(Configured("lser")) = 1,
         NEW slot \in enabled, machine[slot] = "lser"
  PROVE  ~Unset(ls_devdata[slot])
<1> DEFINE c == the.con
           p == softc[c].parent
           L == Configured("lser")
<1>0. /\ CardsOK(softc, machine, ls_slotsinuse, ls_devdata) /\ ParentsOK(softc)
      /\ TheOK(softc, the, nextunit, addfailed) /\ EnabledOK(softc, enabled, machine)
      /\ softc \in Seq(SoftcRec)
  BY DEF BusInv, BusType
<1>1. c \in DOMAIN softc /\ softc[c].kind = "con" /\ softc[c].conf
  BY <1>0, KindFacts DEF TheOK
<1>2. IsParent(softc, p, "con")
  BY <1>0, <1>1, KindFacts DEF ParentsOK
<1>3. p \in DOMAIN softc /\ softc[p].kind = "lser" /\ softc[p].conf
  BY <1>2, KindFacts DEF IsParent
<1>4. PICK i \in DOMAIN softc : softc[i].conf /\ softc[i].kind \notin Generic /\ softc[i].slot = slot
  BY <1>0 DEF EnabledOK
<1>5. softc[i].kind = "lser" /\ ls_devdata[slot] = i
  BY <1>0, <1>4 DEF CardsOK
<1>6. i \in L /\ p \in L
  BY <1>3, <1>4, <1>5 DEF Configured
<1>7. IsFiniteSet(L)
  <2>1. IsFiniteSet(DOMAIN softc)
    BY <1>0, SeqFacts
  <2>2. L \in SUBSET DOMAIN softc
    BY DEF Configured
  <2> QED
    BY <2>1, <2>2, FS_Subset
<1>8. i = p
  <2>1. \E x : L = {x}
    BY <1>7, FS_Singleton
  <2> HIDE DEF L
  <2> QED
    BY <1>6, <2>1
<1>9. c \in Consoles(p)
  BY <1>1 DEF Consoles
<1>10. \A d \in Consoles(p) : d = c
  BY <1>0, <1>1 DEF Consoles, ParentsOK
<1> QED
  BY <1>1, <1>5, <1>8, <1>9, <1>10 DEF Unset

LEMMA WildCallStep ==
  ASSUME BusInv, NEW slot \in BusSlot, WildCall(slot)
  PROVE  BusInv'
<1>1. /\ bpc \in {"probe", "up"} /\ slot \in enabled /\ machine[slot] = "lser" /\ Unset(ls_devdata[slot]) /\ bpc' = "wild"
      /\ UNCHANGED <<machine, board, allcpus, cram, softc, ls_slotsinuse, ls_devdata, enabled, nextunit, the, tobe, addfailed>>
  BY DEF WildCall, cpuVars, slots
<1>2. Cardinality(Configured("lser")) = 1 => the.con = 0
  BY <1>1, OnePort
<1>3. Configured("lser")' = Configured("lser")
  BY <1>1 DEF Configured
<1>4. CpusOK'
  BY <1>1 DEF BusInv, CpusOK, StartNumbers
<1>5. BusType'
  BY <1>1 DEF BusInv, BusType
<1>6. /\ CardsOK(softc', machine', ls_slotsinuse', ls_devdata')
      /\ UnitsOK(softc', nextunit', the') /\ ParentsOK(softc') /\ TheOK(softc', the', nextunit', addfailed')
      /\ EnabledOK(softc', enabled', machine') /\ ProbesOK(softc', tobe', nextunit')
  BY <1>1 DEF BusInv
<1> QED
  BY <1>1, <1>2, <1>3, <1>4, <1>5, <1>6 DEF BusInv

\* The list of the bus's lines.
LEMMA BusList ==
  ASSUME NEW sc, NEW next
  PROVE  ProbesOK(sc, autoconf("lamebus", 0), next) /\ autoconf("lamebus", 0) \in Seq(ProbeRec)
<1> DEFINE A == autoconf("lamebus", 0)
<1>1. /\ A \in Seq(ProbeRec)
      /\ \A i \in DOMAIN A : A[i].dev \in CardKind /\ A[i].first = TRUE /\ A[i].got = 0
      /\ \A i, j \in DOMAIN A : i # j => A[i].dev # A[j].dev
  BY AutoconfBus
<1> HIDE DEF A
<1>2. ASSUME NEW i \in DOMAIN A PROVE ProbeOK(sc, next, A[i]) /\ Waits(A[i])
  <2> DEFINE e == A[i]
  <2>1. e.dev \notin Generic /\ e.dev # "con" /\ e.first /\ e.got = 0
    BY <1>1, KindFacts
  <2> HIDE DEF e
  <2>2. ProbeOK(sc, next, e) /\ Waits(e)
    BY <2>1 DEF ProbeOK, Waits
  <2> QED
    BY <2>2 DEF e
<1>3. \A i, j \in DOMAIN A : i # j => Differ(A[i], A[j])
  BY <1>1 DEF Differ
<1>4. Ready(sc, next, A)
  BY <1>2, <1>3 DEF Ready
<1> QED
  BY <1>1, <1>4, ReadyProbes DEF A

LEMMA FindCpusStep ==
  ASSUME BusInv, lamebus_find_cpus
  PROVE  BusInv'
<1>1. /\ bpc = "cpus" /\ bpc' = "probe" /\ tobe' = autoconf("lamebus", 0)
      /\ allcpus' = <<board.self>> \o Ascending(board.mask \ {board.self})
      /\ UNCHANGED <<machine, board, softc, ls_slotsinuse, ls_devdata, enabled, nextunit, the, cram, addfailed>>
  BY DEF lamebus_find_cpus, slots
<1>2. ProbesOK(softc', tobe', nextunit') /\ tobe' \in Seq(ProbeRec)
  BY <1>1, BusList
<1>3. CpusOK'
  BY <1>1 DEF BusInv, CpusOK, StartNumbers
<1>4. BusType'
  BY <1>1, <1>2 DEF BusInv, BusType
<1>5. /\ CardsOK(softc', machine', ls_slotsinuse', ls_devdata')
      /\ UnitsOK(softc', nextunit', the') /\ ParentsOK(softc') /\ TheOK(softc', the', nextunit', addfailed')
      /\ EnabledOK(softc', enabled', machine')
  BY <1>1 DEF BusInv
<1> QED
  BY <1>1, <1>2, <1>3, <1>4, <1>5 DEF BusInv

LEMMA StartCpusStep ==
  ASSUME BusInv, lamebus_start_cpus
  PROVE  BusInv'
<1>1. /\ bpc = "probe" /\ bpc' = "up" /\ cram' = StartNumbers
      /\ UNCHANGED <<machine, board, softc, ls_slotsinuse, ls_devdata, enabled, nextunit, the, tobe, allcpus, addfailed>>
  BY DEF lamebus_start_cpus, slots
<1>2. CpusOK'
  BY <1>1 DEF BusInv, CpusOK, StartNumbers
<1>3. BusType'
  BY <1>1 DEF BusInv, BusType
<1>4. /\ CardsOK(softc', machine', ls_slotsinuse', ls_devdata')
      /\ UnitsOK(softc', nextunit', the') /\ ParentsOK(softc') /\ TheOK(softc', the', nextunit', addfailed')
      /\ EnabledOK(softc', enabled', machine') /\ ProbesOK(softc', tobe', nextunit')
  BY <1>1 DEF BusInv
<1> QED
  BY <1>1, <1>2, <1>3, <1>4 DEF BusInv

LEMMA BusInvInit == lamebus_init => BusInv
<1> SUFFICES ASSUME lamebus_init PROVE BusInv
  OBVIOUS
<1>1. /\ machine \in Machines /\ board \in CpuBoards /\ softc = <<>> /\ ls_slotsinuse = {LB_CONTROLLER_SLOT}
      /\ ls_devdata = [s \in BusSlot |-> 0] /\ enabled = {} /\ nextunit = [k \in DeviceKind |-> 0]
      /\ the = [k \in Generic |-> 0] /\ tobe = <<>> /\ cram = <<>> /\ bpc = "cpus" /\ addfailed = {}
  BY DEF lamebus_init
<1>2. BusType
  BY <1>1, SlotFacts, LamebusAssumption DEF BusType
<1>3. DOMAIN softc = {} /\ DOMAIN tobe = {} /\ \A k \in Generic : the[k] = 0
  BY <1>1
<1>4. CardsOK(softc, machine, ls_slotsinuse, ls_devdata)
  BY <1>3 DEF CardsOK
<1>5. UnitsOK(softc, nextunit, the)
  BY <1>3 DEF UnitsOK
<1>6. ParentsOK(softc)
  BY <1>3 DEF ParentsOK
<1>7. TheOK(softc, the, nextunit, addfailed)
  BY <1>3 DEF TheOK
<1>8. ProbesOK(softc, tobe, nextunit)
  BY <1>3 DEF ProbesOK
<1>9. EnabledOK(softc, enabled, machine)
  BY <1>1 DEF EnabledOK
<1>10. CpusOK
  BY <1>1 DEF CpusOK
<1> QED
  BY <1>1, <1>2, <1>4, <1>5, <1>6, <1>7, <1>8, <1>9, <1>10 DEF BusInv

LEMMA BusInvStep == BusInv /\ [busNext]_busVars => BusInv'
<1> SUFFICES ASSUME BusInv, [busNext]_busVars PROVE BusInv'
  OBVIOUS
<1>1. CASE UNCHANGED busVars
  <2>1. UNCHANGED <<machine, board, softc, ls_slotsinuse, ls_devdata, enabled, nextunit, the, tobe, allcpus, cram, bpc, addfailed>>
    BY <1>1 DEF busVars
  <2>2. BusType'
    BY <2>1 DEF BusInv, BusType
  <2>3. CpusOK' /\ Configured("lser")' = Configured("lser")
    BY <2>1 DEF BusInv, CpusOK, StartNumbers, Configured
  <2> QED
    BY <2>1, <2>2, <2>3 DEF BusInv
<1>2. CASE lamebus_find_cpus
  BY <1>2, FindCpusStep
<1>3. CASE lamebus_start_cpus
  BY <1>3, StartCpusStep
<1>4. ASSUME NEW dev \in CardKind, NEW irq \in BOOLEAN, irq \/ dev \in {"ltrace", "lrandom"}, AttachCard(dev, irq)
      PROVE  BusInv'
  BY <1>4, AttachCardStep
<1>5. CASE \/ attach_emu_to_lamebus \/ attach_ltrace_to_lamebus \/ attach_ltimer_to_lamebus
           \/ attach_lrandom_to_lamebus \/ attach_lhd_to_lamebus \/ attach_lser_to_lamebus
  BY <1>4, <1>5 DEF attach_emu_to_lamebus, attach_ltrace_to_lamebus, attach_ltimer_to_lamebus,
     attach_lrandom_to_lamebus, attach_lhd_to_lamebus, attach_lser_to_lamebus, CardKind
<1>6. CASE attach_beep_to_ltimer \/ attach_rtclock_to_ltimer \/ attach_random_to_lrandom \/ attach_con_to_lser
  BY <1>6, AttachGenericStep DEF attach_beep_to_ltimer, attach_rtclock_to_ltimer, attach_random_to_lrandom,
     attach_con_to_lser, Generic
<1>7. CASE Skip
  <2>1. Probing /\ Fails
    BY <1>7 DEF Skip, Fails
  <2> QED
    BY <2>1, NextLineStep
<1>8. ASSUME NEW dev, Configuring(dev), Fails PROVE BusInv'
  BY <1>8, NextLineStep DEF Configuring
<1>9. ASSUME NEW dev \in CardKind, dev # "ltimer", Configuring(dev), NEW irq \in BOOLEAN, CardIsUp(irq) PROVE BusInv'
  BY <1>9, CardIsUpStep
<1>10. CASE config_emu \/ config_lhd \/ config_ltrace \/ config_lrandom \/ config_lser
  BY <1>8, <1>9, <1>10 DEF config_emu, config_lhd, config_ltrace, config_lrandom, config_lser, CardKind
<1>11. CASE config_ltimer
  <2> DEFINE irq == ~havetimerclock
             dev == "ltimer"
  <2>1. Configuring(dev) /\ CardIsUp(irq) /\ irq \in BOOLEAN /\ dev \in CardKind
    BY <1>11 DEF config_ltimer, CardKind
  <2>2. irq /\ dev = "ltimer" => \A s \in enabled : machine[s] # "ltimer"
    BY DEF havetimerclock, Timers, BusInv, BusType
  <2> HIDE DEF irq, dev
  <2> QED
    BY <2>1, <2>2, CardIsUpStep
<1>12. ASSUME NEW dev \in Generic, Configuring(dev), IsUp(dev) \/ AddDevFails(dev) PROVE BusInv'
  BY <1>12, IsUpStep, AddDevFailsStep
<1>13. CASE config_beep \/ config_rtclock \/ config_random \/ config_con
  BY <1>8, <1>12, <1>13 DEF config_beep, config_rtclock, config_random, config_con, Generic
<1>14. CASE \E slot \in BusSlot : WildCall(slot)
  BY <1>14, WildCallStep
<1> QED
  BY <1>1, <1>2, <1>3, <1>5, <1>6, <1>7, <1>10, <1>11, <1>13, <1>14 DEF busNext

-----------------------------------------------------------------------------

LEMMA CpusAgree ==
  ASSUME BusInv, NEW h \in DOMAIN cram
  PROVE  allcpus[cram[h] + 1] = h
<1> DEFINE S == board.mask \ {board.self}
           s == Ascending(S)
           r == 1 + Cardinality(Below(S, h))
           B == <<board.self>>
<1>1. bpc # "cpus" /\ cram = StartNumbers
  BY DEF BusInv, CpusOK
<1>2. allcpus = B \o s
  BY <1>1 DEF BusInv, CpusOK
<1>3. h \in S /\ cram[h] = r
  BY <1>1 DEF StartNumbers, Below
<1>4. S \in SUBSET Nat /\ IsFiniteSet(S)
  <2>1. board.mask \subseteq Nat /\ IsFiniteSet(board.mask)
    BY LamebusAssumption DEF BusInv, BusType
  <2> QED
    BY <2>1, FS_Difference
<1> HIDE DEF S
<1>5. s \in [1 .. Cardinality(S) -> S] /\ s[r] = h
  BY <1>3, <1>4, AscendingRanks
<1>6. r \in 1 .. Cardinality(S) /\ Cardinality(S) \in Nat
  BY <1>3, <1>4, Ranks, FS_CardinalityType
<1> DEFINE n == Cardinality(S)
           R == S \cup {board.self}
<1>7. n \in Nat /\ r \in 1 .. n /\ s \in [1 .. n -> S]
  BY <1>5, <1>6
<1>8. s \in Seq(R) /\ Len(s) = n
  <2> HIDE DEF n, s, r
  <2>1. s \in Seq(S)
    BY <1>7, SeqDef
  <2>2. s \in Seq(R)
    BY <1>7, SeqDef
  <2> QED
    BY <1>7, <2>2, LenProperties
<1>9. B \in Seq(R) /\ Len(B) = 1
  OBVIOUS
<1> HIDE DEF s, r, n, R, B
<1>10. (B \o s)[r + 1] = s[r]
  <2>1. r \in Nat /\ r + 1 > 1 /\ r + 1 <= 1 + n /\ (r + 1) - 1 = r /\ r + 1 \in Nat
    BY <1>7
  <2>2. r + 1 \in 1 .. (Len(B) + Len(s))
    BY <1>7, <1>8, <1>9, <2>1
  <2>3. (B \o s)[r + 1] = IF r + 1 <= Len(B) THEN B[r + 1] ELSE s[(r + 1) - Len(B)]
    BY <1>8, <1>9, <2>2, ConcatProperties
  <2> QED
    BY <1>9, <2>1, <2>3
<1> QED
  BY <1>2, <1>3, <1>5, <1>10

LEMMA BusInvAgrees == BusInv => BusAgrees
<1> SUFFICES ASSUME BusInv PROVE BusAgrees
  OBVIOUS
<1>0. /\ CardsOK(softc, machine, ls_slotsinuse, ls_devdata) /\ ParentsOK(softc) /\ UnitsOK(softc, nextunit, the)
      /\ TheOK(softc, the, nextunit, addfailed) /\ EnabledOK(softc, enabled, machine) /\ enabled \subseteq BusSlot
  BY DEF BusInv, BusType
<1>1. \A i, j \in Cards : softc[i].slot = softc[j].slot => i = j
  BY <1>0 DEF Cards, CardsOK
<1>2. \A i \in Cards : /\ softc[i].slot \in ls_slotsinuse
                       /\ machine[softc[i].slot] = softc[i].kind
                       /\ softc[i].kind \notin {"ltrace", "lrandom"} => ls_devdata[softc[i].slot] = i
  BY <1>0 DEF Cards, CardsOK
<1>3. ASSUME NEW k \in DeviceKind, NEW i \in Configured(k), NEW j \in Configured(k), softc[i].unit = softc[j].unit
      PROVE  i = j
  <2>1. i \in DOMAIN softc /\ j \in DOMAIN softc /\ softc[i].conf /\ softc[j].conf /\ softc[i].kind = k /\ softc[j].kind = k
    BY DEF Configured
  <2>2. CASE k \in Generic
    BY <1>0, <2>1, <2>2 DEF UnitsOK
  <2>3. CASE k \notin Generic
    BY <1>0, <1>3, <2>1, <2>3 DEF UnitsOK
  <2> QED
    BY <2>2, <2>3
<1>4. ASSUME NEW k \in Generic, the[k] # 0 PROVE softc[the[k]].conf /\ softc[softc[the[k]].parent].conf
  <2>1. the[k] \in DOMAIN softc /\ softc[the[k]].kind = k /\ softc[the[k]].conf
    BY <1>0, <1>4 DEF TheOK
  <2>2. IsParent(softc, softc[the[k]].parent, k)
    BY <1>0, <2>1 DEF ParentsOK
  <2> QED
    BY <2>1, <2>2 DEF IsParent
<1>5. Cardinality(enabled \cap Timers) <= 1
  <2> DEFINE T == enabled \cap Timers
  <2>1. \A r, s \in T : r = s
    BY <1>0 DEF EnabledOK, Timers
  <2> HIDE DEF T
  <2>2. T = {} \/ \E x : T = {x}
    BY <2>1
  <2>3. Cardinality(T) = 0 \/ Cardinality(T) = 1
    BY <2>2, FS_EmptySet, FS_Singleton
  <2> QED
    BY <2>3 DEF T
<1>6. \A h \in DOMAIN cram : allcpus[cram[h] + 1] = h
  BY CpusAgree
<1>7. (bpc = "panic" => addfailed # {}) /\ (bpc = "wild" /\ Cardinality(Configured("lser")) = 1 => the.con = 0)
  BY DEF BusInv
<1> QED
  BY <1>1, <1>2, <1>3, <1>4, <1>5, <1>6, <1>7 DEF BusAgrees

\* Whatever fails while the devices are attached and configured, on every machine: slots, soft
\* contexts, handlers, units and the devices in use agree; a panic has a failed config
\* before it; every cpu finds its own struct cpu.
THEOREM BusIsAgreed == busSpec => []BusAgrees
<1>1. busSpec => []BusInv
  BY BusInvInit, BusInvStep, PTL DEF busSpec
<1> QED
  BY <1>1, BusInvAgrees, PTL
=============================================================================
