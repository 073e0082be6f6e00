------------------------------- MODULE Shell -------------------------------
(***************************************************************************)
(* The shell (user/bin/sh/sh.c) and its table of background jobs.          *)
(* Processes are the kernel's: fork gives a pid that is not in use, a      *)
(* process that has exited keeps its pid until its parent has waited for   *)
(* it, and then the pid may be used again.  The kernel has no processes,   *)
(* so this, and what waitpid does, is taken from how the shell uses it and *)
(* from the manual (man/syscall/waitpid.html): it fails for a pid that is  *)
(* no child's and for no other reason, the special pids of Unix, -1        *)
(* among them, are none here, and a parent is always entitled to its       *)
(* child's status.  After a failure dowait only warns; the slot of the pid,*)
(* if there is one, is cleared all the same.                               *)
(*                                                                         *)
(* Where in its code the shell is: "prompt", "fg" (waiting for a command), *)
(* "wait" (for one pid), "waitall" (for each slot of the table in turn)    *)
(* or "exited".                                                            *)
(* What a command prints, its timing and the line editing are left out.    *)
(***************************************************************************)
EXTENDS Naturals, FiniteSets

CONSTANTS Pid,          \* positive numbers
          MAXBG

ASSUME ShellAssumption == MAXBG \in Nat \ {0} /\ Pid \subseteq Nat \ {0}

Slot == 0 .. MAXBG - 1

VARIABLES
  proc,         \* external: of each pid "free", "run" or "exited"; children of the shell
  bgpids,
  at,           \* where the shell is
  target,       \* the pid or the slot it waits for
  jobs          \* history: pids of background commands nobody has waited for

shVars == <<proc, bgpids, at, target, jobs>>

shInit ==
  /\ proc = [p \in Pid |-> "free"]
  /\ bgpids = [i \in Slot |-> 0]
  /\ at = "prompt"
  /\ target = 0
  /\ jobs = {}

-----------------------------------------------------------------------------

can_bg == \E i \in Slot : bgpids[i] = 0

remember_bg(pid) ==
  LET free == {i \in Slot : bgpids[i] = 0}
  IN  [bgpids EXCEPT ![CHOOSE i \in free : \A j \in free : i <= j] = pid]

\* Faulty variant: the slot of a job that was waited for is kept.
ForgetsNothing(pid) == bgpids
Forget(pid) == [i \in Slot |-> IF bgpids[i] = pid THEN 0 ELSE bgpids[i]]

\* The kernel's waitpid has returned the status of pid.
Reaped(pid) == proc' = [proc EXCEPT ![pid] = "free"] /\ jobs' = jobs \ {pid}

\* waitpoll, after every command: what has exited is collected.  The order does not
\* matter, each pid has a slot of its own.
Polled(table, procs) == {table[i] : i \in {j \in Slot : table[j] # 0 /\ procs[table[j]] = "exited"}}
waitpoll(table, procs, js) ==
  LET gone == Polled(table, procs)
  IN  /\ bgpids' = [i \in Slot |-> IF table[i] \in gone THEN 0 ELSE table[i]]
      /\ proc' = [p \in Pid |-> IF p \in gone THEN "free" ELSE procs[p]]
      /\ jobs' = js \ gone

\* docommand with & : refused with too many jobs (a Builtin here), or a new process.
Background ==
  /\ at = "prompt"
  /\ can_bg
  /\ \E p \in Pid : /\ proc[p] = "free"
                    /\ waitpoll(remember_bg(p), [proc EXCEPT ![p] = "run"], jobs \cup {p})
  /\ UNCHANGED <<at, target>>

\* docommand without & : fork, and waitpid for the child.
Foreground ==
  /\ at = "prompt"
  /\ \E p \in Pid : /\ proc[p] = "free"
                    /\ proc' = [proc EXCEPT ![p] = "run"]
                    /\ target' = p
  /\ at' = "fg"
  /\ UNCHANGED <<bgpids, jobs>>

ForegroundDone ==
  /\ at = "fg"
  /\ proc[target] = "exited"
  /\ waitpoll(bgpids, [proc EXCEPT ![target] = "free"], jobs \ {target})
  /\ at' = "prompt"
  /\ target' = 0

\* wait with a pid, any number.  One that is no child is refused by waitpid.
cmd_wait(p) ==
  /\ at = "prompt"
  /\ at' = "wait"
  /\ target' = p
  /\ UNCHANGED <<proc, bgpids, jobs>>

WaitDone ==
  /\ at = "wait"
  /\ proc[target] \in {"exited", "free"}
  /\ waitpoll(Forget(target), [proc EXCEPT ![target] = "free"], jobs \ {target})
  /\ at' = "prompt"
  /\ target' = 0

\* wait without a pid, one slot after the other.
WaitAll ==
  /\ at = "prompt"
  /\ at' = "waitall"
  /\ target' = 0
  /\ UNCHANGED <<proc, bgpids, jobs>>

WaitSlot ==
  /\ at = "waitall"
  /\ target < MAXBG
  /\ bgpids[target] # 0
  /\ proc[bgpids[target]] = "exited"
  /\ Reaped(bgpids[target])
  /\ bgpids' = [bgpids EXCEPT ![target] = 0]
  /\ target' = target + 1
  /\ UNCHANGED at

SkipSlot ==
  /\ at = "waitall"
  /\ target < MAXBG
  /\ bgpids[target] = 0
  /\ target' = target + 1
  /\ UNCHANGED <<proc, bgpids, at, jobs>>

WaitAllDone ==
  /\ at = "waitall"
  /\ target = MAXBG
  /\ waitpoll(bgpids, proc, jobs)
  /\ at' = "prompt"
  /\ target' = 0

\* A child ends on its own.
ChildExits(p) ==
  /\ proc[p] = "run"
  /\ proc' = [proc EXCEPT ![p] = "exited"]
  /\ UNCHANGED <<bgpids, at, target, jobs>>

\* Builtins that change nothing here (cd, usage errors), empty lines, a command that
\* could not be forked and a job too many: waitpoll only.
Builtin ==
  /\ at = "prompt"
  /\ waitpoll(bgpids, proc, jobs)
  /\ UNCHANGED <<at, target>>

\* Background jobs run on.
cmd_exit ==
  /\ at = "prompt"
  /\ at' = "exited"
  /\ UNCHANGED <<proc, bgpids, target, jobs>>

shNext ==
  \/ Background \/ Foreground \/ ForegroundDone \/ WaitDone \/ WaitAll \/ WaitSlot
  \/ SkipSlot \/ WaitAllDone \/ Builtin \/ cmd_exit
  \/ \E p \in Pid : cmd_wait(p) \/ ChildExits(p)

shSpec == shInit /\ [][shNext]_shVars

-----------------------------------------------------------------------------
(* Properties *)

\* The table has every background job that nobody has waited for, once, and nothing
\* else, whatever order jobs end in, however their pids are used again and
\* however full the table gets; so wait finds them all, and a job never takes the
\* status of another.
JobsAreRemembered ==
  /\ {bgpids[i] : i \in Slot} \ {0} = jobs
  /\ \A i, j \in Slot : bgpids[i] = bgpids[j] /\ bgpids[i] # 0 => i = j
  /\ \A p \in Pid : proc[p] # "free" => p \in jobs \/ (at = "fg" /\ target = p)
=============================================================================
