------------------------------ MODULE MCThread ------------------------------
(* Instances of Thread for TLC. *)
EXTENDS Thread, TLC

Symmetry == Permutations(Thread)

\* For liveness: a fixed set of threads that never exit, and (the specification
\* being symmetric in Thread) one assignment of the boot threads to the cpus.
LiveInit ==
  Init /\ curthread = CHOOSE f \in [CPU -> Thread] : \A c, d \in CPU : f[c] = f[d] => c = d
LiveNext == Next /\ \A t \in Thread : t_state'[t] # "zombie"
LiveSpec == LiveInit /\ [][LiveNext]_vars /\ Fairness

\* The threads being alike, one of them stands for all.
ReadyThreadRuns == Runs(CHOOSE t \in Thread : TRUE)

=============================================================================
