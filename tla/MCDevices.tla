----------------------------- MODULE MCDevices -----------------------------
(* Instances of Ipi, Lhd and Console for TLC.  They share no state, so a        *)
(* behaviour is one of the three; the other two stay as they are.               *)
EXTENDS Ipi, Lhd, Console, TLC

VARIABLE sys    \* "ipi", "disk" or "console"

IpiIdle == Init /\ \A c \in CPU : ~work[c]
ConsoleIdle == conInit /\ \A t \in Caller : cpc[t] = "out"

DevInit ==
  \/ sys = "ipi"     /\ Init /\ lhdInit /\ ConsoleIdle
  \/ sys = "disk"    /\ IpiIdle /\ lhdInit /\ ConsoleIdle
  \/ sys = "console" /\ IpiIdle /\ lhdInit /\ conInit

DevNext ==
  \/ sys = "ipi"     /\ Next    /\ UNCHANGED <<sys, lhdVars, conVars>>
  \/ sys = "disk"    /\ lhdNext /\ UNCHANGED <<sys, vars, conVars>>
  \/ sys = "console" /\ conNext /\ UNCHANGED <<sys, vars, lhdVars>>

DevSpec == DevInit /\ [][DevNext]_<<sys, vars, lhdVars, conVars>>

Symmetry == Permutations(Mapping)
=============================================================================
