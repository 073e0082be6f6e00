---------------------------- MODULE MCPrograms ----------------------------
(* Instances for TLC of the parts that are programs or libraries of their own,  *)
(* or parts of the kernel that share no state with each other.  A behaviour is  *)
(* one of them, which sys names; the others stay as they are.                   *)
EXTENDS Kmalloc, Malloc, Heap, BlockingQueue, FGrep, Millicode, Libc, Emufs, Knowndevs, Trap,
        Psort, Shell, Menu, Lamebus, Clock, Dumbvm

VARIABLE sys

RawOfValue == [n \in DevName |-> IF n = "lhd0" THEN "lhd0raw" ELSE n \o "raw"]
ArgsValue == {0, 7, 15, -1, -16}
LongArgsValue == {0, 511, -1, -512}
\* Three cards of the kinds that have devices of their own, or three of the others.
Card(kinds) == [BusSlot \ {LB_CONTROLLER_SLOT} -> kinds]
MachinesValue ==
  {[s \in BusSlot |-> IF s = LB_CONTROLLER_SLOT THEN "none" ELSE cards[s]] :
     cards \in Card({"ltimer", "lrandom", "lser"}) \cup Card({"none", "emu", "lhd", "ltrace"})}
CpuBoardsValue == {[mask |-> {0, 1, 2}, self |-> 0], [mask |-> {0, 2, 3}, self |-> 2]}

\* Two programs that fit, one with a file longer than its memory, one with more pages than
\* the TLB has entries; one segment only;
\* page 0 and a kernel address; three segments; one whose size wraps.
Seg(v, m, f) == [vaddr |-> v, memsz |-> m, filesz |-> f]
DumbProgramsValue ==
  {<<Seg(2, 2, 5), Seg(9, 1, 0)>>, <<Seg(2, 6, 6), Seg(8, 2, 1)>>, <<Seg(2, 2, 0)>>,
   <<Seg(0, 2, 0), Seg(2, 2, 2), Seg(16, 2, 2)>>,
   <<Seg(2, 2, 0), Seg(4, 2, 0), Seg(8, 2, 0)>>, <<Seg(2, 29, 0), Seg(8, 2, 2)>>}

Parts == {"kmalloc", "malloc", "heap", "queue", "grep", "millicode", "libc", "emufs",
          "devices", "trap", "psort", "shell", "menu", "bus", "clock", "dumbvm"}

ProgramsInit ==
  /\ sys \in Parts
  /\ Init /\ mallocInit /\ queueInit /\ libcInit /\ kdInit /\ shInit /\ clockInit /\ dumbInit
  /\ psortInit /\ (sys # "psort"     => numkeys = Max(KeyCounts))
  /\ heapInit  /\ (sys # "heap"      => policy = "first_fit" /\ defrags)
  /\ grepInit  /\ (sys # "grep"      => contains = [f \in GFile |-> FALSE])
  /\ milliInit /\ (sys # "millicode" => ma = 0)
  /\ emuInit   /\ (sys # "emufs"     => hostFiles = {})
  /\ trapInit  /\ (sys # "trap"      => curthread = 1)
  /\ menuInit  /\ (sys # "menu"      => commands = <<>>)
  /\ lamebus_init /\ (sys # "bus"    => board.self = 0 /\ \A s \in BusSlot : machine[s] = "none")

Kernel == <<vars, emuVars, kdVars, trapVars>>
Library == <<mallocVars, milliVars, libcVars>>
Labs == <<heapVars, queueVars, grepVars>>
User == <<psortVars, shVars>>
Boot == <<menuVars, busVars, clockVars, dumbVars>>

\* KernelHeapIsWhole promises nothing after a race; run kmalloc_race goes on.
HeapNext == ~raced /\ Next

ProgramsNext ==
  \/ sys = "kmalloc"   /\ HeapNext   /\ UNCHANGED <<sys, emuVars, kdVars, trapVars, Library, Labs, User, Boot>>
  \/ sys = "emufs"     /\ emuNext    /\ UNCHANGED <<sys, vars, kdVars, trapVars, Library, Labs, User, Boot>>
  \/ sys = "devices"   /\ kdNext     /\ UNCHANGED <<sys, vars, emuVars, trapVars, Library, Labs, User, Boot>>
  \/ sys = "trap"      /\ trapNext   /\ UNCHANGED <<sys, vars, emuVars, kdVars, Library, Labs, User, Boot>>
  \/ sys = "malloc"    /\ mallocNext /\ UNCHANGED <<sys, Kernel, milliVars, libcVars, Labs, User, Boot>>
  \/ sys = "millicode" /\ milliNext  /\ UNCHANGED <<sys, Kernel, mallocVars, libcVars, Labs, User, Boot>>
  \/ sys = "libc"      /\ libcNext   /\ UNCHANGED <<sys, Kernel, mallocVars, milliVars, Labs, User, Boot>>
  \/ sys = "heap"      /\ heapNext   /\ UNCHANGED <<sys, Kernel, Library, queueVars, grepVars, User, Boot>>
  \/ sys = "queue"     /\ queueNext  /\ UNCHANGED <<sys, Kernel, Library, heapVars, grepVars, User, Boot>>
  \/ sys = "grep"      /\ grepNext   /\ UNCHANGED <<sys, Kernel, Library, heapVars, queueVars, User, Boot>>
  \/ sys = "psort"     /\ psortNext  /\ UNCHANGED <<sys, Kernel, Library, Labs, shVars, Boot>>
  \/ sys = "shell"     /\ shNext     /\ UNCHANGED <<sys, Kernel, Library, Labs, psortVars, Boot>>
  \/ sys = "menu"      /\ menuNext   /\ UNCHANGED <<sys, Kernel, Library, Labs, User, busVars, clockVars, dumbVars>>
  \/ sys = "bus"       /\ busNext    /\ UNCHANGED <<sys, Kernel, Library, Labs, User, menuVars, clockVars, dumbVars>>
  \/ sys = "clock"     /\ clockNext  /\ UNCHANGED <<sys, Kernel, Library, Labs, User, menuVars, busVars, dumbVars>>
  \/ sys = "dumbvm"    /\ dumbNext   /\ UNCHANGED <<sys, Kernel, Library, Labs, User, menuVars, busVars, clockVars>>

ProgramsSpec == ProgramsInit /\ [][ProgramsNext]_<<sys, Kernel, Library, Labs, User, Boot>>

Symmetry == Permutations(Thread)
=============================================================================
