---------------------------- MODULE MCAddrSpace ----------------------------
(* Instance of AddrSpace for TLC.  All of it at once is out of reach, so a      *)
(* behaviour is of one of two kinds: "memory", with one cpu on which the        *)
(* programs run, the kernel heap's requests and a segment at page 0, or         *)
(* "switching", with the programs and a kernel thread on any cpu.               *)
EXTENDS AddrSpace

VARIABLE kind

OtherCpus == CPU \ {0}

StackPages == UserStack - VM_STACKPAGES .. UserStack - 1

\* The programs stay on cpu 0 and touch their stack only; bound: one container is left.
Memory ==
  /\ curthread[0] \in Program /\ \A c \in OtherCpus : curthread[c] \notin Program
  /\ \A t \in Thread : fault[t] \in {NONE} \cup StackPages
  /\ mem.nodes < MAX_NODES

\* The kernel heap asks for nothing, no segment is at page 0 and no load fails.
Switching ==
  /\ kheap = {}
  /\ \A t \in Thread : stage[t] # "failed"
  /\ \A t \in Thread : t_addrspace[t] # NONE =>
       \A i \in Region : t_addrspace[t].npages[i] # 0 => t_addrspace[t].vbase[i] # 0

Stays == IF kind = "memory" THEN Memory ELSE Switching

vmInit == Init /\ kind \in {"memory", "switching"} /\ Stays
vmNext == Next /\ UNCHANGED kind /\ Stays'

vmSpec == vmInit /\ [][vmNext]_<<vars, kind>>

Symmetry == Permutations(Program) \cup Permutations(Thread \ Program)

=============================================================================
