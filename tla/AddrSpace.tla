----------------------------- MODULE AddrSpace -----------------------------
(***************************************************************************)
(* User address spaces on top of the page allocator: kern/vm/addrspace.c,  *)
(* vm_fault of kern/arch/mips/vm/vm.c and the paths that use them, from    *)
(* runprogram and load_elf to thread_exit and thread_switch.               *)
(*                                                                         *)
(* The processes are threads; a thread acts while it is the current thread *)
(* of a cpu.  One step is one call of the allocator, of as_activate or of  *)
(* vm_fault, so threads interleave between these calls (a thread is        *)
(* preempted, or another cpu runs) but not within alloc_ppages or          *)
(* free_ppages, which nothing in the code excludes.                        *)
(*                                                                         *)
(* Pages are numbers.  The regions of an address space are 1 (code),       *)
(* 2 (data) and 3 (stack).                                                 *)
(***************************************************************************)
EXTENDS PhysMem

CONSTANTS NumCpus,
          Thread,
          Program,         \* the threads that call runprogram, the others are kernel threads
          NONE,            \* NULL
          VBase,           \* virtual pages at which an executable's segments start
          SegPages,        \* sizes of its segments
          VM_STACKPAGES,   \* pages of user stack
          UserStack,       \* the virtual page the stack ends at
          Touched,         \* virtual pages programs touch
          NUM_TLB,         \* entries of the TLB
          KernelPages,     \* sizes the kernel heap asks for
          MaxKernelBlocks  \* bound: blocks the kernel heap holds at once

CPU == 0 .. NumCpus - 1
Region == 1 .. 3
VAddr == 0 .. UserStack - 1
PBase == [Region -> {0} \cup Page]
AsType == [vbase : [Region -> Nat], npages : [Region -> Nat], pbase : PBase]

ASSUME AddrSpaceAssumption ==
  /\ NumCpus \in Nat \ {0}
  /\ Program \subseteq Thread
  /\ VBase \subseteq VAddr /\ Touched \subseteq VAddr
  /\ SegPages \subseteq Nat /\ KernelPages \subseteq Nat
  /\ UserStack \in Nat /\ VM_STACKPAGES \in 1 .. UserStack
  /\ {NUM_TLB, MaxKernelBlocks} \subseteq Nat
  /\ NONE \notin Thread \cup VAddr /\ NONE \notin AsType /\ NONE \notin PBase

VARIABLES
  mem,          \* the memory_t
  kheap,        \* addresses of the pages the kernel heap got from alloc_kpages
  stage,        \* where each thread is: see Stage
  region,       \* the region as_prepare_load or as_destroy comes to next
  t_addrspace,  \* t_addrspace
  dying,        \* the physical pages of the address space thread_exit is destroying
  fault,        \* the address whose TLB miss the thread is handling
  curthread,    \* the current thread of each cpu
  tlb           \* the valid TLB entries of each cpu: pairs of virtual and physical page

vars == <<mem, kheap, stage, region, t_addrspace, dying, fault, curthread, tlb>>

Stage == {"kernel",    \* no address space
          "activate",  \* runprogram has called as_create
          "elf",       \* load_elf reads the program headers
          "prepare",   \* in as_prepare_load
          "load",      \* load_segment and the arguments: the kernel touches user pages
          "user",      \* in the program
          "failed",    \* runprogram returns an error, and the thread will exit
          "flush",     \* thread_exit has cleared t_addrspace
          "destroy"}   \* in as_destroy

Init ==
  /\ mem = vm_bootstrap
  /\ kheap = {}
  /\ stage = [t \in Thread |-> "kernel"]
  /\ region = [t \in Thread |-> 1]
  /\ t_addrspace = [t \in Thread |-> NONE]
  /\ dying = [t \in Thread |-> NONE]
  /\ fault = [t \in Thread |-> NONE]
  /\ curthread \in {f \in [CPU -> Thread] : \A c, d \in CPU : f[c] = f[d] => c = d}
  /\ tlb = [c \in CPU |-> {}]

At(c, t, s) == ~mem.down /\ curthread[c] = t /\ stage[t] = s
Goto(t, s) == stage' = [stage EXCEPT ![t] = s]
panic == mem' = [mem EXCEPT !.down = TRUE]

-----------------------------------------------------------------------------
(* runprogram and load_elf *)

\* as_create and the assignment to t_addrspace; as_define_region fills in the
\* base and size of the first two regions, the third is fixed.
as_create(c, t) ==
  /\ At(c, t, "kernel")
  /\ t \in Program
  /\ t_addrspace' = [t_addrspace EXCEPT ![t] =
       [vbase |-> <<0, 0, UserStack - VM_STACKPAGES>>,
        npages |-> <<0, 0, VM_STACKPAGES>>, pbase |-> <<0, 0, 0>>]]
  /\ Goto(t, "activate")
  /\ UNCHANGED <<mem, kheap, region, dying, fault, curthread, tlb>>

\* as_activate: every TLB entry of this cpu is invalidated.
as_activate(c, t) ==
  /\ At(c, t, "activate")
  /\ tlb' = [tlb EXCEPT ![c] = {}]
  /\ Goto(t, "elf")
  /\ UNCHANGED <<mem, kheap, region, t_addrspace, dying, fault, curthread>>

\* as_define_region takes the first region whose vbase is still 0; a third
\* segment is EUNIMP.
as_define_region(c, t, vaddr, npages) ==
  /\ At(c, t, "elf")
  /\ \/ \E i \in {1, 2} :
          /\ t_addrspace[t].vbase[i] = 0
          /\ i = 2 => t_addrspace[t].vbase[1] # 0
          /\ t_addrspace' = [t_addrspace EXCEPT ![t].vbase[i] = vaddr,
                                                ![t].npages[i] = npages]
          /\ UNCHANGED stage
     \/ /\ \A i \in {1, 2} : t_addrspace[t].vbase[i] # 0
        /\ Goto(t, "failed")
        /\ UNCHANGED t_addrspace
  /\ UNCHANGED <<mem, kheap, region, dying, fault, curthread, tlb>>

\* load_elf has defined the regions, or gives up on a bad header.
DefinedAll(c, t) ==
  /\ At(c, t, "elf")
  /\ \E s \in {"prepare", "failed"} : Goto(t, s)
  /\ UNCHANGED <<mem, kheap, region, t_addrspace, dying, fault, curthread, tlb>>

\* One allocation of as_prepare_load; when it fails the earlier ones stay.
as_prepare_load(c, t) ==
  LET i == region[t]
      npages == t_addrspace[t].npages[i]
      addr == alloc_addr(mem, npages)
  IN  /\ At(c, t, "prepare")
      /\ mem' = alloc_ppages(mem, npages)
      /\ t_addrspace' = [t_addrspace EXCEPT ![t].pbase[i] = addr]
      /\ \/ addr = 0 /\ Goto(t, "failed") /\ region' = [region EXCEPT ![t] = 1]
         \/ addr # 0 /\ i < 3 /\ region' = [region EXCEPT ![t] = i + 1] /\ UNCHANGED stage
         \/ addr # 0 /\ i = 3 /\ Goto(t, "load") /\ region' = [region EXCEPT ![t] = 1]
      /\ UNCHANGED <<kheap, dying, fault, curthread, tlb>>

\* The segments and the arguments are in place, or could not be read.
LoadDone(c, t) ==
  /\ At(c, t, "load")
  /\ fault[t] = NONE
  /\ \E s \in {"user", "failed"} : Goto(t, s)
  /\ UNCHANGED <<mem, kheap, region, t_addrspace, dying, fault, curthread, tlb>>

-----------------------------------------------------------------------------
(* Page faults *)

\* Where vm_fault finds a virtual page: the first region that holds it, 0 if none.
Holds(as, i, v) == v \in as.vbase[i] .. as.vbase[i] + as.npages[i] - 1

Translate(as, v) ==
  LET found == {i \in Region : Holds(as, i, v)}
  IN  IF found = {} THEN 0 ELSE as.pbase[Min(found)] + v - as.vbase[Min(found)]

\* The assertions vm_fault makes of the address space.
SetUpProperly(as) == \A i \in Region : 0 \notin {as.vbase[i], as.pbase[i], as.npages[i]}

Mapped(c, v) == \E e \in tlb[c] : e[1] = v

\* A page is touched that the TLB does not hold.  The trap handler may be
\* preempted, and go on on another cpu, before vm_fault masks interrupts.
TlbMiss(c, t, v) ==
  /\ At(c, t, "load") \/ At(c, t, "user")
  /\ fault[t] = NONE
  /\ ~Mapped(c, v)
  /\ fault' = [fault EXCEPT ![t] = v]
  /\ UNCHANGED <<mem, kheap, stage, region, t_addrspace, dying, curthread, tlb>>

Handling(c, t) == ~mem.down /\ curthread[c] = t /\ fault[t] # NONE

\* vm_fault fills a free TLB entry.
VmFaultMaps(c, t) ==
  LET paddr == Translate(t_addrspace[t], fault[t])
  IN  /\ Handling(c, t)
      /\ SetUpProperly(t_addrspace[t])
      /\ paddr # 0
      /\ Cardinality(tlb[c]) < NUM_TLB
      /\ tlb' = [tlb EXCEPT ![c] = @ \cup {<<fault[t], paddr>>}]
      /\ fault' = [fault EXCEPT ![t] = NONE]
      /\ UNCHANGED <<mem, kheap, stage, region, t_addrspace, dying, curthread>>

\* vm_fault returns EFAULT, for a bad address or a full TLB.  In load_segment
\* the program fails to load, in copyin and copyout the caller goes on, in user
\* mode the kernel panics (kill_curthread).
VmFaultFails(c, t) ==
  /\ Handling(c, t)
  /\ SetUpProperly(t_addrspace[t])
  /\ Translate(t_addrspace[t], fault[t]) = 0 \/ Cardinality(tlb[c]) >= NUM_TLB
  /\ fault' = [fault EXCEPT ![t] = NONE]
  /\ \/ stage[t] = "load" /\ Goto(t, "failed") /\ UNCHANGED mem
     \/ stage[t] = "user" /\ panic /\ UNCHANGED stage
     \/ UNCHANGED <<mem, stage>>
  /\ UNCHANGED <<kheap, region, t_addrspace, dying, curthread, tlb>>

\* A failed assertion of vm_fault.
VmFaultPanics(c, t) ==
  /\ Handling(c, t)
  /\ ~SetUpProperly(t_addrspace[t])
  /\ panic
  /\ UNCHANGED <<kheap, stage, region, t_addrspace, dying, fault, curthread, tlb>>

-----------------------------------------------------------------------------
(* thread_exit and thread_switch *)

\* thread_exit: take the address space away from the thread...
thread_exit(c, t) ==
  /\ At(c, t, "failed") \/ At(c, t, "user")
  /\ fault[t] = NONE
  /\ dying' = [dying EXCEPT ![t] = t_addrspace[t].pbase]
  /\ t_addrspace' = [t_addrspace EXCEPT ![t] = NONE]
  /\ Goto(t, "flush")
  /\ UNCHANGED <<mem, kheap, region, fault, curthread, tlb>>

\* ...call as_activate(NULL)...
ExitFlush(c, t) ==
  /\ At(c, t, "flush")
  /\ tlb' = [tlb EXCEPT ![c] = {}]
  /\ Goto(t, "destroy")
  /\ UNCHANGED <<mem, kheap, region, t_addrspace, dying, fault, curthread>>

\* Faulty variant: the stack is forgotten.
DestroyTwo(c, t) ==
  LET i == region[t]
      last == i = 2
  IN  /\ At(c, t, "destroy")
      /\ mem' = free_ppages(mem, dying[t][i])
      /\ region' = [region EXCEPT ![t] = IF last THEN 1 ELSE i + 1]
      /\ dying' = IF last THEN [dying EXCEPT ![t] = NONE] ELSE dying
      /\ IF last THEN Goto(t, "kernel") ELSE UNCHANGED stage
      /\ UNCHANGED <<kheap, t_addrspace, fault, curthread, tlb>>

\* ...and as_destroy, which frees the regions that have pages.
as_destroy(c, t) ==
  LET i == region[t]
      last == i = 3
  IN  /\ At(c, t, "destroy")
      /\ mem' = free_ppages(mem, dying[t][i])
      /\ region' = [region EXCEPT ![t] = IF last THEN 1 ELSE i + 1]
      /\ dying' = IF last THEN [dying EXCEPT ![t] = NONE] ELSE dying
      /\ IF last THEN Goto(t, "kernel") ELSE UNCHANGED stage
      /\ UNCHANGED <<kheap, t_addrspace, fault, curthread, tlb>>

\* Faulty variant: the TLB survives the switch.
SwitchKeepsTlb(c, t) ==
  /\ ~mem.down
  /\ \A d \in CPU : curthread[d] # t
  /\ curthread' = [curthread EXCEPT ![c] = t]
  /\ UNCHANGED <<mem, kheap, stage, region, t_addrspace, dying, fault, tlb>>

\* thread_switch (or thread_startup) to any thread that runs nowhere, migrated
\* or not, with interrupts off until its address space is activated; a thread
\* without one leaves the TLB alone.
thread_switch(c, t) ==
  /\ ~mem.down
  /\ \A d \in CPU : curthread[d] # t
  /\ curthread' = [curthread EXCEPT ![c] = t]
  /\ tlb' = IF t_addrspace[t] # NONE THEN [tlb EXCEPT ![c] = {}] ELSE tlb
  /\ UNCHANGED <<mem, kheap, stage, region, t_addrspace, dying, fault>>

-----------------------------------------------------------------------------
(* The kernel heap *)

\* alloc_kpages turns the 0 of a failed alloc_ppages into the kernel address of
\* physical page 0, which the heap takes for a page of its own.
alloc_kpages(npages) ==
  /\ ~mem.down
  /\ Cardinality(kheap) < MaxKernelBlocks
  /\ mem' = alloc_ppages(mem, npages)
  /\ kheap' = kheap \cup {alloc_addr(mem, npages)}
  /\ UNCHANGED <<stage, region, t_addrspace, dying, fault, curthread, tlb>>

free_kpages(addr) ==
  /\ ~mem.down
  /\ addr \in kheap
  /\ mem' = free_ppages(mem, addr)
  /\ kheap' = kheap \ {addr}
  /\ UNCHANGED <<stage, region, t_addrspace, dying, fault, curthread, tlb>>

-----------------------------------------------------------------------------

Next ==
  \/ \E c \in CPU, t \in Thread :
        \/ as_create(c, t) \/ as_activate(c, t) \/ DefinedAll(c, t)
        \/ \E vaddr \in VBase, npages \in SegPages : as_define_region(c, t, vaddr, npages)
        \/ as_prepare_load(c, t) \/ LoadDone(c, t)
        \/ \E v \in Touched : TlbMiss(c, t, v)
        \/ VmFaultMaps(c, t) \/ VmFaultFails(c, t) \/ VmFaultPanics(c, t)
        \/ thread_exit(c, t) \/ ExitFlush(c, t) \/ as_destroy(c, t)
        \/ thread_switch(c, t)
  \/ \E npages \in KernelPages : alloc_kpages(npages)
  \/ \E addr \in kheap : free_kpages(addr)

Spec == Init /\ [][Next]_vars

-----------------------------------------------------------------------------
(* Properties *)

TypeOK ==
  /\ mem \in MemType
  /\ kheap \subseteq {0} \cup Page
  /\ stage \in [Thread -> Stage]
  /\ region \in [Thread -> Region]
  /\ t_addrspace \in [Thread -> AsType \cup {NONE}]
  /\ dying \in [Thread -> PBase \cup {NONE}]
  /\ fault \in [Thread -> VAddr \cup {NONE}]
  /\ curthread \in [CPU -> Thread]
  /\ tlb \in [CPU -> SUBSET (VAddr \X Page)]

\* The free and the used list tile the memory, whatever the order of requests:
\* sorted, no page in two blocks or in none, free_pages exact; and alloc_ppages
\* fails only when no run of free pages is long enough: freed neighbours always
\* become one block again.
MemoryIsTiled ==
  /\ Tiled(mem)
  /\ \A n \in 1 .. NumPages : alloc_addr(mem, n) # 0 <=> FreeRun(mem, n)

\* The pages address spaces hold: region i of thread t starts at addr.
Holdings ==
  LET live == {t \in Thread : t_addrspace[t] # NONE}
      dead == {t \in Thread : dying[t] # NONE}
  IN  {h \in    {[who |-> <<t, i>>, addr |-> t_addrspace[t].pbase[i]] : t \in live, i \in Region}
         \cup UNION {{[who |-> <<t, i>>, addr |-> dying[t][i]] : i \in region[t] .. 3} : t \in dead} :
         h.addr # 0}

\* No page leaks and none is shared: the used blocks are those of the address
\* spaces (those being destroyed and those that failed to load included) and of
\* the kernel heap, each with one holder and of the size its region has.
PagesHaveOneOwner ==
  ~mem.down =>
    LET used == ToSet(mem.used_blks)
    IN  /\ {b.addr : b \in used} = {h.addr : h \in Holdings} \cup (kheap \ {0})
        /\ \A g, h \in Holdings : g.addr = h.addr => g.who = h.who
        /\ \A h \in Holdings : h.addr \notin kheap
        /\ \A t \in Thread : t_addrspace[t] # NONE => \A i \in Region :
              LET as == t_addrspace[t]
              IN  as.pbase[i] # 0 => Block(as.pbase[i], as.npages[i]) \in used

\* vm_fault never enters a page a second time, which the MIPS TLB does not
\* survive: by the time it writes the entry, whatever happened since the trap,
\* the TLB of the cpu it is then on does not hold the page.
NoDuplicateEntry ==
  \A c \in CPU : fault[curthread[c]] # NONE => ~Mapped(c, fault[curthread[c]])

\* A cpu whose current thread has an address space in use finds in its TLB only
\* pages of that address space: nothing of an earlier thread of the cpu, nothing
\* of what the thread had mapped before it was last switched out; and vm_fault never
\* enters a page twice.
TlbIsCurrent ==
  /\ NoDuplicateEntry
  /\ \A c \in CPU :
       LET as == t_addrspace[curthread[c]]
       IN  as # NONE /\ stage[curthread[c]] # "activate" =>
             \A e \in tlb[c] : e[2] = Translate(as, e[1])

=============================================================================
