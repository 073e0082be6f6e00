------------------------------- MODULE Dumbvm -------------------------------
(***************************************************************************)
(* The memory of a kernel configured with "options dumbvm" (ASST0 to 2):   *)
(* kern/arch/mips/vm/dumbvm.c on ram_stealmem of ram.c, and how runprogram,*)
(* load_elf, thread_switch and thread_exit use it, on one cpu.             *)
(*                                                                         *)
(* Addresses are numbers below ADDRESSES, where they wrap, as are sizes; a page *)
(* of memory holds the mark of who wrote it last.                          *)
(***************************************************************************)
EXTENDS Integers, Sequences, FiniteSets, SequencesExt

CONSTANTS PGSIZE,             \* PAGE_SIZE
          ADDRESSES,               \* the number of addresses
          USERSTACK,          \* end of the user's addresses
          DUMBVM_STACKPAGES,
          NUM_TLB,
          FirstFree,          \* end of the kernel's image
          RamSize,
          DumbThread,         \* threads that run a program each
          DumbPrograms,       \* executables: sequences of segments
          Touched,            \* pages programs store to
          MaxKpages           \* bound: pages the kernel has

VARIABLES
  firstpaddr,   \* ram.c
  space,        \* t_addrspace of each thread
  stage,        \* where it is in runprogram
  prog,         \* the executable it runs
  loadat,       \* its place in the segments, then in the pages load_segment writes to
  dcur,         \* curthread
  dtlb,         \* the valid TLB entries: pairs of pages
  ram,          \* the mark on each page of memory
  kpages,       \* pages of the kernel heap
  wrote,        \* the mark each program expects on each of its pages
  died          \* how the kernel came to its end, if it did

dumbVars == <<firstpaddr, space, stage, prog, loadat, dcur, dtlb, ram, kpages, wrote, died>>
progVars == <<prog, wrote>>

JUNK == -1
ZERO == 0
KERNEL == -2
NoFrame == -1

wrap(n) == n % ADDRESSES
page_frame(a) == a - (a % PGSIZE)
Frames == {f \in 0 .. RamSize - 1 : f % PGSIZE = 0}
UserPages == {v \in 0 .. USERSTACK - 1 : v % PGSIZE = 0}

Segments == [vaddr : 0 .. ADDRESSES - 1, memsz : 0 .. ADDRESSES - 1, filesz : 0 .. ADDRESSES - 1]

\* The kernel reaches memory through kseg0: memory is far less than half of the addresses.
ASSUME DumbvmAssumption ==
  /\ {PGSIZE, ADDRESSES, USERSTACK, DUMBVM_STACKPAGES, NUM_TLB, FirstFree, RamSize, MaxKpages} \subseteq Nat
  /\ PGSIZE > 0 /\ USERSTACK % PGSIZE = 0 /\ FirstFree % PGSIZE = 0
  /\ 0 < FirstFree /\ FirstFree <= RamSize /\ 2 * RamSize < ADDRESSES
  /\ 0 < DUMBVM_STACKPAGES /\ DUMBVM_STACKPAGES * PGSIZE <= USERSTACK /\ USERSTACK < ADDRESSES
  /\ DumbThread # {}
  /\ DumbPrograms \subseteq Seq(Segments)
  /\ Touched \subseteq UserPages

as_create == [vbase1 |-> 0, npages1 |-> 0, pbase1 |-> 0,
              vbase2 |-> 0, npages2 |-> 0, pbase2 |-> 0, stackpbase |-> 0]

dumbInit ==
  /\ firstpaddr = FirstFree
  /\ space = [t \in DumbThread |-> as_create]
  /\ stage = [t \in DumbThread |-> "new"]
  /\ prog = [t \in DumbThread |-> <<>>]
  /\ loadat = [t \in DumbThread |-> 1]
  /\ dcur = CHOOSE t \in DumbThread : TRUE
  /\ dtlb = {}
  /\ ram = [f \in Frames |-> IF f < FirstFree THEN KERNEL ELSE JUNK]
  /\ kpages = {f \in Frames : f < FirstFree}
  /\ wrote = [t \in DumbThread |-> [v \in UserPages |-> ZERO]]
  /\ died = "no"

\* t_addrspace # NULL.
HasSpace(t) == stage[t] \notin {"new", "dead"}

Runs(t, s) == died = "no" /\ dcur = t /\ stage[t] = s
dumbGoto(t, s) == stage' = [stage EXCEPT ![t] = s]
dies(why) == died' = why /\ UNCHANGED <<stage, loadat, dtlb>>

-----------------------------------------------------------------------------
(* ram.c *)

\* What ram_stealmem returns and leaves, from a given firstpaddr.
ram_stealmem(first, npages) ==
  LET size == wrap(npages * PGSIZE)
  IN  IF wrap(first + size) > RamSize
      THEN [paddr |-> 0, first |-> first, over |-> FALSE]
      ELSE [paddr |-> first, first |-> wrap(first + size), over |-> first + size >= ADDRESSES]

\* alloc_kpages; the kernel writes to the page, and free_kpages would do nothing.
alloc_kpages ==
  LET got == ram_stealmem(firstpaddr, 1)
  IN  /\ died = "no"
      /\ Cardinality(kpages) < MaxKpages
      /\ got.paddr # 0
      /\ firstpaddr' = got.first
      /\ kpages' = kpages \cup {got.paddr}
      /\ ram' = [ram EXCEPT ![got.paddr] = KERNEL]
      /\ UNCHANGED <<space, stage, prog, loadat, dcur, dtlb, wrote, died>>

-----------------------------------------------------------------------------
(* Switching *)

as_activate == dtlb' = {}

\* Faulty variant: the entries of the program before stay.
KeepsTlb(t) ==
  /\ died = "no"
  /\ t # dcur
  /\ stage[t] # "dead"
  /\ dcur' = t
  /\ UNCHANGED <<firstpaddr, space, stage, prog, loadat, dtlb, ram, kpages, wrote, died>>

switch_to(t) ==
  /\ died = "no"
  /\ t # dcur
  /\ stage[t] # "dead"
  /\ dcur' = t
  /\ dtlb' = IF HasSpace(t) THEN {} ELSE dtlb
  /\ UNCHANGED <<firstpaddr, space, stage, prog, loadat, ram, kpages, wrote, died>>

\* thread_exit: as_destroy gives no page back.
thread_exits(t) ==
  /\ Runs(t, "failed") \/ Runs(t, "run")
  /\ space' = [space EXCEPT ![t] = as_create]
  /\ as_activate
  /\ dumbGoto(t, "dead")
  /\ prog' = [prog EXCEPT ![t] = <<>>]
  /\ loadat' = [loadat EXCEPT ![t] = 1]
  /\ wrote' = [wrote EXCEPT ![t] = [v \in UserPages |-> ZERO]]
  /\ UNCHANGED <<firstpaddr, dcur, ram, kpages, died>>

-----------------------------------------------------------------------------
(* Loading a program *)

\* as_create finds no memory, and the thread exits with no address space.
NoSpaceFor(t) ==
  /\ Runs(t, "new")
  /\ dumbGoto(t, "dead")
  /\ UNCHANGED <<firstpaddr, space, prog, loadat, dcur, dtlb, ram, kpages, wrote, died>>

runs_program(t) ==
  /\ Runs(t, "new")
  /\ \E p \in DumbPrograms : prog' = [prog EXCEPT ![t] = p]
  /\ as_activate
  /\ dumbGoto(t, "define")
  /\ UNCHANGED <<firstpaddr, space, loadat, dcur, ram, kpages, wrote, died>>

\* The pages of a region, and where it starts.
RegionOf(vaddr, sz) ==
  [vbase |-> page_frame(vaddr), npages |-> page_frame(wrap(sz + (vaddr % PGSIZE) + PGSIZE - 1)) \div PGSIZE]

\* Region 1, or region 2 once that is somewhere; for a third there is no room.
as_define_region(as, seg) ==
  LET r == RegionOf(seg.vaddr, seg.memsz)
  IN  IF as.vbase1 = 0 THEN [as EXCEPT !.vbase1 = r.vbase, !.npages1 = r.npages]
      ELSE IF as.vbase2 = 0 THEN [as EXCEPT !.vbase2 = r.vbase, !.npages2 = r.npages]
      ELSE as

RegionLeft(as) == as.vbase1 = 0 \/ as.vbase2 = 0

\* The first loop of load_elf, which reads the headers of the segments one by one; it ends
\* at one there is no room for (EUNIMP).
DefineSegment(t) ==
  /\ Runs(t, "define")
  /\ \/ /\ loadat[t] <= Len(prog[t])
        /\ RegionLeft(space[t])
        /\ space' = [space EXCEPT ![t] = as_define_region(@, prog[t][loadat[t]])]
        /\ loadat' = [loadat EXCEPT ![t] = @ + 1]
        /\ UNCHANGED stage
     \/ /\ loadat[t] <= Len(prog[t])
        /\ ~RegionLeft(space[t])
        /\ dumbGoto(t, "failed")
        /\ UNCHANGED <<space, loadat>>
     \/ /\ loadat[t] > Len(prog[t])
        /\ loadat' = [loadat EXCEPT ![t] = 1]
        /\ dumbGoto(t, "pbase1")
        /\ UNCHANGED space
  /\ UNCHANGED <<firstpaddr, dcur, dtlb, ram, kpages, progVars, died>>

\* What as_prepare_load asks getppages for, and what comes after.
Asked(as) == [pbase1     |-> [npages |-> as.npages1, next |-> "pbase2"],
              pbase2     |-> [npages |-> as.npages2, next |-> "stackpbase"],
              stackpbase |-> [npages |-> DUMBVM_STACKPAGES, next |-> "zero"]]

\* One call of getppages.  A region whose end wraps has memory that is not the program's;
\* what comes of it is not modelled.
getppages(t, base) ==
  LET ask == Asked(space[t])[base]
      got == ram_stealmem(firstpaddr, ask.npages)
  IN  /\ Runs(t, base)
      /\ space' = [space EXCEPT ![t] = [@ EXCEPT ![base] = got.paddr]]
      /\ firstpaddr' = got.first
      /\ died' = IF got.over THEN "overrun" ELSE died
      /\ dumbGoto(t, IF got.paddr = 0 THEN "failed" ELSE ask.next)
      /\ UNCHANGED <<loadat, dcur, dtlb, ram, kpages, progVars>>

\* The pages as_prepare_load has got, region by region.
Areas(as) == {<<as.pbase1, as.npages1 * PGSIZE>>, <<as.pbase2, as.npages2 * PGSIZE>>,
              <<as.stackpbase, DUMBVM_STACKPAGES * PGSIZE>>}
InAreas(as, f) == \E a \in Areas(as) : a[1] <= f /\ f < a[1] + a[2]

\* as_prepare_load ends.
as_zero_region(t) ==
  /\ Runs(t, "zero")
  /\ ram' = [f \in Frames |-> IF InAreas(space[t], f) THEN ZERO ELSE ram[f]]
  /\ dumbGoto(t, "load")
  /\ UNCHANGED <<firstpaddr, space, loadat, dcur, dtlb, kpages, progVars, died>>

-----------------------------------------------------------------------------
(* Faults *)

\* The page of memory vm_fault finds for a page of the user's.
FrameOf(as, v) ==
  LET in(base, npages) == base <= v /\ v < wrap(base + npages * PGSIZE)
      stackbase == USERSTACK - DUMBVM_STACKPAGES * PGSIZE
  IN  IF in(as.vbase1, as.npages1) THEN v - as.vbase1 + as.pbase1
      ELSE IF in(as.vbase2, as.npages2) THEN v - as.vbase2 + as.pbase2
      ELSE IF stackbase <= v THEN v - stackbase + as.stackpbase
      ELSE NoFrame

\* The assertions of vm_fault.
ProperlySetUp(as) == \A field \in DOMAIN as : as[field] # 0

Cached(v) == \E e \in dtlb : e[1] = v

\* vm_fault; on EFAULT the caller does something of its own.
vm_fault(t, v, Efault) ==
  LET f == FrameOf(space[t], v)
  IN  /\ ~Cached(v)
      /\ IF ~ProperlySetUp(space[t]) THEN dies("assertion")
         ELSE IF f = NoFrame \/ Cardinality(dtlb) = NUM_TLB THEN Efault
         ELSE dtlb' = dtlb \cup {<<v, f>>} /\ UNCHANGED <<stage, loadat, died>>
      /\ UNCHANGED <<firstpaddr, space, dcur, ram, kpages, progVars>>

\* A store to a page with a TLB entry.
Store(t, v) ==
  /\ \E e \in dtlb : e[1] = v /\ ram' = [ram EXCEPT ![e[2]] = t]
  /\ wrote' = [wrote EXCEPT ![t][v] = t]
  /\ UNCHANGED <<firstpaddr, space, prog, dcur, dtlb, kpages, died>>

\* The bytes load_segment reads: no more than the segment has in memory.
FileBytes(seg) == IF seg.filesz > seg.memsz THEN seg.memsz ELSE seg.filesz

\* The pages load_segment writes to, segment by segment.
LoadPages(p) ==
  FlattenSeq([i \in DOMAIN p |->
    [j \in 1 .. RegionOf(p[i].vaddr, FileBytes(p[i])).npages |-> wrap(page_frame(p[i].vaddr) + (j - 1) * PGSIZE)]])

\* load_segment, through copyout, which catches a fault and checks for kernel addresses.
LoadFault(t) ==
  LET v == LoadPages(prog[t])[loadat[t]]
  IN  /\ Runs(t, "load")
      /\ loadat[t] <= Len(LoadPages(prog[t]))
      /\ IF v \in UserPages
         THEN vm_fault(t, v, dumbGoto(t, "failed") /\ UNCHANGED <<loadat, dtlb, died>>)
         ELSE /\ dumbGoto(t, "failed")
              /\ UNCHANGED <<firstpaddr, space, loadat, dcur, dtlb, ram, kpages, progVars, died>>

LoadStore(t) ==
  /\ Runs(t, "load")
  /\ loadat[t] <= Len(LoadPages(prog[t]))
  /\ Store(t, LoadPages(prog[t])[loadat[t]])
  /\ loadat' = [loadat EXCEPT ![t] = @ + 1]
  /\ UNCHANGED stage

\* runprogram stores the arguments on the stack, where a fault it cannot have is fatal.
ArgsPage == USERSTACK - PGSIZE

ArgsFault(t) ==
  /\ Runs(t, "load")
  /\ loadat[t] > Len(LoadPages(prog[t]))
  /\ vm_fault(t, ArgsPage, dies("kernel fault"))

ArgsStore(t) ==
  /\ Runs(t, "load")
  /\ loadat[t] > Len(LoadPages(prog[t]))
  /\ Store(t, ArgsPage)
  /\ dumbGoto(t, "run")
  /\ loadat' = [loadat EXCEPT ![t] = 1]

\* The program: a fault vm_fault does not mend stops the kernel (kill_curthread).
UserFault(t, v) ==
  /\ Runs(t, "run")
  /\ vm_fault(t, v, dies("killed"))

UserStore(t, v) ==
  /\ Runs(t, "run")
  /\ Store(t, v)
  /\ UNCHANGED <<stage, loadat>>

-----------------------------------------------------------------------------
(* as_copy, which nothing calls as long as there is no fork: the copy is given to a *)
(* thread that has no program yet.                                                  *)

\* Where the copy of page f of an address space is read from.
Original(old, new, f) ==
  IF new.pbase1 <= f /\ f < new.pbase1 + new.npages1 * PGSIZE THEN f - new.pbase1 + old.pbase1
  ELSE IF new.pbase2 <= f /\ f < new.pbase2 + new.npages2 * PGSIZE THEN f - new.pbase2 + old.pbase2
  ELSE f - new.stackpbase + old.stackpbase

as_copy(t, child) ==
  LET old == space[t]
      one == ram_stealmem(firstpaddr, old.npages1)
      two == ram_stealmem(one.first, old.npages2)
      three == ram_stealmem(two.first, DUMBVM_STACKPAGES)
      new == [old EXCEPT !.pbase1 = one.paddr, !.pbase2 = two.paddr, !.stackpbase = three.paddr]
  IN  /\ Runs(t, "run")
      /\ stage[child] = "new"
      /\ firstpaddr' = IF one.paddr = 0 THEN firstpaddr ELSE IF two.paddr = 0 THEN one.first ELSE three.first
      /\ IF 0 \in {one.paddr, two.paddr, three.paddr}
         THEN UNCHANGED <<ram, space, stage, progVars>>
         ELSE /\ ram' = [f \in Frames |->
                           IF InAreas(new, f) THEN ram[Original(old, new, f)] ELSE ram[f]]
              /\ space' = [space EXCEPT ![child] = new]
              /\ dumbGoto(child, "run")
              /\ prog' = [prog EXCEPT ![child] = prog[t]]
              /\ wrote' = [wrote EXCEPT ![child] = wrote[t]]
      /\ UNCHANGED <<loadat, dcur, dtlb, kpages, died>>

dumbNext ==
  \/ alloc_kpages
  \/ \E t \in DumbThread : switch_to(t)
  \/ \E t \in DumbThread :
       \/ NoSpaceFor(t)
       \/ runs_program(t)
       \/ DefineSegment(t)
       \/ \E base \in {"pbase1", "pbase2", "stackpbase"} : getppages(t, base)
       \/ as_zero_region(t)
       \/ LoadFault(t)
       \/ LoadStore(t)
       \/ ArgsFault(t)
       \/ ArgsStore(t)
       \/ \E v \in Touched : UserFault(t, v) \/ UserStore(t, v)
       \/ \E child \in DumbThread : as_copy(t, child)
       \/ thread_exits(t)

dumbSpec == dumbInit /\ [][dumbNext]_dumbVars

-----------------------------------------------------------------------------
(* Properties *)

\* An executable of two segments with something in them, none on page 0.
Ordinary(p) ==
  /\ Len(p) = 2
  /\ \A i \in 1 .. 2 : page_frame(p[i].vaddr) # 0 /\ RegionOf(p[i].vaddr, p[i].memsz).npages > 0

\* Every program has on each of its pages what it wrote there last, or the parent it was
\* copied from, or zero, whatever other programs and the kernel heap do; the TLB holds only
\* the pages of the program that runs; the kernel's pages are the kernel's; and executables
\* of two segments off page 0 never reach an assertion of vm_fault.  (A segment so large
\* that ram_stealmem's sum wraps is the exception.)
ProgramsKeepTheirMemory ==
  died # "overrun" =>
    /\ \A f \in kpages : ram[f] = KERNEL
    /\ \A t \in DumbThread : stage[t] \in {"load", "run"} =>
         \A v \in UserPages :
           FrameOf(space[t], v) # NoFrame => ram[FrameOf(space[t], v)] = wrote[t][v]
    /\ HasSpace(dcur) => \A e \in dtlb : e[2] = FrameOf(space[dcur], e[1])
    /\ died = "assertion" => ~Ordinary(prog[dcur])
=============================================================================
