------------------------------ MODULE VmProofs ------------------------------
(***************************************************************************)
(* The address spaces, for every amount of memory, every policy and any    *)
(* number of threads and cpus: MemoryIsTiled, PagesHaveOneOwner and        *)
(* TlbIsCurrent.                                                           *)
(***************************************************************************)
EXTENDS AddrSpace, PhysMemProofs

-----------------------------------------------------------------------------
(* The invariant of the address spaces *)

\* TypeOK, the memory apart; what the TLBs map to is typed last.
ThreadType ==
  /\ kheap \subseteq {0} \cup Page
  /\ stage \in [Thread -> Stage]
  /\ region \in [Thread -> Region]
  /\ t_addrspace \in [Thread -> AsType \cup {NONE}]
  /\ dying \in [Thread -> PBase \cup {NONE}]
  /\ fault \in [Thread -> VAddr \cup {NONE}]
  /\ curthread \in [CPU -> Thread]
  /\ DOMAIN tlb = CPU

\* What a thread has at each stage of its life.
Shape(t) ==
  /\ t_addrspace[t] = NONE <=> stage[t] \in {"kernel", "flush", "destroy"}
  /\ dying[t] # NONE <=> stage[t] \in {"flush", "destroy"}
  /\ fault[t] # NONE => stage[t] \in {"load", "user"}
  /\ stage[t] \notin {"prepare", "destroy"} => region[t] = 1
  /\ stage[t] \in {"activate", "elf", "prepare"} =>
       \A i \in Region : i >= region[t] => t_addrspace[t].pbase[i] = 0

\* The block region i of thread t holds, 0 if none.
Held(t, i) ==
  IF t_addrspace[t] # NONE THEN t_addrspace[t].pbase[i]
  ELSE IF dying[t] # NONE /\ i >= region[t] THEN dying[t][i] ELSE 0

Holder == [p \in Thread \X Region |-> Held(p[1], p[2])]

UsedAddrs(m) == {b.addr : b \in ToSet(m.used_blks)}

\* Of the used blocks U each has one holder, in H or in K.
Owned(U, H, K) ==
  /\ \A x : x \in U <=> x # 0 /\ (x \in K \/ \E p \in Thread \X Region : H[p] = x)
  /\ \A p, q \in Thread \X Region : H[p] # 0 /\ H[p] = H[q] => p = q
  /\ \A p \in Thread \X Region : H[p] # 0 => H[p] \notin K

Sized(as) ==
  \A i \in Region : as.pbase[i] # 0 => Block(as.pbase[i], as.npages[i]) \in ToSet(mem.used_blks)

OwnInv ==
  ~mem.down => /\ Owned(UsedAddrs(mem), Holder, kheap)
               /\ \A t \in Thread : t_addrspace[t] # NONE => Sized(t_addrspace[t])

VmInv == ThreadType /\ (\A t \in Thread : Shape(t)) /\ MemInv(mem) /\ OwnInv

\* Until it has its pages, a current thread has nothing in the TLB.
TlbInv ==
  /\ \A c, d \in CPU : curthread[c] = curthread[d] => c = d
  /\ \A c \in CPU : stage[curthread[c]] \in {"elf", "prepare"} => tlb[c] = {}
  /\ TlbIsCurrent

-----------------------------------------------------------------------------
(* One holder for each block *)

LEMMA OwnedAlloc ==
  ASSUME NEW U, NEW H \in [Thread \X Region -> Nat], NEW K, Owned(U, H, K),
         NEW p \in Thread \X Region, H[p] = 0, NEW a \in Nat \ {0}, a \notin U
  PROVE  Owned(U \cup {a}, [H EXCEPT ![p] = a], K)
<1> DEFINE G == [H EXCEPT ![p] = a]
<1>1. G[p] = a /\ \A q \in Thread \X Region : q # p => G[q] = H[q]
  OBVIOUS
<1>2. /\ \A x : x \in U <=> x # 0 /\ (x \in K \/ \E q \in Thread \X Region : H[q] = x)
      /\ \A q, r \in Thread \X Region : H[q] # 0 /\ H[q] = H[r] => q = r
      /\ \A q \in Thread \X Region : H[q] # 0 => H[q] \notin K
  BY DEF Owned
<1>3. a \notin K /\ a # 0 /\ \A q \in Thread \X Region : H[q] # a
  BY <1>2
<1> HIDE DEF G
<1>4. ASSUME NEW x
      PROVE  x \in U \cup {a} <=> x # 0 /\ (x \in K \/ \E q \in Thread \X Region : G[q] = x)
  <2>1. CASE x = a
    BY <1>1, <1>3, <2>1
  <2>2. CASE x # a
    <3>1. ASSUME x # 0
          PROVE  (\E q \in Thread \X Region : G[q] = x) <=> (\E q \in Thread \X Region : H[q] = x)
      BY <1>1, <2>2, <3>1
    <3> QED
      BY <1>2, <2>2, <3>1
  <2> QED
    BY <2>1, <2>2
<1>5. \A q, r \in Thread \X Region : G[q] # 0 /\ G[q] = G[r] => q = r
  BY <1>1, <1>2, <1>3
<1>6. \A q \in Thread \X Region : G[q] # 0 => G[q] \notin K
  BY <1>1, <1>2, <1>3
<1> QED
  BY <1>4, <1>5, <1>6 DEF Owned, G

LEMMA OwnedFree ==
  ASSUME NEW U, NEW H \in [Thread \X Region -> Nat], NEW K, Owned(U, H, K),
         NEW p \in Thread \X Region
  PROVE  Owned(U \ {H[p]}, [H EXCEPT ![p] = 0], K)
<1> DEFINE G == [H EXCEPT ![p] = 0]
<1>1. G[p] = 0 /\ \A q \in Thread \X Region : q # p => G[q] = H[q]
  OBVIOUS
<1>2. /\ \A x : x \in U <=> x # 0 /\ (x \in K \/ \E q \in Thread \X Region : H[q] = x)
      /\ \A q, r \in Thread \X Region : H[q] # 0 /\ H[q] = H[r] => q = r
      /\ \A q \in Thread \X Region : H[q] # 0 => H[q] \notin K
  BY DEF Owned
<1> HIDE DEF G
<1>3. ASSUME NEW x
      PROVE  x \in U \ {H[p]} <=> x # 0 /\ (x \in K \/ \E q \in Thread \X Region : G[q] = x)
  <2>1. CASE x = H[p]
    BY <1>1, <1>2, <2>1
  <2>2. CASE x # H[p]
    BY <1>1, <1>2, <2>2
  <2> QED
    BY <2>1, <2>2
<1>4. \A q, r \in Thread \X Region : G[q] # 0 /\ G[q] = G[r] => q = r
  BY <1>1, <1>2
<1>5. \A q \in Thread \X Region : G[q] # 0 => G[q] \notin K
  BY <1>1, <1>2
<1> QED
  BY <1>3, <1>4, <1>5 DEF Owned, G

LEMMA OwnedByHeap ==
  ASSUME NEW U, NEW H, NEW K, Owned(U, H, K), NEW a, a # 0 => a \notin U
  PROVE  Owned(U \cup ({a} \ {0}), H, K \cup {a})
  BY DEF Owned

LEMMA HeapFrees ==
  ASSUME NEW U, NEW H, NEW K, Owned(U, H, K), NEW a \in K
  PROVE  Owned(U \ {a}, H, K \ {a})
  BY DEF Owned

-----------------------------------------------------------------------------
(* What one thread does *)

LEMMA HolderType ==
  ASSUME VmInv
  PROVE  /\ Holder \in [Thread \X Region -> Nat]
         /\ \A t \in Thread, i \in Region : /\ Holder[<<t, i>>] = Held(t, i)
                                            /\ Held(t, i) \in {0} \cup Page
<1>1. /\ t_addrspace \in [Thread -> AsType \cup {NONE}]
      /\ dying \in [Thread -> PBase \cup {NONE}]
  BY DEF VmInv, ThreadType
<1>2. ASSUME NEW t \in Thread, NEW i \in Region PROVE Held(t, i) \in {0} \cup Page
  <2>1. CASE t_addrspace[t] # NONE
    <3>1. t_addrspace[t] \in AsType
      BY <1>1, <2>1
    <3>2. t_addrspace[t].pbase \in PBase
      BY <3>1 DEF AsType
    <3> QED
      BY <2>1, <3>2 DEF Held, PBase
  <2>2. CASE t_addrspace[t] = NONE
    BY <1>1, <2>2 DEF Held, PBase
  <2> QED
    BY <2>1, <2>2
<1>3. \A x \in {0} \cup Page : x \in Nat
  BY PageFacts
<1>4. \A p \in Thread \X Region : Held(p[1], p[2]) \in Nat
  BY <1>2, <1>3
<1> QED
  BY <1>2, <1>4 DEF Holder

\* A step of thread t leaves what the others have alone.
Local(t) ==
  \A s \in Thread : s # t => /\ stage'[s] = stage[s] /\ region'[s] = region[s]
                             /\ t_addrspace'[s] = t_addrspace[s]
                             /\ dying'[s] = dying[s] /\ fault'[s] = fault[s]

LEMMA LocalShape ==
  ASSUME VmInv, NEW t \in Thread, Local(t), Shape(t)'
  PROVE  \A s \in Thread : Shape(s)'
<1> SUFFICES ASSUME NEW s \in Thread, s # t PROVE Shape(s)'
  OBVIOUS
<1>1. Shape(s)
  BY DEF VmInv
<1>2. /\ stage'[s] = stage[s] /\ region'[s] = region[s] /\ t_addrspace'[s] = t_addrspace[s]
      /\ dying'[s] = dying[s] /\ fault'[s] = fault[s]
  BY DEF Local
<1> QED
  BY <1>1, <1>2 DEF Shape

LEMMA LocalHolder ==
  ASSUME NEW t \in Thread, Local(t)
  PROVE  /\ \A s \in Thread, i \in Region : s # t => Held(s, i)' = Held(s, i)
         /\ (\A i \in Region : Held(t, i)' = Held(t, i)) => Holder' = Holder
         /\ \A i \in Region : \A x : Held(t, i)' = x /\ (\A j \in Region : j # i => Held(t, j)' = Held(t, j))
                          => Holder' = [Holder EXCEPT ![<<t, i>>] = x]
<1>1. ASSUME NEW s \in Thread, NEW i \in Region, s # t PROVE Held(s, i)' = Held(s, i)
  BY <1>1 DEF Local, Held
<1>2. \A p \in Thread \X Region : p[1] \in Thread /\ p[2] \in Region /\ p = <<p[1], p[2]>>
  OBVIOUS
<1>3. ASSUME \A i \in Region : Held(t, i)' = Held(t, i) PROVE Holder' = Holder
  <2>1. \A p \in Thread \X Region : Held(p[1], p[2])' = Held(p[1], p[2])
    BY <1>1, <1>2, <1>3
  <2> QED
    BY <2>1 DEF Holder
<1>4. ASSUME NEW i \in Region, NEW x, Held(t, i)' = x,
             \A j \in Region : j # i => Held(t, j)' = Held(t, j)
      PROVE  Holder' = [Holder EXCEPT ![<<t, i>>] = x]
  <2>1. ASSUME NEW p \in Thread \X Region
        PROVE  Held(p[1], p[2])' = IF p = <<t, i>> THEN x ELSE Held(p[1], p[2])
    <3>1. CASE p = <<t, i>>
      BY <1>4, <3>1
    <3>2. CASE p # <<t, i>>
      <4>1. p[1] # t \/ p[2] # i
        BY <1>2, <3>2
      <4> QED
        BY <1>1, <1>2, <1>4, <3>2, <4>1
    <3> QED
      BY <3>1, <3>2
  <2> QED
    BY <2>1 DEF Holder
<1> QED
  BY <1>1, <1>3, <1>4

\* A step that leaves the memory and every holding alone.
LEMMA LocalOwner ==
  ASSUME VmInv, NEW t \in Thread, Local(t), mem' = mem, kheap' = kheap,
         \A i \in Region : Held(t, i)' = Held(t, i),
         t_addrspace'[t] # NONE => Sized(t_addrspace[t])' \/ mem.down
  PROVE  OwnInv' /\ MemInv(mem)'
<1>1. Holder' = Holder
  BY LocalHolder
<1>2. MemInv(mem)'
  BY DEF VmInv
<1>3. ASSUME ~mem.down PROVE Owned(UsedAddrs(mem), Holder, kheap)'
  <2>1. Owned(UsedAddrs(mem), Holder, kheap)
    BY <1>3 DEF VmInv, OwnInv
  <2>2. UsedAddrs(mem)' = UsedAddrs(mem)
    OBVIOUS
  <2> QED
    BY <1>1, <2>1, <2>2 DEF Owned
<1>4. ASSUME ~mem.down, NEW s \in Thread, t_addrspace'[s] # NONE PROVE Sized(t_addrspace[s])'
  <2>1. CASE s = t
    BY <1>4, <2>1
  <2>2. CASE s # t
    <3>1. t_addrspace'[s] = t_addrspace[s]
      BY <2>2 DEF Local
    <3>2. Sized(t_addrspace[s])
      BY <1>4, <3>1 DEF VmInv, OwnInv
    <3> QED
      BY <3>1, <3>2 DEF Sized
  <2> QED
    BY <2>1, <2>2
<1> QED
  BY <1>2, <1>3, <1>4 DEF OwnInv

LEMMA NoneFacts ==
  /\ NONE \notin AsType /\ NONE \notin PBase /\ NONE \notin VAddr
  /\ UserStack \in Nat /\ VM_STACKPAGES \in Nat /\ VM_STACKPAGES <= UserStack
  /\ \A x \in VBase \cup Touched : x \in VAddr /\ x \in Nat
  /\ \A x \in SegPages \cup KernelPages : x \in Nat
<1>1. UserStack \in Nat /\ VM_STACKPAGES \in 1 .. UserStack
  BY AddrSpaceAssumption
<1>2. \A x \in VAddr : x \in Nat
  BY <1>1 DEF VAddr
<1> QED
  BY <1>1, <1>2, AddrSpaceAssumption

LEMMA ThreadFacts ==
  ASSUME VmInv, NEW t \in Thread
  PROVE  /\ stage[t] \in Stage /\ region[t] \in Region
         /\ t_addrspace[t] # NONE => /\ t_addrspace[t] \in AsType
                                     /\ t_addrspace[t].vbase \in [Region -> Nat]
                                     /\ t_addrspace[t].npages \in [Region -> Nat]
                                     /\ t_addrspace[t].pbase \in PBase
         /\ dying[t] # NONE => dying[t] \in PBase
         /\ Shape(t)
<1>1. ThreadType /\ Shape(t)
  BY DEF VmInv
<1>2. t_addrspace[t] # NONE => t_addrspace[t] \in AsType
  BY <1>1 DEF ThreadType
<1>3. dying[t] # NONE => dying[t] \in PBase
  BY <1>1 DEF ThreadType
<1>4. stage[t] \in Stage /\ region[t] \in Region
  BY <1>1 DEF ThreadType
<1> QED
  BY <1>1, <1>2, <1>3, <1>4 DEF AsType

LEMMA StepCreate ==
  ASSUME VmInv, NEW c \in CPU, NEW t \in Thread, as_create(c, t)
  PROVE  VmInv'
<1> DEFINE as == [vbase |-> <<0, 0, UserStack - VM_STACKPAGES>>,
                  npages |-> <<0, 0, VM_STACKPAGES>>, pbase |-> <<0, 0, 0>>]
<1>1. /\ stage[t] = "kernel" /\ t_addrspace' = [t_addrspace EXCEPT ![t] = as]
      /\ stage' = [stage EXCEPT ![t] = "activate"]
      /\ UNCHANGED <<mem, kheap, region, dying, fault, curthread, tlb>>
  BY DEF as_create, At, Goto
<1>2. as \in AsType
  <2>1. UserStack - VM_STACKPAGES \in Nat /\ VM_STACKPAGES \in Nat
    BY NoneFacts
  <2>2. <<0, 0, UserStack - VM_STACKPAGES>> \in [Region -> Nat]
        /\ <<0, 0, VM_STACKPAGES>> \in [Region -> Nat]
    BY <2>1 DEF Region
  <2>3. <<0, 0, 0>> \in PBase
    BY DEF PBase, Region
  <2> QED
    BY <2>2, <2>3 DEF AsType
<1>3. \A i \in Region : as.pbase[i] = 0
  BY DEF Region
<1> HIDE DEF as
<1>4. as # NONE
  BY <1>2, NoneFacts
<1>5. ThreadType'
  BY <1>1, <1>2 DEF VmInv, ThreadType, Stage
<1>6. /\ stage'[t] = "activate" /\ t_addrspace'[t] = as /\ region'[t] = region[t]
      /\ dying'[t] = dying[t] /\ fault'[t] = fault[t]
  BY <1>1 DEF VmInv, ThreadType
<1>7. Local(t)
  BY <1>1 DEF VmInv, ThreadType, Local
<1>8. /\ t_addrspace[t] = NONE /\ dying[t] = NONE /\ fault[t] = NONE /\ region[t] = 1
  BY <1>1, ThreadFacts DEF Shape
<1>9. Shape(t)'
  BY <1>3, <1>4, <1>6, <1>8 DEF Shape
<1>10. \A i \in Region : Held(t, i)' = Held(t, i)
  BY <1>3, <1>4, <1>6, <1>8 DEF Held
<1>11. Sized(t_addrspace[t])'
  BY <1>3, <1>6 DEF Sized
<1> QED
  BY <1>1, <1>5, <1>7, <1>9, <1>10, <1>11, LocalShape, LocalOwner DEF VmInv

\* Steps after which the thread has what it had, at another stage.
LEMMA StepStage ==
  ASSUME VmInv, NEW t \in Thread, NEW s \in Stage,
         stage' = [stage EXCEPT ![t] = s], ThreadType',
         UNCHANGED <<mem, kheap, region, t_addrspace, dying>>,
         \A r \in Thread : r # t => fault'[r] = fault[r],
         Shape(t)'
  PROVE  VmInv'
<1>1. Local(t)
  BY DEF VmInv, ThreadType, Local
<1>2. \A i \in Region : Held(t, i)' = Held(t, i)
  BY DEF Held
<1>3. t_addrspace'[t] # NONE => Sized(t_addrspace[t])' \/ mem.down
  BY DEF VmInv, OwnInv, Sized
<1> QED
  BY <1>1, <1>2, <1>3, LocalShape, LocalOwner DEF VmInv

LEMMA StepActivate ==
  ASSUME VmInv, NEW c \in CPU, NEW t \in Thread, as_activate(c, t)
  PROVE  VmInv'
<1>1. /\ stage[t] = "activate" /\ stage' = [stage EXCEPT ![t] = "elf"]
      /\ tlb' = [tlb EXCEPT ![c] = {}]
      /\ UNCHANGED <<mem, kheap, region, t_addrspace, dying, fault, curthread>>
  BY DEF as_activate, At, Goto
<1>2. ThreadType'
  BY <1>1 DEF VmInv, ThreadType, Stage
<1>3. stage'[t] = "elf"
  BY <1>1 DEF VmInv, ThreadType
<1>4. Shape(t)'
  BY <1>1, <1>3, ThreadFacts DEF Shape
<1> QED
  BY <1>1, <1>2, <1>4, StepStage DEF Stage

LEMMA StepDefined ==
  ASSUME VmInv, NEW c \in CPU, NEW t \in Thread, DefinedAll(c, t)
  PROVE  VmInv'
<1>1. PICK s \in {"prepare", "failed"} : stage' = [stage EXCEPT ![t] = s]
  BY DEF DefinedAll, Goto
<1>2. /\ stage[t] = "elf"
      /\ UNCHANGED <<mem, kheap, region, t_addrspace, dying, fault, curthread, tlb>>
  BY DEF DefinedAll, At
<1>3. ThreadType'
  BY <1>1, <1>2 DEF VmInv, ThreadType, Stage
<1>4. stage'[t] = s
  BY <1>1 DEF VmInv, ThreadType
<1>5. Shape(t)'
  BY <1>1, <1>2, <1>4, ThreadFacts DEF Shape
<1> QED
  BY <1>1, <1>2, <1>3, <1>5, StepStage DEF Stage

LEMMA StepLoaded ==
  ASSUME VmInv, NEW c \in CPU, NEW t \in Thread, LoadDone(c, t)
  PROVE  VmInv'
<1>1. PICK s \in {"user", "failed"} : stage' = [stage EXCEPT ![t] = s]
  BY DEF LoadDone, Goto
<1>2. /\ stage[t] = "load" /\ fault[t] = NONE
      /\ UNCHANGED <<mem, kheap, region, t_addrspace, dying, fault, curthread, tlb>>
  BY DEF LoadDone, At
<1>3. ThreadType'
  BY <1>1, <1>2 DEF VmInv, ThreadType, Stage
<1>4. stage'[t] = s
  BY <1>1 DEF VmInv, ThreadType
<1>5. Shape(t)'
  BY <1>1, <1>2, <1>4, ThreadFacts DEF Shape
<1> QED
  BY <1>1, <1>2, <1>3, <1>5, StepStage DEF Stage

LEMMA StepFlush ==
  ASSUME VmInv, NEW c \in CPU, NEW t \in Thread, ExitFlush(c, t)
  PROVE  VmInv'
<1>1. /\ stage[t] = "flush" /\ stage' = [stage EXCEPT ![t] = "destroy"]
      /\ tlb' = [tlb EXCEPT ![c] = {}]
      /\ UNCHANGED <<mem, kheap, region, t_addrspace, dying, fault, curthread>>
  BY DEF ExitFlush, At, Goto
<1>2. ThreadType'
  BY <1>1 DEF VmInv, ThreadType, Stage
<1>3. stage'[t] = "destroy"
  BY <1>1 DEF VmInv, ThreadType
<1>4. Shape(t)'
  BY <1>1, <1>3, ThreadFacts DEF Shape
<1> QED
  BY <1>1, <1>2, <1>4, StepStage DEF Stage

LEMMA StepMiss ==
  ASSUME VmInv, NEW c \in CPU, NEW t \in Thread, NEW v \in Touched, TlbMiss(c, t, v)
  PROVE  VmInv'
<1>1. /\ stage[t] \in {"load", "user"} /\ fault' = [fault EXCEPT ![t] = v]
      /\ UNCHANGED <<mem, kheap, stage, region, t_addrspace, dying, curthread, tlb>>
  BY DEF TlbMiss, At
<1>2. v \in VAddr
  BY NoneFacts
<1>3. ThreadType'
  BY <1>1, <1>2 DEF VmInv, ThreadType
<1>4. Shape(t)'
  BY <1>1, ThreadFacts DEF Shape
<1>5. stage' = [stage EXCEPT ![t] = stage[t]]
  BY <1>1 DEF VmInv, ThreadType
<1>6. \A r \in Thread : r # t => fault'[r] = fault[r]
  BY <1>1 DEF VmInv, ThreadType
<1> QED
  BY <1>1, <1>3, <1>4, <1>5, <1>6, StepStage, ThreadFacts

LEMMA StepMaps ==
  ASSUME VmInv, NEW c \in CPU, NEW t \in Thread, VmFaultMaps(c, t)
  PROVE  VmInv'
<1>1. /\ fault' = [fault EXCEPT ![t] = NONE] /\ DOMAIN tlb' = DOMAIN tlb
      /\ UNCHANGED <<mem, kheap, stage, region, t_addrspace, dying, curthread>>
  BY DEF VmFaultMaps
<1>2. ThreadType'
  BY <1>1 DEF VmInv, ThreadType
<1>3. fault'[t] = NONE /\ \A r \in Thread : r # t => fault'[r] = fault[r]
  BY <1>1 DEF VmInv, ThreadType
<1>4. Shape(t)'
  BY <1>1, <1>3, ThreadFacts DEF Shape
<1>5. stage' = [stage EXCEPT ![t] = stage[t]]
  BY <1>1 DEF VmInv, ThreadType
<1> QED
  BY <1>1, <1>2, <1>3, <1>4, <1>5, StepStage, ThreadFacts

LEMMA StepPanic ==
  ASSUME VmInv, panic, ThreadType', \A t \in Thread : Shape(t)'
  PROVE  VmInv'
<1>1. MemInv(mem)
  BY DEF VmInv
<1>2. mem' = [mem EXCEPT !.down = TRUE]
  BY DEF panic
<1>3. MemInv([mem EXCEPT !.down = TRUE]) /\ [mem EXCEPT !.down = TRUE].down
  BY <1>1, StopFacts
<1>4. MemInv(mem)' /\ mem'.down
  BY <1>2, <1>3
<1> QED
  BY <1>4 DEF VmInv, OwnInv

LEMMA StepFails ==
  ASSUME VmInv, NEW c \in CPU, NEW t \in Thread, VmFaultFails(c, t)
  PROVE  VmInv'
<1>1. /\ fault' = [fault EXCEPT ![t] = NONE]
      /\ UNCHANGED <<kheap, region, t_addrspace, dying, curthread, tlb>>
      /\ fault[t] # NONE
  BY DEF VmFaultFails, Handling
<1>2. fault'[t] = NONE /\ \A r \in Thread : r # t => fault'[r] = fault[r]
  BY <1>1 DEF VmInv, ThreadType
<1>3. stage = [stage EXCEPT ![t] = stage[t]]
  BY DEF VmInv, ThreadType
<1>4. CASE stage[t] = "load" /\ Goto(t, "failed") /\ UNCHANGED mem
  <2>1. stage' = [stage EXCEPT ![t] = "failed"] /\ "failed" \in Stage
    BY <1>4 DEF Goto, Stage
  <2>2. ThreadType'
    BY <1>1, <2>1 DEF VmInv, ThreadType
  <2>3. stage'[t] = "failed"
    BY <2>1 DEF VmInv, ThreadType
  <2>4. Shape(t)'
    BY <1>1, <1>2, <1>4, <2>3, ThreadFacts DEF Shape
  <2> QED
    BY <1>1, <1>2, <1>4, <2>1, <2>2, <2>4, StepStage
<1>5. CASE stage[t] = "user" /\ panic /\ UNCHANGED stage
  <2>1. ThreadType'
    BY <1>1, <1>5 DEF VmInv, ThreadType
  <2>2. Shape(t)'
    BY <1>1, <1>2, <1>5, ThreadFacts DEF Shape
  <2>3. Local(t)
    BY <1>1, <1>2, <1>5 DEF Local
  <2> QED
    BY <1>5, <2>1, <2>2, <2>3, LocalShape, StepPanic
<1>6. CASE UNCHANGED <<mem, stage>>
  <2>1. ThreadType'
    BY <1>1, <1>6 DEF VmInv, ThreadType
  <2>2. Shape(t)'
    BY <1>1, <1>2, <1>6, ThreadFacts DEF Shape
  <2> QED
    BY <1>1, <1>2, <1>3, <1>6, <2>1, <2>2, StepStage, ThreadFacts
<1> QED
  BY <1>4, <1>5, <1>6 DEF VmFaultFails

LEMMA StepFaultPanics ==
  ASSUME VmInv, NEW c \in CPU, NEW t \in Thread, VmFaultPanics(c, t)
  PROVE  VmInv'
<1>1. panic /\ UNCHANGED <<kheap, stage, region, t_addrspace, dying, fault, curthread, tlb>>
  BY DEF VmFaultPanics
<1>2. ThreadType' /\ \A s \in Thread : Shape(s)'
  BY <1>1 DEF VmInv, ThreadType, Shape
<1> QED
  BY <1>1, <1>2, StepPanic

LEMMA StepExit ==
  ASSUME VmInv, NEW c \in CPU, NEW t \in Thread, thread_exit(c, t)
  PROVE  VmInv'
<1>1. /\ stage[t] \in {"failed", "user"} /\ fault[t] = NONE
      /\ dying' = [dying EXCEPT ![t] = t_addrspace[t].pbase]
      /\ t_addrspace' = [t_addrspace EXCEPT ![t] = NONE]
      /\ stage' = [stage EXCEPT ![t] = "flush"]
      /\ UNCHANGED <<mem, kheap, region, fault, curthread, tlb>>
  BY DEF thread_exit, At, Goto
<1>2. t_addrspace[t] # NONE /\ dying[t] = NONE /\ region[t] = 1
  BY <1>1, ThreadFacts DEF Shape
<1>3. t_addrspace[t].pbase \in PBase /\ t_addrspace[t].pbase # NONE
  BY <1>2, ThreadFacts, NoneFacts
<1>4. ThreadType'
  BY <1>1, <1>3 DEF VmInv, ThreadType, Stage
<1>5. /\ stage'[t] = "flush" /\ t_addrspace'[t] = NONE /\ dying'[t] = t_addrspace[t].pbase
      /\ region'[t] = 1 /\ fault'[t] = NONE
  BY <1>1, <1>2 DEF VmInv, ThreadType
<1>6. Local(t)
  BY <1>1 DEF VmInv, ThreadType, Local
<1>7. Shape(t)'
  BY <1>3, <1>5 DEF Shape
<1>8. \A i \in Region : Held(t, i)' = Held(t, i)
  <2>1. \A i \in Region : i >= 1
    BY DEF Region
  <2> QED
    BY <1>2, <1>3, <1>5, <2>1 DEF Held
<1> QED
  BY <1>1, <1>4, <1>5, <1>6, <1>7, <1>8, LocalShape, LocalOwner DEF VmInv

LEMMA StepSwitch ==
  ASSUME VmInv, NEW c \in CPU, NEW t \in Thread, thread_switch(c, t)
  PROVE  VmInv'
<1>1. /\ curthread' = [curthread EXCEPT ![c] = t]
      /\ tlb' = IF t_addrspace[t] # NONE THEN [tlb EXCEPT ![c] = {}] ELSE tlb
      /\ UNCHANGED <<mem, kheap, stage, region, t_addrspace, dying, fault>>
  BY DEF thread_switch
<1>2. DOMAIN tlb' = DOMAIN tlb
  BY <1>1
<1>3. ThreadType'
  BY <1>1, <1>2 DEF VmInv, ThreadType
<1>4. Shape(t)'
  BY <1>1, ThreadFacts DEF Shape
<1>5. stage' = [stage EXCEPT ![t] = stage[t]]
  BY <1>1 DEF VmInv, ThreadType
<1> QED
  BY <1>1, <1>3, <1>4, <1>5, StepStage, ThreadFacts

LEMMA StepDefine ==
  ASSUME VmInv, NEW c \in CPU, NEW t \in Thread, NEW vaddr \in VBase, NEW npages \in SegPages,
         as_define_region(c, t, vaddr, npages)
  PROVE  VmInv'
<1>1. /\ stage[t] = "elf"
      /\ UNCHANGED <<mem, kheap, region, dying, fault, curthread, tlb>>
  BY DEF as_define_region, At
<1>2. t_addrspace[t] # NONE /\ dying[t] = NONE /\ fault[t] = NONE /\ region[t] = 1
      /\ \A j \in Region : j >= 1 => t_addrspace[t].pbase[j] = 0
  BY <1>1, ThreadFacts DEF Shape
<1>3. \A j \in Region : t_addrspace[t].pbase[j] = 0
  BY <1>2 DEF Region
<1>4. CASE \E i \in {1, 2} :
              /\ t_addrspace' = [t_addrspace EXCEPT ![t].vbase[i] = vaddr, ![t].npages[i] = npages]
              /\ UNCHANGED stage
  <2>1. PICK i \in {1, 2} :
              /\ t_addrspace' = [t_addrspace EXCEPT ![t].vbase[i] = vaddr, ![t].npages[i] = npages]
              /\ UNCHANGED stage
    BY <1>4
  <2> DEFINE as == t_addrspace[t]
             new == [as EXCEPT !.vbase[i] = vaddr, !.npages[i] = npages]
  <2>2. as \in AsType /\ as.vbase \in [Region -> Nat] /\ as.npages \in [Region -> Nat]
        /\ as.pbase \in PBase
    BY <1>2, ThreadFacts
  <2>3. vaddr \in Nat /\ npages \in Nat /\ i \in Region
    BY NoneFacts DEF Region
  <2>4. t_addrspace' = [t_addrspace EXCEPT ![t] = new]
    BY <2>1, <2>2 DEF VmInv, ThreadType, AsType
  <2>5. new \in AsType /\ new.pbase = as.pbase
    <3>1. [as.vbase EXCEPT ![i] = vaddr] \in [Region -> Nat]
          /\ [as.npages EXCEPT ![i] = npages] \in [Region -> Nat]
      BY <2>2, <2>3
    <3> QED
      BY <2>2, <2>3, <3>1 DEF AsType
  <2> HIDE DEF new
  <2>6. t_addrspace'[t] = new /\ new # NONE
    BY <2>4, <2>5, NoneFacts DEF VmInv, ThreadType
  <2>7. Local(t)
    BY <1>1, <2>1, <2>4 DEF VmInv, ThreadType, Local
  <2>8. ThreadType'
    <3>1. t_addrspace' \in [Thread -> AsType \cup {NONE}]
      BY <2>4, <2>5 DEF VmInv, ThreadType
    <3> QED
      BY <1>1, <2>1, <3>1 DEF VmInv, ThreadType
  <2>9. Shape(t)'
    BY <1>1, <1>2, <1>3, <2>1, <2>5, <2>6 DEF Shape
  <2>10. \A j \in Region : Held(t, j)' = Held(t, j)
    BY <1>2, <1>3, <2>5, <2>6 DEF Held
  <2>11. Sized(t_addrspace[t])'
    BY <1>3, <2>5, <2>6 DEF Sized
  <2> QED
    BY <1>1, <2>7, <2>8, <2>9, <2>10, <2>11, LocalShape, LocalOwner DEF VmInv
<1>5. CASE Goto(t, "failed") /\ UNCHANGED t_addrspace
  <2>1. stage' = [stage EXCEPT ![t] = "failed"] /\ "failed" \in Stage
    BY <1>5 DEF Goto, Stage
  <2>2. ThreadType'
    BY <1>1, <1>5, <2>1 DEF VmInv, ThreadType
  <2>3. stage'[t] = "failed"
    BY <2>1 DEF VmInv, ThreadType
  <2>4. Shape(t)'
    BY <1>1, <1>2, <1>5, <2>3 DEF Shape
  <2> QED
    BY <1>1, <1>5, <2>1, <2>2, <2>4, StepStage
<1>6. \/ \E i \in {1, 2} :
              /\ t_addrspace' = [t_addrspace EXCEPT ![t].vbase[i] = vaddr, ![t].npages[i] = npages]
              /\ UNCHANGED stage
      \/ Goto(t, "failed") /\ UNCHANGED t_addrspace
  BY DEF as_define_region
<1> QED
  BY <1>4, <1>5, <1>6

\* Blocks that stay used keep their size.
LEMMA StillSized ==
  ASSUME NEW as, Sized(as),
         \A i \in Region : as.pbase[i] # 0 =>
            \A b \in ToSet(mem.used_blks) : b.addr = as.pbase[i] => b \in ToSet(mem'.used_blks)
  PROVE  \A i \in Region : as.pbase[i] # 0 =>
            Block(as.pbase[i], as.npages[i]) \in ToSet(mem'.used_blks)
<1> SUFFICES ASSUME NEW i \in Region, as.pbase[i] # 0
             PROVE  Block(as.pbase[i], as.npages[i]) \in ToSet(mem'.used_blks)
  OBVIOUS
<1> DEFINE b == Block(as.pbase[i], as.npages[i])
<1>1. b \in ToSet(mem.used_blks) /\ b.addr = as.pbase[i]
  BY DEF Sized, Block
<1> HIDE DEF b
<1>2. b \in ToSet(mem'.used_blks)
  BY <1>1
<1> QED
  BY <1>2 DEF b

LEMMA StepPrepare ==
  ASSUME VmInv, NEW c \in CPU, NEW t \in Thread, as_prepare_load(c, t)
  PROVE  VmInv'
<1>0. PICK i \in Region : i = region[t]
  BY ThreadFacts
<1> DEFINE as == t_addrspace[t]
           n == as.npages[i]
           addr == alloc_addr(mem, n)
           new == [as EXCEPT !.pbase[i] = addr]
<1>1. /\ ~mem.down /\ stage[t] = "prepare" /\ mem' = alloc_ppages(mem, n)
      /\ t_addrspace' = [t_addrspace EXCEPT ![t].pbase[i] = addr]
      /\ UNCHANGED <<kheap, dying, fault, curthread, tlb>>
  BY <1>0 DEF as_prepare_load, At
<1>2. /\ as # NONE /\ dying[t] = NONE /\ fault[t] = NONE /\ i \in Region
      /\ \A j \in Region : j >= i => as.pbase[j] = 0
  BY <1>0, <1>1, ThreadFacts DEF Shape
<1>3. as \in AsType /\ as.npages \in [Region -> Nat] /\ as.pbase \in PBase
  BY <1>2, ThreadFacts
<1>4. n \in Nat /\ as.pbase[i] = 0 /\ i \in 1 .. 3
  BY <1>2, <1>3 DEF Region
<1>5. MemInv(mem)
  BY DEF VmInv
<1>6. MemInv(mem)' /\ addr \in {0} \cup Page
  <2> HIDE DEF n
  <2> QED
    BY <1>1, <1>4, <1>5, AllocFacts
<1>7. t_addrspace' = [t_addrspace EXCEPT ![t] = new]
  BY <1>1, <1>3 DEF VmInv, ThreadType, AsType
<1> DEFINE a == addr
<1> HIDE DEF a
<1>8. /\ new \in AsType /\ new.npages = as.npages /\ new.pbase[i] = a
      /\ \A j \in Region : j # i => new.pbase[j] = as.pbase[j]
  <2>1. a \in {0} \cup Page /\ new = [as EXCEPT !.pbase[i] = a]
    BY <1>6 DEF a
  <2>2. [as.pbase EXCEPT ![i] = a] \in PBase
    BY <1>2, <1>3, <2>1 DEF PBase
  <2>3. /\ [as.pbase EXCEPT ![i] = a][i] = a
        /\ \A j \in Region : j # i => [as.pbase EXCEPT ![i] = a][j] = as.pbase[j]
    BY <1>2, <1>3, <2>1 DEF PBase
  <2>4. [as EXCEPT !.pbase = [as.pbase EXCEPT ![i] = a]] \in AsType
    BY <1>3, <2>2 DEF AsType
  <2>5. /\ new = [as EXCEPT !.pbase = [as.pbase EXCEPT ![i] = a]]
        /\ new.pbase = [as.pbase EXCEPT ![i] = a] /\ new.npages = as.npages
    BY <1>3, <2>1 DEF AsType
  <2> HIDE DEF new
  <2> QED
    BY <2>3, <2>4, <2>5
<1>9. mem' = alloc_ppages(mem, n) /\ a = alloc_addr(mem, n) /\ (a = 0 \/ a \in Page)
  BY <1>1, <1>6 DEF a
<1>10. \/ a = 0 /\ Goto(t, "failed") /\ region' = [region EXCEPT ![t] = 1]
       \/ a # 0 /\ i < 3 /\ region' = [region EXCEPT ![t] = i + 1] /\ UNCHANGED stage
       \/ a # 0 /\ i = 3 /\ Goto(t, "load") /\ region' = [region EXCEPT ![t] = 1]
  BY <1>0 DEF as_prepare_load, a
<1> HIDE DEF new, n
<1>11. t_addrspace'[t] = new /\ new # NONE
  BY <1>7, <1>8, NoneFacts DEF VmInv, ThreadType
<1>12. /\ region' \in [Thread -> Region] /\ stage' \in [Thread -> Stage]
       /\ \A s \in Thread : s # t => region'[s] = region[s] /\ stage'[s] = stage[s]
       /\ \/ stage'[t] \in {"failed", "load"} /\ region'[t] = 1
          \/ stage'[t] = "prepare" /\ region'[t] = i + 1
  <2>1. i < 3 => i + 1 \in Region
    BY <1>4 DEF Region
  <2>2. 1 \in Region /\ {"failed", "load"} \subseteq Stage
    BY DEF Region, Stage
  <2>3. region \in [Thread -> Region] /\ stage \in [Thread -> Stage]
    BY DEF VmInv, ThreadType
  <2>4. CASE a = 0 /\ Goto(t, "failed") /\ region' = [region EXCEPT ![t] = 1]
    BY <2>2, <2>3, <2>4 DEF Goto
  <2>5. CASE a # 0 /\ i < 3 /\ region' = [region EXCEPT ![t] = i + 1] /\ UNCHANGED stage
    BY <1>1, <2>1, <2>3, <2>5
  <2>6. CASE a # 0 /\ i = 3 /\ Goto(t, "load") /\ region' = [region EXCEPT ![t] = 1]
    BY <2>2, <2>3, <2>6 DEF Goto
  <2> QED
    BY <1>10, <2>4, <2>5, <2>6
<1>13. ThreadType'
  <2>1. t_addrspace' \in [Thread -> AsType \cup {NONE}]
    BY <1>7, <1>8 DEF VmInv, ThreadType
  <2> QED
    BY <1>1, <1>12, <2>1 DEF VmInv, ThreadType
<1>14. Local(t)
  BY <1>1, <1>7, <1>12 DEF VmInv, ThreadType, Local
<1>15. Shape(t)'
  <2>1. CASE stage'[t] \in {"failed", "load"} /\ region'[t] = 1
    BY <1>1, <1>2, <1>11, <2>1 DEF Shape
  <2>2. CASE stage'[t] = "prepare" /\ region'[t] = i + 1
    <3>1. \A j \in Region : j >= i + 1 => j # i /\ j >= i
      BY <1>4 DEF Region
    <3>2. \A j \in Region : j >= i + 1 => new.pbase[j] = 0
      BY <1>2, <1>8, <3>1
    <3> QED
      BY <1>1, <1>2, <1>11, <2>2, <3>2 DEF Shape
  <2> QED
    BY <1>12, <2>1, <2>2
<1>16. Held(t, i) = 0 /\ Held(t, i)' = a /\ \A j \in Region : j # i => Held(t, j)' = Held(t, j)
  BY <1>2, <1>4, <1>8, <1>11 DEF Held
<1>17. Holder' = [Holder EXCEPT ![<<t, i>>] = a]
  <2> QED
    BY <1>2, <1>14, <1>16, LocalHolder
<1>18. ASSUME ~mem'.down PROVE OwnInv'
  <2>1. /\ Owned(UsedAddrs(mem), Holder, kheap) /\ Sized(as)
        /\ \A s \in Thread : t_addrspace[s] # NONE => Sized(t_addrspace[s])
    BY <1>1, <1>2 DEF VmInv, OwnInv
  <2>2. Holder \in [Thread \X Region -> Nat] /\ Holder[<<t, i>>] = 0 /\ <<t, i>> \in Thread \X Region
    BY <1>2, <1>16, HolderType
  <2>3. CASE a = 0
    <3>1. mem' = mem
      BY <1>4, <1>5, <1>9, <2>3, AllocFacts
    <3>2. Holder' = Holder
      <4> QED
        BY <1>17, <2>2, <2>3
    <3>3. Owned(UsedAddrs(mem), Holder, kheap)'
      BY <1>1, <2>1, <3>1, <3>2 DEF Owned, UsedAddrs
    <3>4. ASSUME NEW s \in Thread, t_addrspace'[s] # NONE PROVE Sized(t_addrspace[s])'
      <4>1. CASE s = t
        BY <1>8, <1>11, <2>1, <2>3, <3>1, <4>1 DEF Sized
      <4>2. CASE s # t
        BY <1>14, <2>1, <3>1, <3>4, <4>2 DEF Sized, Local
      <4> QED
        BY <4>1, <4>2
    <3> QED
      BY <3>3, <3>4 DEF OwnInv
  <2>4. CASE a # 0
    <3>1. /\ \A b \in ToSet(mem.used_blks) : b.addr # a
          /\ ToSet(mem'.used_blks) = ToSet(mem.used_blks) \cup {Block(a, n)}
      BY <1>4, <1>5, <1>9, <1>18, <2>4, AllocFacts
    <3>2. a \notin UsedAddrs(mem) /\ UsedAddrs(mem)' = UsedAddrs(mem) \cup {a}
      <4>1. Block(a, n).addr = a
        BY DEF Block
      <4> DEFINE b0 == Block(a, n)
      <4> HIDE DEF b0
      <4>2. b0.addr = a /\ ToSet(mem'.used_blks) = ToSet(mem.used_blks) \cup {b0}
        BY <3>1, <4>1 DEF b0
      <4> QED
        BY <3>1, <4>2 DEF UsedAddrs
    <3>3. a \in Nat \ {0}
      BY <1>9, <2>4, PageFacts
    <3>4. Owned(UsedAddrs(mem) \cup {a}, [Holder EXCEPT ![<<t, i>>] = a], kheap)
      <4> DEFINE p == <<t, i>>
      <4>1. p \in Thread \X Region /\ Holder[p] = 0
        BY <2>2
      <4> HIDE DEF p
      <4>2. Owned(UsedAddrs(mem) \cup {a}, [Holder EXCEPT ![p] = a], kheap)
        BY <2>1, <2>2, <3>2, <3>3, <4>1, OwnedAlloc
      <4> QED
        BY <4>2 DEF p
    <3>5. Owned(UsedAddrs(mem), Holder, kheap)'
      <4> DEFINE H == [Holder EXCEPT ![<<t, i>>] = a]
                 U == UsedAddrs(mem) \cup {a}
      <4>1. Owned(U, H, kheap)
        BY <3>4
      <4>2. Holder' = H /\ UsedAddrs(mem)' = U /\ kheap' = kheap
        BY <1>1, <1>17, <3>2
      <4> HIDE DEF H, U
      <4> QED
        BY <4>1, <4>2 DEF Owned
    <3>6. ASSUME NEW s \in Thread, t_addrspace'[s] # NONE PROVE Sized(t_addrspace[s])'
      <4>1. CASE s = t
        <5>1. ASSUME NEW j \in Region, new.pbase[j] # 0
              PROVE  Block(new.pbase[j], new.npages[j]) \in ToSet(mem'.used_blks)
          <6>1. CASE j = i
            <7>1. new.pbase[j] = a /\ new.npages[j] = n
              BY <1>8, <6>1 DEF n
            <7> QED
              BY <3>1, <7>1
          <6>2. CASE j # i
            <7>1. new.pbase[j] = as.pbase[j] /\ new.npages[j] = as.npages[j]
              BY <1>8, <6>2
            <7>2. Block(as.pbase[j], as.npages[j]) \in ToSet(mem.used_blks)
              BY <2>1, <5>1, <7>1 DEF Sized
            <7> QED
              BY <3>1, <7>1, <7>2
          <6> QED
            BY <6>1, <6>2
        <5> QED
          BY <1>11, <4>1, <5>1 DEF Sized
      <4>2. CASE s # t
        <5>1. t_addrspace'[s] = t_addrspace[s]
          BY <1>14, <4>2 DEF Local
        <5>2. Sized(t_addrspace[s])
          BY <2>1, <3>6, <5>1
        <5> QED
          BY <3>1, <5>1, <5>2 DEF Sized
      <4> QED
        BY <4>1, <4>2
    <3> QED
      BY <3>5, <3>6 DEF OwnInv
  <2> QED
    BY <2>3, <2>4
<1>19. OwnInv'
  BY <1>18 DEF OwnInv
<1> QED
  BY <1>6, <1>13, <1>14, <1>15, <1>19, LocalShape DEF VmInv

LEMMA AddrsAfterFree ==
  ASSUME VmInv, NEW a, mem' = free_ppages(mem, a)
  PROVE  /\ MemInv(mem)' /\ mem'.down = mem.down
         /\ \A b : b \in ToSet(mem'.used_blks) <=> b \in ToSet(mem.used_blks) /\ b.addr # a
         /\ UsedAddrs(mem)' = UsedAddrs(mem) \ {a}
<1>1. MemInv(mem)
  BY DEF VmInv
<1>2. /\ MemInv(mem') /\ mem'.down = mem.down
      /\ \A b : b \in ToSet(mem'.used_blks) <=> b \in ToSet(mem.used_blks) /\ b.addr # a
  BY <1>1, FreeFacts
<1>3. UsedAddrs(mem)' = UsedAddrs(mem) \ {a}
  BY <1>2 DEF UsedAddrs
<1> QED
  BY <1>2, <1>3

LEMMA StepDestroy ==
  ASSUME VmInv, NEW c \in CPU, NEW t \in Thread, as_destroy(c, t)
  PROVE  VmInv'
<1>1. PICK i \in Region : i = region[t]
  BY ThreadFacts
<1>2. PICK a \in {0} \cup Page : a = dying[t][i]
  <2>1. stage[t] = "destroy"
    BY DEF as_destroy, At
  <2>2. dying[t] \in PBase
    BY <2>1, ThreadFacts DEF Shape
  <2> QED
    BY <2>2 DEF PBase
<1>3. /\ ~mem.down /\ stage[t] = "destroy" /\ mem' = free_ppages(mem, a)
      /\ region' = [region EXCEPT ![t] = IF i = 3 THEN 1 ELSE i + 1]
      /\ dying' = IF i = 3 THEN [dying EXCEPT ![t] = NONE] ELSE dying
      /\ IF i = 3 THEN Goto(t, "kernel") ELSE UNCHANGED stage
      /\ UNCHANGED <<kheap, t_addrspace, fault, curthread, tlb>>
  BY <1>1, <1>2 DEF as_destroy, At
<1>4. t_addrspace[t] = NONE /\ dying[t] # NONE /\ fault[t] = NONE
  BY <1>3, ThreadFacts DEF Shape
<1>5. i \in 1 .. 3 /\ (i # 3 => i + 1 \in Region) /\ 1 \in Region
  BY DEF Region
<1>6. ThreadType /\ region \in [Thread -> Region] /\ stage \in [Thread -> Stage]
      /\ dying \in [Thread -> PBase \cup {NONE}]
  BY DEF VmInv, ThreadType
<1>7. /\ region' \in [Thread -> Region] /\ stage' \in [Thread -> Stage]
      /\ dying' \in [Thread -> PBase \cup {NONE}]
      /\ Local(t)
      /\ i = 3 => stage'[t] = "kernel" /\ dying'[t] = NONE /\ region'[t] = 1
      /\ i # 3 => stage'[t] = "destroy" /\ dying'[t] = dying[t] /\ region'[t] = i + 1
  <2>1. CASE i = 3
    <3>1. /\ region' = [region EXCEPT ![t] = 1] /\ dying' = [dying EXCEPT ![t] = NONE]
          /\ stage' = [stage EXCEPT ![t] = "kernel"] /\ UNCHANGED <<t_addrspace, fault>>
      BY <1>3, <2>1 DEF Goto
    <3> QED
      BY <1>5, <1>6, <2>1, <3>1 DEF Stage, Local
  <2>2. CASE i # 3
    <3>1. /\ region' = [region EXCEPT ![t] = i + 1] /\ UNCHANGED <<stage, dying, t_addrspace, fault>>
      BY <1>3, <2>2
    <3> QED
      BY <1>3, <1>5, <1>6, <2>2, <3>1 DEF Local
  <2> QED
    BY <2>1, <2>2
<1>8. ThreadType'
  BY <1>3, <1>6, <1>7 DEF ThreadType
<1>9. t_addrspace'[t] = NONE /\ fault'[t] = NONE
  BY <1>3, <1>4
<1>10. Shape(t)'
  <2>1. CASE i = 3
    BY <1>7, <1>9, <2>1 DEF Shape
  <2>2. CASE i # 3
    BY <1>4, <1>7, <1>9, <2>2 DEF Shape
  <2> QED
    BY <2>1, <2>2
<1>11. Held(t, i) = a /\ Held(t, i)' = 0 /\ \A j \in Region : j # i => Held(t, j)' = Held(t, j)
  <2>1. Held(t, i) = a
    BY <1>1, <1>2, <1>4, <1>5 DEF Held
  <2>2. CASE i = 3
    <3>1. \A j \in Region : j # i => ~(j >= i)
      BY <2>2 DEF Region
    <3> QED
      BY <1>1, <1>4, <1>7, <1>9, <2>1, <2>2, <3>1 DEF Held
  <2>3. CASE i # 3
    <3>1. ~(i >= i + 1) /\ \A j \in Region : j # i => (j >= i + 1 <=> j >= i)
      BY <1>5 DEF Region
    <3> QED
      BY <1>1, <1>4, <1>7, <1>9, <2>1, <2>3, <3>1 DEF Held
  <2> QED
    BY <2>2, <2>3
<1>12. Holder' = [Holder EXCEPT ![<<t, i>>] = 0]
  BY <1>7, <1>11, LocalHolder
<1>13. /\ MemInv(mem)' /\ mem'.down = mem.down
       /\ \A b : b \in ToSet(mem'.used_blks) <=> b \in ToSet(mem.used_blks) /\ b.addr # a
       /\ UsedAddrs(mem)' = UsedAddrs(mem) \ {a}
  BY <1>3, AddrsAfterFree
<1>14. /\ Owned(UsedAddrs(mem), Holder, kheap)
       /\ \A s \in Thread : t_addrspace[s] # NONE => Sized(t_addrspace[s])
  BY <1>3 DEF VmInv, OwnInv
<1>15. /\ Holder \in [Thread \X Region -> Nat] /\ <<t, i>> \in Thread \X Region
       /\ Holder[<<t, i>>] = a
  BY <1>11, HolderType
<1>16. Owned(UsedAddrs(mem), Holder, kheap)'
  <2> DEFINE p == <<t, i>>
             U == UsedAddrs(mem)
             H == [Holder EXCEPT ![p] = 0]
  <2>1. p \in Thread \X Region /\ Holder[p] = a
    BY <1>15
  <2>2. Owned(U \ {Holder[p]}, H, kheap)
    <3> HIDE DEF p
    <3> QED
      BY <1>14, <1>15, <2>1, OwnedFree
  <2>3. Holder' = H /\ UsedAddrs(mem)' = U \ {a} /\ kheap' = kheap
    BY <1>3, <1>12, <1>13
  <2> HIDE DEF p, U, H
  <2>4. Owned(U \ {a}, H, kheap)
    BY <2>1, <2>2
  <2> DEFINE V == U \ {a}
  <2> HIDE DEF V
  <2>5. Owned(V, H, kheap) /\ Holder' = H /\ UsedAddrs(mem)' = V /\ kheap' = kheap
    BY <2>3, <2>4 DEF V
  <2> QED
    BY <2>5 DEF Owned
<1>17. ASSUME NEW s \in Thread, t_addrspace'[s] # NONE PROVE Sized(t_addrspace[s])'
  <2>1. s # t /\ t_addrspace'[s] = t_addrspace[s] /\ t_addrspace[s] # NONE
    BY <1>3, <1>9, <1>17
  <2> DEFINE as == t_addrspace[s]
  <2>2. Sized(as)
    BY <1>14, <2>1
  <2>3. ASSUME NEW j \in Region, as.pbase[j] # 0 PROVE as.pbase[j] # a
    <3>1. Holder[<<s, j>>] = as.pbase[j] /\ <<s, j>> \in Thread \X Region
      BY <2>1, HolderType DEF Held
    <3>2. <<s, j>> # <<t, i>>
      BY <2>1
    <3>3. Holder[<<s, j>>] # Holder[<<t, i>>]
      BY <1>14, <1>15, <2>3, <3>1, <3>2 DEF Owned
    <3> QED
      BY <1>15, <3>1, <3>3
  <2> HIDE DEF as
  <2>4. \A j \in Region : as.pbase[j] # 0 =>
            \A b \in ToSet(mem.used_blks) : b.addr = as.pbase[j] => b \in ToSet(mem'.used_blks)
    BY <1>13, <2>3
  <2>5. \A j \in Region : as.pbase[j] # 0 =>
            Block(as.pbase[j], as.npages[j]) \in ToSet(mem'.used_blks)
    BY <2>2, <2>4, StillSized
  <2> QED
    BY <2>1, <2>5 DEF Sized, as
<1>18. OwnInv'
  BY <1>16, <1>17 DEF OwnInv
<1> QED
  BY <1>7, <1>8, <1>10, <1>13, <1>18, LocalShape DEF VmInv

-----------------------------------------------------------------------------
(* What the kernel heap does *)

LEMMA HeapStep ==
  ASSUME VmInv, UNCHANGED <<stage, region, t_addrspace, dying, fault, curthread, tlb>>,
         kheap' \subseteq {0} \cup Page
  PROVE  ThreadType' /\ (\A t \in Thread : Shape(t)') /\ Holder' = Holder
<1>1. ThreadType'
  BY DEF VmInv, ThreadType
<1>2. \A t \in Thread : Shape(t)'
  BY DEF VmInv, Shape
<1>3. Holder' = Holder
  BY DEF Holder, Held
<1> QED
  BY <1>1, <1>2, <1>3

LEMMA StepKalloc ==
  ASSUME VmInv, NEW n \in KernelPages, alloc_kpages(n)
  PROVE  VmInv'
<1>1. PICK a : a = alloc_addr(mem, n)
  OBVIOUS
<1>2. /\ ~mem.down /\ mem' = alloc_ppages(mem, n) /\ kheap' = kheap \cup {a}
      /\ UNCHANGED <<stage, region, t_addrspace, dying, fault, curthread, tlb>>
  BY <1>1 DEF alloc_kpages
<1>3. MemInv(mem) /\ n \in Nat
  BY NoneFacts DEF VmInv
<1>4. MemInv(mem)' /\ (a = 0 \/ a \in Page)
  BY <1>1, <1>2, <1>3, AllocFacts
<1>5. kheap' \subseteq {0} \cup Page
  BY <1>2, <1>4 DEF VmInv, ThreadType
<1>6. ThreadType' /\ (\A t \in Thread : Shape(t)') /\ Holder' = Holder
  BY <1>2, <1>5, HeapStep
<1>7. ASSUME ~mem'.down PROVE OwnInv'
  <2>1. /\ Owned(UsedAddrs(mem), Holder, kheap)
        /\ \A s \in Thread : t_addrspace[s] # NONE => Sized(t_addrspace[s])
    BY <1>2 DEF VmInv, OwnInv
  <2>2. /\ a # 0 => a \notin UsedAddrs(mem)
        /\ UsedAddrs(mem)' = UsedAddrs(mem) \cup ({a} \ {0})
        /\ ToSet(mem.used_blks) \subseteq ToSet(mem'.used_blks)
    <3>1. CASE a = 0
      <4>1. mem' = mem
        BY <1>1, <1>2, <1>3, <3>1, AllocFacts
      <4> QED
        BY <3>1, <4>1 DEF UsedAddrs
    <3>2. CASE a # 0
      <4>1. /\ \A b \in ToSet(mem.used_blks) : b.addr # a
            /\ ToSet(mem'.used_blks) = ToSet(mem.used_blks) \cup {Block(a, n)}
        BY <1>1, <1>2, <1>3, <1>7, <3>2, AllocFacts
      <4>2. Block(a, n).addr = a
        BY DEF Block
      <4> DEFINE b0 == Block(a, n)
      <4> HIDE DEF b0
      <4>3. b0.addr = a /\ ToSet(mem'.used_blks) = ToSet(mem.used_blks) \cup {b0}
        BY <4>1, <4>2 DEF b0
      <4> QED
        BY <3>2, <4>1, <4>3 DEF UsedAddrs
    <3> QED
      BY <3>1, <3>2
  <2>3. Owned(UsedAddrs(mem) \cup ({a} \ {0}), Holder, kheap \cup {a})
    BY <2>1, <2>2, OwnedByHeap
  <2>4. Owned(UsedAddrs(mem), Holder, kheap)'
    <3> DEFINE U == UsedAddrs(mem) \cup ({a} \ {0})
               K == kheap \cup {a}
    <3>1. Owned(U, Holder, K) /\ UsedAddrs(mem)' = U /\ kheap' = K /\ Holder' = Holder
      BY <1>2, <1>6, <2>2, <2>3
    <3> HIDE DEF U, K
    <3> QED
      BY <3>1 DEF Owned
  <2>5. \A s \in Thread : t_addrspace'[s] # NONE => Sized(t_addrspace[s])'
    BY <1>2, <2>1, <2>2 DEF Sized
  <2> QED
    BY <2>4, <2>5 DEF OwnInv
<1>8. OwnInv'
  BY <1>7 DEF OwnInv
<1> QED
  BY <1>4, <1>6, <1>8 DEF VmInv

LEMMA StepKfree ==
  ASSUME VmInv, NEW a \in kheap, free_kpages(a)
  PROVE  VmInv'
<1>1. /\ ~mem.down /\ mem' = free_ppages(mem, a) /\ kheap' = kheap \ {a}
      /\ UNCHANGED <<stage, region, t_addrspace, dying, fault, curthread, tlb>>
  BY DEF free_kpages
<1>2. ThreadType' /\ (\A t \in Thread : Shape(t)') /\ Holder' = Holder
  <2>1. kheap' \subseteq {0} \cup Page
    BY <1>1 DEF VmInv, ThreadType
  <2> QED
    BY <1>1, <2>1, HeapStep
<1>3. /\ MemInv(mem)'
      /\ \A b : b \in ToSet(mem'.used_blks) <=> b \in ToSet(mem.used_blks) /\ b.addr # a
      /\ UsedAddrs(mem)' = UsedAddrs(mem) \ {a}
  BY <1>1, AddrsAfterFree
<1>4. /\ Owned(UsedAddrs(mem), Holder, kheap)
      /\ \A s \in Thread : t_addrspace[s] # NONE => Sized(t_addrspace[s])
  BY <1>1 DEF VmInv, OwnInv
<1>5. Owned(UsedAddrs(mem) \ {a}, Holder, kheap \ {a})
  BY <1>4, HeapFrees
<1>6. Owned(UsedAddrs(mem), Holder, kheap)'
  <2> DEFINE U == UsedAddrs(mem) \ {a}
             K == kheap \ {a}
  <2>1. Owned(U, Holder, K) /\ UsedAddrs(mem)' = U /\ kheap' = K /\ Holder' = Holder
    BY <1>1, <1>2, <1>3, <1>5
  <2> HIDE DEF U, K
  <2> QED
    BY <2>1 DEF Owned
<1>7. ASSUME NEW s \in Thread, t_addrspace'[s] # NONE PROVE Sized(t_addrspace[s])'
  <2> DEFINE as == t_addrspace[s]
  <2>1. Sized(as) /\ t_addrspace'[s] = t_addrspace[s] /\ t_addrspace[s] # NONE
    BY <1>1, <1>4, <1>7
  <2>2. ASSUME NEW j \in Region, as.pbase[j] # 0 PROVE as.pbase[j] # a
    <3>1. Holder[<<s, j>>] = as.pbase[j] /\ <<s, j>> \in Thread \X Region
      BY <2>1, HolderType DEF Held
    <3>2. Holder[<<s, j>>] \notin kheap
      BY <1>4, <2>2, <3>1 DEF Owned
    <3> QED
      BY <3>1, <3>2
  <2> HIDE DEF as
  <2>3. \A j \in Region : as.pbase[j] # 0 =>
            \A b \in ToSet(mem.used_blks) : b.addr = as.pbase[j] => b \in ToSet(mem'.used_blks)
    BY <1>3, <2>2
  <2>4. \A j \in Region : as.pbase[j] # 0 =>
            Block(as.pbase[j], as.npages[j]) \in ToSet(mem'.used_blks)
    BY <2>1, <2>3, StillSized
  <2> QED
    BY <2>1, <2>4 DEF Sized, as
<1>8. OwnInv'
  BY <1>6, <1>7 DEF OwnInv
<1> QED
  BY <1>2, <1>3, <1>8 DEF VmInv

-----------------------------------------------------------------------------
(* The invariant holds, and what follows *)

LEMMA VmInit == Init => VmInv
<1> SUFFICES ASSUME Init PROVE VmInv
  OBVIOUS
<1>1. ThreadType
  <2>1. 1 \in Region /\ "kernel" \in Stage
    BY DEF Region, Stage
  <2> QED
    BY <2>1 DEF Init, ThreadType
<1>2. \A t \in Thread : Shape(t)
  BY DEF Init, Shape
<1>3. MemInv(mem) /\ ToSet(mem.used_blks) = {}
  BY BootFacts DEF Init
<1>4. \A p \in Thread \X Region : Holder[p] = 0
  BY DEF Init, Holder, Held
<1>5. UsedAddrs(mem) = {} /\ kheap = {}
  BY <1>3 DEF UsedAddrs, Init
<1>6. Owned(UsedAddrs(mem), Holder, kheap)
  BY <1>4, <1>5 DEF Owned
<1>7. \A t \in Thread : t_addrspace[t] = NONE
  BY DEF Init
<1> QED
  BY <1>1, <1>2, <1>3, <1>6, <1>7 DEF VmInv, OwnInv

LEMMA VmNext == VmInv /\ [Next]_vars => VmInv'
<1> SUFFICES ASSUME VmInv, [Next]_vars PROVE VmInv'
  OBVIOUS
<1>1. CASE \E c \in CPU, t \in Thread :
             \/ as_create(c, t) \/ as_activate(c, t) \/ DefinedAll(c, t)
             \/ \E vaddr \in VBase, npages \in SegPages : as_define_region(c, t, vaddr, npages)
             \/ as_prepare_load(c, t) \/ LoadDone(c, t)
             \/ \E v \in Touched : TlbMiss(c, t, v)
             \/ VmFaultMaps(c, t) \/ VmFaultFails(c, t) \/ VmFaultPanics(c, t)
             \/ thread_exit(c, t) \/ ExitFlush(c, t) \/ as_destroy(c, t)
             \/ thread_switch(c, t)
  BY <1>1, StepCreate, StepActivate, StepDefined, StepDefine, StepPrepare, StepLoaded, StepMiss,
     StepMaps, StepFails, StepFaultPanics, StepExit, StepFlush, StepDestroy, StepSwitch
<1>2. CASE \E npages \in KernelPages : alloc_kpages(npages)
  BY <1>2, StepKalloc
<1>3. CASE \E addr \in kheap : free_kpages(addr)
  BY <1>3, StepKfree
<1>4. CASE UNCHANGED vars
  BY <1>4 DEF vars, VmInv, ThreadType, Shape, OwnInv, Holder, Held, Owned, Sized
<1> QED
  BY <1>1, <1>2, <1>3, <1>4 DEF Next

\* The invariant of the page allocator and of the address spaces on top of it:
\* as_create to as_destroy, vm_fault and the kernel heap keep it, for any
\* number of threads and cpus and any amount of memory.
THEOREM VmInductive == Spec => []VmInv
<1>1. VmInv /\ [Next]_vars => VmInv'
  BY VmNext
<1> QED
  BY VmInit, <1>1, PTL DEF Spec

\* After any sequence of alloc_ppages and free_ppages, under each of the three
\* policies, the free and the used list tile the memory, and alloc_ppages fails
\* only when no run of free pages is long enough.
THEOREM MemoryStaysTiled == Spec => []MemoryIsTiled
<1>1. VmInv => MemoryIsTiled
  BY RunFacts DEF VmInv, MemoryIsTiled, MemInv
<1> QED
  BY <1>1, VmInductive, PTL

LEMMA HoldingsAre ==
  ASSUME VmInv, NEW h
  PROVE  h \in Holdings <=> \E t \in Thread, i \in Region :
                              Held(t, i) # 0 /\ h = [who |-> <<t, i>>, addr |-> Held(t, i)]
<1>1. ASSUME NEW t \in Thread
      PROVE  /\ t_addrspace[t] # NONE => dying[t] = NONE /\ \A i \in Region : Held(t, i) = t_addrspace[t].pbase[i]
             /\ dying[t] # NONE => /\ t_addrspace[t] = NONE
                                   /\ \A i \in Region : Held(t, i) = IF i >= region[t] THEN dying[t][i] ELSE 0
             /\ t_addrspace[t] = NONE /\ dying[t] = NONE => \A i \in Region : Held(t, i) = 0
             /\ \A i : i \in region[t] .. 3 <=> i \in Region /\ i >= region[t]
  <2>1. Shape(t) /\ region[t] \in Region
    BY ThreadFacts
  <2>2. \A i : i \in region[t] .. 3 <=> i \in Region /\ i >= region[t]
    BY <2>1 DEF Region
  <2>3. ~(t_addrspace[t] # NONE /\ dying[t] # NONE)
    BY <2>1 DEF Shape
  <2> QED
    BY <2>2, <2>3 DEF Held
<1> DEFINE R(t, i, x) == [who |-> <<t, i>>, addr |-> x]
           L == {[who |-> <<t, i>>, addr |-> t_addrspace[t].pbase[i]] :
                    t \in {s \in Thread : t_addrspace[s] # NONE}, i \in Region}
           D == UNION {{[who |-> <<t, i>>, addr |-> dying[t][i]] : i \in region[t] .. 3} :
                    t \in {s \in Thread : dying[s] # NONE}}
<1>2. Holdings = {g \in L \cup D : g.addr # 0}
  BY DEF Holdings
<1>3. ASSUME h \in Holdings
      PROVE  \E t \in Thread, i \in Region :
               Held(t, i) # 0 /\ h = [who |-> <<t, i>>, addr |-> Held(t, i)]
  <2>1. h \in L \cup D /\ h.addr # 0
    BY <1>2, <1>3
  <2>2. CASE h \in L
    <3>1. PICK t \in Thread, i \in Region :
            t_addrspace[t] # NONE /\ h = [who |-> <<t, i>>, addr |-> t_addrspace[t].pbase[i]]
      BY <2>2
    <3> QED
      BY <1>1, <2>1, <3>1
  <2>3. CASE h \in D
    <3>1. PICK t \in Thread : dying[t] # NONE /\ h \in {[who |-> <<t, i>>, addr |-> dying[t][i]] : i \in region[t] .. 3}
      BY <2>3
    <3>2. PICK i \in region[t] .. 3 : h = [who |-> <<t, i>>, addr |-> dying[t][i]]
      BY <3>1
    <3>3. i \in Region /\ i >= region[t]
      BY <1>1
    <3> QED
      BY <1>1, <2>1, <3>1, <3>2, <3>3
  <2> QED
    BY <2>1, <2>2, <2>3
<1>4. ASSUME NEW t \in Thread, NEW i \in Region, Held(t, i) # 0,
             h = [who |-> <<t, i>>, addr |-> Held(t, i)]
      PROVE  h \in Holdings
  <2>1. CASE t_addrspace[t] # NONE
    <3>1. h = [who |-> <<t, i>>, addr |-> t_addrspace[t].pbase[i]]
      BY <1>1, <1>4, <2>1
    <3>2. h \in L
      BY <2>1, <3>1
    <3>3. h.addr # 0
      BY <1>4
    <3> HIDE DEF L, D
    <3> QED
      BY <1>2, <3>2, <3>3
  <2>2. CASE t_addrspace[t] = NONE
    <3>1. dying[t] # NONE /\ i >= region[t] /\ Held(t, i) = dying[t][i]
      BY <1>1, <1>4, <2>2
    <3>2. i \in region[t] .. 3 /\ h = [who |-> <<t, i>>, addr |-> dying[t][i]]
      BY <1>1, <1>4, <3>1
    <3>3. h \in {[who |-> <<t, j>>, addr |-> dying[t][j]] : j \in region[t] .. 3}
      BY <3>2
    <3>4. h \in D
      BY <3>1, <3>3
    <3> QED
      BY <1>2, <1>4, <3>4
  <2> QED
    BY <2>1, <2>2
<1> QED
  BY <1>3, <1>4

\* No page leaks and none has two owners, whatever the interleaving of program
\* starts, failed loads, exits and kernel allocations: as_destroy gives back what
\* as_prepare_load took, the regions of a load that failed half way included.
THEOREM PagesAreOwned == Spec => []PagesHaveOneOwner
<1>1. VmInv => PagesHaveOneOwner
  <2> SUFFICES ASSUME VmInv, ~mem.down PROVE PagesHaveOneOwner
    BY DEF PagesHaveOneOwner
  <2> DEFINE used == ToSet(mem.used_blks)
  <2>1. /\ Owned(UsedAddrs(mem), Holder, kheap)
        /\ \A t \in Thread : t_addrspace[t] # NONE => Sized(t_addrspace[t])
    BY DEF VmInv, OwnInv
  <2>2. \A t \in Thread, i \in Region : Holder[<<t, i>>] = Held(t, i)
    BY HolderType
  <2>3. \A h \in Holdings : \E p \in Thread \X Region :
          Holder[p] # 0 /\ h.who = p /\ h.addr = Holder[p]
    <3> SUFFICES ASSUME NEW h \in Holdings
                 PROVE  \E p \in Thread \X Region : Holder[p] # 0 /\ h.who = p /\ h.addr = Holder[p]
      OBVIOUS
    <3>1. PICK t \in Thread, i \in Region :
            Held(t, i) # 0 /\ h = [who |-> <<t, i>>, addr |-> Held(t, i)]
      BY HoldingsAre
    <3>2. <<t, i>> \in Thread \X Region /\ h.who = <<t, i>> /\ h.addr = Held(t, i)
      BY <3>1
    <3> QED
      BY <2>2, <3>1, <3>2
  <2>4. \A p \in Thread \X Region : Holder[p] # 0 => \E h \in Holdings : h.addr = Holder[p]
    <3> SUFFICES ASSUME NEW p \in Thread \X Region, Holder[p] # 0
                 PROVE  \E h \in Holdings : h.addr = Holder[p]
      OBVIOUS
    <3>1. PICK t \in Thread, i \in Region : p = <<t, i>>
      OBVIOUS
    <3>2. Held(t, i) # 0 /\ Holder[p] = Held(t, i)
      BY <2>2, <3>1
    <3> DEFINE h == [who |-> <<t, i>>, addr |-> Held(t, i)]
    <3>3. h \in Holdings
      <4> HIDE DEF Holdings
      <4> QED
        BY <3>2, HoldingsAre
    <3>4. h.addr = Holder[p]
      BY <3>2
    <3> QED
      BY <3>3, <3>4
  <2>5. {b.addr : b \in used} = {h.addr : h \in Holdings} \cup (kheap \ {0})
    <3>1. UsedAddrs(mem) = {b.addr : b \in used}
      BY DEF UsedAddrs
    <3>2. \A x : x \in UsedAddrs(mem) <=>
             x # 0 /\ (x \in kheap \/ \E p \in Thread \X Region : Holder[p] = x)
      BY <2>1 DEF Owned
    <3>3. ASSUME NEW x
          PROVE  x \in UsedAddrs(mem) <=> x \in {h.addr : h \in Holdings} \cup (kheap \ {0})
      BY <2>3, <2>4, <3>2
    <3> QED
      BY <3>1, <3>3
  <2>6. \A g, h \in Holdings : g.addr = h.addr => g.who = h.who
    <3>1. \A p, q \in Thread \X Region : Holder[p] # 0 /\ Holder[p] = Holder[q] => p = q
      BY <2>1 DEF Owned
    <3> QED
      BY <2>3, <3>1
  <2>7. \A h \in Holdings : h.addr \notin kheap
    <3>1. \A p \in Thread \X Region : Holder[p] # 0 => Holder[p] \notin kheap
      BY <2>1 DEF Owned
    <3> QED
      BY <2>3, <3>1
  <2>8. \A t \in Thread : t_addrspace[t] # NONE => \A i \in Region :
           t_addrspace[t].pbase[i] # 0 =>
             Block(t_addrspace[t].pbase[i], t_addrspace[t].npages[i]) \in used
    BY <2>1 DEF Sized
  <2> HIDE DEF used
  <2> QED
    BY <2>5, <2>6, <2>7, <2>8 DEF PagesHaveOneOwner, used
<1> QED
  BY <1>1, VmInductive, PTL

-----------------------------------------------------------------------------
(* The TLBs *)

TlbOf(c) ==
  LET t == curthread[c]
  IN  /\ stage[t] \in {"elf", "prepare"} => tlb[c] = {}
      /\ fault[t] # NONE => ~Mapped(c, fault[t])
      /\ t_addrspace[t] # NONE /\ stage[t] # "activate" =>
           \A e \in tlb[c] : e[2] = Translate(t_addrspace[t], e[1])

LEMMA TlbParts ==
  TlbInv <=> /\ \A c, d \in CPU : curthread[c] = curthread[d] => c = d
             /\ \A c \in CPU : TlbOf(c)
  BY DEF TlbInv, TlbOf, TlbIsCurrent, NoDuplicateEntry

\* What the current thread of a cpu does with that cpu's TLB.
LEMMA LocalTlb ==
  ASSUME VmInv, TlbInv, NEW c \in CPU, NEW t \in Thread, curthread[c] = t, Local(t),
         curthread' = curthread, \A d \in CPU : d # c => tlb'[d] = tlb[d], TlbOf(c)'
  PROVE  TlbInv'
<1>1. /\ \A d, e \in CPU : curthread[d] = curthread[e] => d = e
      /\ \A d \in CPU : TlbOf(d)
  BY TlbParts
<1>2. ASSUME NEW d \in CPU, d # c PROVE TlbOf(d)'
  <2>1. curthread[d] # t /\ curthread[d] \in Thread /\ curthread'[d] = curthread[d]
    BY <1>1, <1>2 DEF VmInv, ThreadType
  <2> DEFINE s == curthread[d]
  <2>2. /\ stage'[s] = stage[s] /\ t_addrspace'[s] = t_addrspace[s] /\ fault'[s] = fault[s]
        /\ tlb'[d] = tlb[d]
    BY <1>2, <2>1 DEF Local
  <2>3. TlbOf(d)
    BY <1>1
  <2> QED
    BY <2>1, <2>2, <2>3 DEF TlbOf, Mapped
<1>3. \A d \in CPU : TlbOf(d)'
  BY <1>2
<1>4. \A d, e \in CPU : curthread'[d] = curthread'[e] => d = e
  BY <1>1
<1> QED
  BY <1>3, <1>4 DEF TlbInv, TlbOf, TlbIsCurrent, NoDuplicateEntry

LEMMA TlbNext ==
  ASSUME VmInv, VmInv', TlbInv, [Next]_vars
  PROVE  TlbInv'
<1>1. /\ \A c, d \in CPU : curthread[c] = curthread[d] => c = d
      /\ \A c \in CPU : TlbOf(c)
  BY TlbParts
<1>2. /\ stage \in [Thread -> Stage] /\ t_addrspace \in [Thread -> AsType \cup {NONE}]
      /\ fault \in [Thread -> VAddr \cup {NONE}] /\ curthread \in [CPU -> Thread]
      /\ dying \in [Thread -> PBase \cup {NONE}] /\ region \in [Thread -> Region]
      /\ DOMAIN tlb = CPU
  BY DEF VmInv, ThreadType
<1>3. CASE UNCHANGED <<stage, t_addrspace, fault, curthread, tlb>>
  BY <1>1, <1>3 DEF TlbInv, TlbOf, TlbIsCurrent, NoDuplicateEntry, Mapped
<1>4. ASSUME NEW c \in CPU, NEW t \in Thread, as_create(c, t) PROVE TlbInv'
  <2>1. PICK as : /\ curthread[c] = t /\ stage[t] = "kernel"
                  /\ t_addrspace' = [t_addrspace EXCEPT ![t] = as]
                  /\ stage' = [stage EXCEPT ![t] = "activate"]
                  /\ UNCHANGED <<mem, kheap, region, dying, fault, curthread, tlb>>
    BY <1>4 DEF as_create, At, Goto
  <2>2. Local(t)
    BY <1>2, <2>1 DEF Local
  <2>3. stage'[t] = "activate" /\ fault[t] = NONE
    BY <1>2, <2>1, ThreadFacts DEF Shape
  <2>4. TlbOf(c)'
    BY <2>1, <2>3 DEF TlbOf
  <2> QED
    BY <2>1, <2>2, <2>4, LocalTlb
<1>5. ASSUME NEW c \in CPU, NEW t \in Thread, as_activate(c, t) \/ ExitFlush(c, t) PROVE TlbInv'
  <2>1. /\ curthread[c] = t /\ stage[t] \in {"activate", "flush"}
        /\ \E s \in {"elf", "destroy"} : stage' = [stage EXCEPT ![t] = s]
        /\ tlb' = [tlb EXCEPT ![c] = {}]
        /\ UNCHANGED <<mem, kheap, region, t_addrspace, dying, fault, curthread>>
    BY <1>5 DEF as_activate, ExitFlush, At, Goto
  <2>2. Local(t)
    BY <1>2, <2>1 DEF Local
  <2>3. tlb'[c] = {} /\ \A d \in CPU : d # c => tlb'[d] = tlb[d]
    BY <1>2, <2>1
  <2>4. TlbOf(c)'
    BY <2>3 DEF TlbOf, Mapped
  <2> QED
    BY <2>1, <2>2, <2>3, <2>4, LocalTlb
<1>6. ASSUME NEW c \in CPU, NEW t \in Thread, NEW vaddr \in VBase, NEW npages \in SegPages,
             as_define_region(c, t, vaddr, npages)
      PROVE  TlbInv'
  <2>1. /\ curthread[c] = t /\ stage[t] = "elf"
        /\ UNCHANGED <<mem, kheap, region, dying, fault, curthread, tlb>>
    BY <1>6 DEF as_define_region, At
  <2>2. /\ stage' = stage \/ stage' = [stage EXCEPT ![t] = "failed"]
        /\ t_addrspace' = t_addrspace \/ \E i \in {1, 2} : t_addrspace' =
             [t_addrspace EXCEPT ![t].vbase[i] = vaddr, ![t].npages[i] = npages]
    BY <1>6 DEF as_define_region, Goto
  <2>3. \A s \in Thread : s # t => t_addrspace'[s] = t_addrspace[s] /\ stage'[s] = stage[s]
    BY <1>2, <2>2
  <2>4. Local(t)
    BY <2>1, <2>3 DEF Local
  <2>5. tlb[c] = {}
    BY <1>1, <2>1 DEF TlbOf
  <2>6. TlbOf(c)'
    BY <2>1, <2>5 DEF TlbOf, Mapped
  <2> QED
    BY <2>1, <2>4, <2>6, LocalTlb
<1>7. ASSUME NEW c \in CPU, NEW t \in Thread, DefinedAll(c, t) PROVE TlbInv'
  <2>1. /\ curthread[c] = t /\ stage[t] = "elf"
        /\ \E s \in {"prepare", "failed"} : stage' = [stage EXCEPT ![t] = s]
        /\ UNCHANGED <<mem, kheap, region, t_addrspace, dying, fault, curthread, tlb>>
    BY <1>7 DEF DefinedAll, At, Goto
  <2>2. Local(t)
    BY <1>2, <2>1 DEF Local
  <2>3. tlb[c] = {}
    BY <1>1, <2>1 DEF TlbOf
  <2>4. TlbOf(c)'
    BY <2>1, <2>3 DEF TlbOf, Mapped
  <2> QED
    BY <2>1, <2>2, <2>4, LocalTlb
<1>8. ASSUME NEW c \in CPU, NEW t \in Thread, as_prepare_load(c, t) PROVE TlbInv'
  <2>1. PICK i, a : /\ curthread[c] = t /\ stage[t] = "prepare"
                    /\ t_addrspace' = [t_addrspace EXCEPT ![t].pbase[i] = a]
                    /\ UNCHANGED <<kheap, dying, fault, curthread, tlb>>
    BY <1>8 DEF as_prepare_load, At
  <2>2. /\ stage' = stage \/ \E s \in {"failed", "load"} : stage' = [stage EXCEPT ![t] = s]
        /\ \E k : region' = [region EXCEPT ![t] = k]
    BY <1>8 DEF as_prepare_load, Goto
  <2>3. \A s \in Thread : s # t => /\ t_addrspace'[s] = t_addrspace[s] /\ stage'[s] = stage[s]
                                   /\ region'[s] = region[s]
    BY <1>2, <2>1, <2>2
  <2>4. Local(t)
    BY <2>1, <2>3 DEF Local
  <2>5. tlb[c] = {}
    BY <1>1, <2>1 DEF TlbOf
  <2>6. TlbOf(c)'
    BY <2>1, <2>5 DEF TlbOf, Mapped
  <2> QED
    BY <2>1, <2>4, <2>6, LocalTlb
<1>9. ASSUME NEW c \in CPU, NEW t \in Thread, LoadDone(c, t) PROVE TlbInv'
  <2>1. PICK s \in {"user", "failed"} : stage' = [stage EXCEPT ![t] = s]
    BY <1>9 DEF LoadDone, Goto
  <2>2. /\ curthread[c] = t /\ stage[t] = "load" /\ fault[t] = NONE
        /\ UNCHANGED <<mem, kheap, region, t_addrspace, dying, fault, curthread, tlb>>
    BY <1>9 DEF LoadDone, At
  <2>3. Local(t) /\ stage'[t] = s
    BY <1>2, <2>1, <2>2 DEF Local
  <2>4. TlbOf(c) /\ stage'[t] \notin {"elf", "prepare"}
    BY <1>1, <2>1, <2>3
  <2>5. TlbOf(c)'
    BY <2>2, <2>4 DEF TlbOf
  <2> QED
    BY <2>2, <2>3, <2>5, LocalTlb
<1>10. ASSUME NEW c \in CPU, NEW t \in Thread, NEW v \in Touched, TlbMiss(c, t, v) PROVE TlbInv'
  <2>1. /\ curthread[c] = t /\ ~Mapped(c, v) /\ fault' = [fault EXCEPT ![t] = v]
        /\ UNCHANGED <<mem, kheap, stage, region, t_addrspace, dying, curthread, tlb>>
    BY <1>10 DEF TlbMiss, At
  <2>2. Local(t) /\ fault'[t] = v
    BY <1>2, <2>1 DEF Local
  <2>3. TlbOf(c)
    BY <1>1
  <2>4. TlbOf(c)'
    BY <2>1, <2>2, <2>3 DEF TlbOf, Mapped
  <2> QED
    BY <2>1, <2>2, <2>4, LocalTlb
<1>11. ASSUME NEW c \in CPU, NEW t \in Thread, VmFaultMaps(c, t) PROVE TlbInv'
  <2> DEFINE x == <<fault[t], Translate(t_addrspace[t], fault[t])>>
  <2>1. /\ curthread[c] = t /\ fault[t] # NONE /\ fault' = [fault EXCEPT ![t] = NONE]
        /\ tlb' = [tlb EXCEPT ![c] = @ \cup {x}]
        /\ UNCHANGED <<mem, kheap, stage, region, t_addrspace, dying, curthread>>
    BY <1>11 DEF VmFaultMaps, Handling
  <2>2. x[2] = Translate(t_addrspace[t], x[1])
    OBVIOUS
  <2> HIDE DEF x
  <2>3. Local(t) /\ fault'[t] = NONE
    BY <1>2, <2>1 DEF Local
  <2>4. tlb'[c] = tlb[c] \cup {x} /\ \A d \in CPU : d # c => tlb'[d] = tlb[d]
    BY <1>2, <2>1
  <2>5. TlbOf(c) /\ stage[t] \in {"load", "user"}
    BY <1>1, <2>1, ThreadFacts DEF Shape
  <2>6. TlbOf(c)'
    BY <2>1, <2>2, <2>3, <2>4, <2>5 DEF TlbOf
  <2> QED
    BY <2>1, <2>3, <2>4, <2>6, LocalTlb
<1>12. ASSUME NEW c \in CPU, NEW t \in Thread, VmFaultFails(c, t) PROVE TlbInv'
  <2>1. /\ curthread[c] = t /\ fault' = [fault EXCEPT ![t] = NONE] /\ fault[t] # NONE
        /\ UNCHANGED <<kheap, region, t_addrspace, dying, curthread, tlb>>
        /\ stage' = stage \/ stage' = [stage EXCEPT ![t] = "failed"]
    BY <1>12 DEF VmFaultFails, Handling, Goto
  <2>2. Local(t) /\ fault'[t] = NONE /\ stage'[t] \in {stage[t], "failed"}
    BY <1>2, <2>1 DEF Local
  <2>3. TlbOf(c) /\ stage[t] \in {"load", "user"}
    BY <1>1, <2>1, ThreadFacts DEF Shape
  <2>4. TlbOf(c)'
    BY <2>1, <2>2, <2>3 DEF TlbOf
  <2> QED
    BY <2>1, <2>2, <2>4, LocalTlb
<1>13. ASSUME NEW c \in CPU, NEW t \in Thread, thread_exit(c, t) PROVE TlbInv'
  <2>1. /\ curthread[c] = t /\ fault[t] = NONE
        /\ dying' = [dying EXCEPT ![t] = t_addrspace[t].pbase]
        /\ t_addrspace' = [t_addrspace EXCEPT ![t] = NONE]
        /\ stage' = [stage EXCEPT ![t] = "flush"]
        /\ UNCHANGED <<mem, kheap, region, fault, curthread, tlb>>
    BY <1>13 DEF thread_exit, At, Goto
  <2>2. Local(t) /\ t_addrspace'[t] = NONE /\ stage'[t] = "flush"
    BY <1>2, <2>1 DEF Local
  <2>3. TlbOf(c)'
    BY <2>1, <2>2 DEF TlbOf
  <2> QED
    BY <2>1, <2>2, <2>3, LocalTlb
<1>14. ASSUME NEW c \in CPU, NEW t \in Thread, as_destroy(c, t) PROVE TlbInv'
  <2>1. /\ curthread[c] = t /\ stage[t] = "destroy"
        /\ UNCHANGED <<kheap, t_addrspace, fault, curthread, tlb>>
        /\ stage' = stage \/ stage' = [stage EXCEPT ![t] = "kernel"]
        /\ dying' = dying \/ dying' = [dying EXCEPT ![t] = NONE]
        /\ \E k : region' = [region EXCEPT ![t] = k]
    BY <1>14 DEF as_destroy, At, Goto
  <2>2. Local(t) /\ stage'[t] \in {"destroy", "kernel"}
    BY <1>2, <2>1 DEF Local
  <2>3. fault[t] = NONE /\ t_addrspace[t] = NONE
    BY <2>1, ThreadFacts DEF Shape
  <2>4. TlbOf(c)'
    BY <2>1, <2>2, <2>3 DEF TlbOf
  <2> QED
    BY <2>1, <2>2, <2>4, LocalTlb
<1>15. ASSUME NEW c \in CPU, NEW t \in Thread, thread_switch(c, t) PROVE TlbInv'
  <2>1. /\ \A d \in CPU : curthread[d] # t
        /\ curthread' = [curthread EXCEPT ![c] = t]
        /\ tlb' = IF t_addrspace[t] # NONE THEN [tlb EXCEPT ![c] = {}] ELSE tlb
        /\ UNCHANGED <<mem, kheap, stage, region, t_addrspace, dying, fault>>
    BY <1>15 DEF thread_switch
  <2>2. curthread'[c] = t /\ \A d \in CPU : d # c => curthread'[d] = curthread[d] /\ tlb'[d] = tlb[d]
    BY <1>2, <2>1
  <2>3. \A d, e \in CPU : curthread'[d] = curthread'[e] => d = e
    BY <1>1, <2>1, <2>2
  <2>4. ASSUME NEW d \in CPU, d # c PROVE TlbOf(d)'
    BY <1>1, <2>1, <2>2, <2>4 DEF TlbOf, Mapped
  <2>5. TlbOf(c)'
    <3>1. CASE t_addrspace[t] # NONE
      <4>1. tlb'[c] = {}
        BY <1>2, <2>1, <3>1
      <4> QED
        BY <4>1 DEF TlbOf, Mapped
    <3>2. CASE t_addrspace[t] = NONE
      <4>1. fault[t] = NONE /\ stage[t] \notin {"elf", "prepare"}
        BY <3>2, ThreadFacts DEF Shape
      <4> QED
        BY <2>1, <2>2, <3>2, <4>1 DEF TlbOf
    <3> QED
      BY <3>1, <3>2
  <2>6. \A d \in CPU : TlbOf(d)'
    BY <2>4, <2>5
  <2> QED
    BY <2>3, <2>6 DEF TlbInv, TlbOf, TlbIsCurrent, NoDuplicateEntry
<1>16. ASSUME NEW c \in CPU, NEW t \in Thread, VmFaultPanics(c, t) PROVE TlbInv'
  BY <1>3, <1>16 DEF VmFaultPanics
<1>17. ASSUME NEW n \in KernelPages, alloc_kpages(n) PROVE TlbInv'
  BY <1>3, <1>17 DEF alloc_kpages
<1>18. ASSUME NEW a \in kheap, free_kpages(a) PROVE TlbInv'
  BY <1>3, <1>18 DEF free_kpages
<1>19. CASE UNCHANGED vars
  BY <1>3, <1>19 DEF vars
<1>20. CASE \E c \in CPU, t \in Thread :
             \/ as_create(c, t) \/ as_activate(c, t) \/ DefinedAll(c, t)
             \/ \E vaddr \in VBase, npages \in SegPages : as_define_region(c, t, vaddr, npages)
             \/ as_prepare_load(c, t) \/ LoadDone(c, t)
             \/ \E v \in Touched : TlbMiss(c, t, v)
             \/ VmFaultMaps(c, t) \/ VmFaultFails(c, t) \/ VmFaultPanics(c, t)
             \/ thread_exit(c, t) \/ ExitFlush(c, t) \/ as_destroy(c, t)
             \/ thread_switch(c, t)
  BY <1>4, <1>5, <1>6, <1>7, <1>8, <1>9, <1>10, <1>11, <1>12, <1>13, <1>14, <1>15, <1>16, <1>20
<1> QED
  BY <1>17, <1>18, <1>19, <1>20 DEF Next

LEMMA TlbInit == Init => TlbInv
  BY DEF Init, TlbInv, TlbIsCurrent, NoDuplicateEntry

\* Whatever the interleaving of switches, migrations, misses and exits on all
\* cpus: a current thread finds in the TLB of its cpu only pages of its address
\* space, and vm_fault never writes an entry for a page the TLB already holds.
THEOREM TlbStaysCurrent == Spec => []TlbIsCurrent
<1>1. VmInv /\ VmInv' /\ TlbInv /\ [Next]_vars => TlbInv'
  BY TlbNext
<1>2. TlbInv => TlbIsCurrent
  BY DEF TlbInv
<1> QED
  BY VmInductive, TlbInit, <1>1, <1>2, PTL DEF Spec

\* What vm_fault enters into the TLB is a page of the memory.
LEMMA TranslateInPage ==
  ASSUME VmInv, ~mem.down, NEW t \in Thread, t_addrspace[t] # NONE, NEW v \in Nat,
         SetUpProperly(t_addrspace[t]), Translate(t_addrspace[t], v) # 0
  PROVE  Translate(t_addrspace[t], v) \in Page
<1> DEFINE as == t_addrspace[t]
           found == {i \in Region : Holds(as, i, v)}
           k == Min(found)
<1>1. /\ as.vbase \in [Region -> Nat] /\ as.npages \in [Region -> Nat] /\ as.pbase \in PBase
  BY ThreadFacts
<1>2. Translate(as, v) = IF found = {} THEN 0 ELSE as.pbase[k] + v - as.vbase[k]
  BY DEF Translate
<1>3. found # {}
  BY <1>2
<1>4. PICK e \in found : TRUE
  BY <1>3
<1>5. found \in SUBSET Nat
  BY DEF Region
<1>6. k \in found
  <2> HIDE DEF found
  <2> QED
    BY <1>4, <1>5, MinOfNats
<1>7. k \in Region /\ v \in as.vbase[k] .. as.vbase[k] + as.npages[k] - 1
  BY <1>6 DEF Holds
<1>8. as.pbase[k] # 0 /\ as.pbase[k] \in {0} \cup Page
  BY <1>1, <1>7 DEF SetUpProperly, PBase
<1> HIDE DEF k
<1> DEFINE b == Block(as.pbase[k], as.npages[k])
<1>9. b \in ToSet(mem.used_blks)
  BY <1>7, <1>8 DEF VmInv, OwnInv, Sized
<1>10. b.addr = as.pbase[k] /\ b.pages = as.npages[k]
  BY DEF Block
<1> HIDE DEF b
<1>11. b \in Blk /\ PagesOf(b) \subseteq Page
  <2>1. mem.used_blks \in Seq(Blk) /\ PagesIn(mem.used_blks) \subseteq Page
    BY MemFacts DEF VmInv
  <2> QED
    BY <1>9, <2>1, ListInPage DEF InPage
<1> DEFINE x == as.pbase[k]
           y == as.vbase[k]
           z == as.npages[k]
<1>12. x \in Nat /\ y \in Nat /\ z \in Nat /\ v \in y .. y + z - 1
  BY <1>1, <1>7, <1>8, PageFacts
<1> HIDE DEF x, y, z
<1>13. x + v - y \in x .. x + z - 1
  BY <1>12
<1>14. PagesOf(b) = x .. x + z - 1
  BY <1>10 DEF PagesOf, x, z
<1>15. Translate(as, v) = x + v - y
  BY <1>2, <1>3 DEF x, y, k
<1> QED
  BY <1>11, <1>13, <1>14, <1>15

\* The types of all variables: in particular a TLB entry leads into the memory
\* and the counters of the allocator stay within their bounds.
THEOREM VmTypes == Spec => []TypeOK
<1> DEFINE TlbType == tlb \in [CPU -> SUBSET (VAddr \X Page)]
<1>1. Init => TlbType
  BY DEF Init
<1>2. ASSUME VmInv, TlbType, [Next]_vars PROVE TlbType'
  <2>1. CASE tlb' = tlb
    BY <1>2, <2>1
  <2>2. CASE \E c \in CPU : tlb' = [tlb EXCEPT ![c] = {}]
    BY <1>2, <2>2
  <2>3. ASSUME NEW c \in CPU, NEW t \in Thread, VmFaultMaps(c, t) PROVE TlbType'
    <3> DEFINE p == Translate(t_addrspace[t], fault[t])
    <3>1. /\ ~mem.down /\ fault[t] # NONE /\ SetUpProperly(t_addrspace[t]) /\ p # 0
          /\ tlb' = [tlb EXCEPT ![c] = @ \cup {<<fault[t], p>>}]
      BY <2>3 DEF VmFaultMaps, Handling
    <3>2. fault[t] \in VAddr /\ fault[t] \in Nat
      BY <1>2, <3>1, NoneFacts DEF VmInv, ThreadType, VAddr
    <3>3. t_addrspace[t] # NONE
      BY <1>2, <3>1, ThreadFacts DEF Shape
    <3>4. p \in Page
      BY <1>2, <3>1, <3>2, <3>3, TranslateInPage
    <3> DEFINE S == VAddr \X Page
               x == <<fault[t], p>>
    <3> HIDE DEF p
    <3>5. x \in S /\ tlb \in [CPU -> SUBSET S] /\ tlb' = [tlb EXCEPT ![c] = @ \cup {x}]
      BY <1>2, <3>1, <3>2, <3>4
    <3> HIDE DEF S, x
    <3>6. tlb' \in [CPU -> SUBSET S]
      BY <3>5
    <3> QED
      BY <3>6 DEF S
  <2>4. ASSUME Next PROVE \/ tlb' = tlb
                          \/ \E c \in CPU : tlb' = [tlb EXCEPT ![c] = {}]
                          \/ \E c \in CPU, t \in Thread : VmFaultMaps(c, t)
    <3>1. ASSUME NEW c \in CPU, NEW t \in Thread,
                 as_activate(c, t) \/ ExitFlush(c, t) \/ thread_switch(c, t)
          PROVE  tlb' = tlb \/ tlb' = [tlb EXCEPT ![c] = {}]
      BY <3>1 DEF as_activate, ExitFlush, thread_switch
    <3>2. ASSUME NEW c \in CPU, NEW t \in Thread,
                 \/ as_create(c, t) \/ DefinedAll(c, t) \/ as_prepare_load(c, t) \/ LoadDone(c, t)
                 \/ VmFaultFails(c, t) \/ VmFaultPanics(c, t) \/ thread_exit(c, t)
                 \/ as_destroy(c, t)
          PROVE  tlb' = tlb
      BY <3>2 DEF as_create, DefinedAll, as_prepare_load, LoadDone, VmFaultFails, VmFaultPanics,
         thread_exit, as_destroy
    <3>3. ASSUME NEW c \in CPU, NEW t \in Thread, NEW a \in VBase, NEW n \in SegPages,
                 as_define_region(c, t, a, n)
          PROVE  tlb' = tlb
      BY <3>3 DEF as_define_region
    <3>4. ASSUME NEW c \in CPU, NEW t \in Thread, NEW v \in Touched, TlbMiss(c, t, v)
          PROVE  tlb' = tlb
      BY <3>4 DEF TlbMiss
    <3>5. ASSUME NEW n, alloc_kpages(n) \/ free_kpages(n) PROVE tlb' = tlb
      BY <3>5 DEF alloc_kpages, free_kpages
    <3> QED
      BY <2>4, <3>1, <3>2, <3>3, <3>4, <3>5 DEF Next
  <2>5. CASE UNCHANGED vars
    BY <2>1, <2>5 DEF vars
  <2> HIDE DEF TlbType
  <2> QED
    BY <1>2, <2>1, <2>2, <2>3, <2>4, <2>5
<1>3. VmInv /\ TlbType => TypeOK
  BY DEF VmInv, ThreadType, MemInv, TypeOK
<1> HIDE DEF TlbType
<1>4. VmInv /\ TlbType /\ [Next]_vars => TlbType'
  BY <1>2
<1> QED
  BY VmInductive, <1>1, <1>3, <1>4, PTL DEF Spec

=============================================================================
