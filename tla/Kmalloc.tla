------------------------------ MODULE Kmalloc ------------------------------
(***************************************************************************)
(* The kernel heap, kern/vm/kmalloc.c: kmalloc and kfree on top of the     *)
(* page allocator of module PhysMem.                                       *)
(*                                                                         *)
(* Threads call kmalloc and kfree on any cpu.  What runs under             *)
(* kmalloc_spinlock is one step.  The calls of alloc_kpages and            *)
(* free_kpages are made without the lock, and the page allocator has none: *)
(* such a call has a first step, in which it walks the lists, and a second,*)
(* in which it relinks them, and the calls of two threads can overlap.     *)
(* That is a data race; raced says that there was one.  A block type is    *)
(* the size of its blocks.                                                 *)
(***************************************************************************)
EXTENDS PhysMem

CONSTANTS Thread,
          NONE,
          PAGE_SIZE,   \* bytes of a page
          Sizes,       \* sizes[]
          NPAGEREFS,   \* page references in pagerefs[]
          Requests,    \* the sizes kmalloc is asked for
          MaxLive      \* bound: blocks the kernel holds at once

LARGEST_SUBPAGE_SIZE == Max(Sizes)
Ref == 0 .. NPAGEREFS - 1
Byte == 0 .. (FirstPage + NumPages) * PAGE_SIZE - 1

ASSUME KmallocAssumption ==
  /\ PAGE_SIZE \in Nat \ {0}
  /\ Sizes # {} /\ Sizes \subseteq 1 .. PAGE_SIZE
  /\ NPAGEREFS \in Nat
  /\ Requests \subseteq Nat \ {0}
  /\ MaxLive \in Nat
  /\ NONE \notin [page : Nat, blktype : Nat, nfree : Nat, freelist : Seq(Nat)]

VARIABLES
  mem,        \* the memory_t
  pagerefs,   \* pageref structures; NONE for one that pagerefs_inuse has free
  sizebases,  \* the list of page references of each block type
  allbase,    \* the list of all page references
  step,       \* where each thread is: outside, or about to call alloc_kpages
              \* ("getpage"), in it ("walk"), about to enter the new page
              \* ("newpage"), about to call free_kpages ("giveback"), in it ("relink")
  want,       \* the size a thread has asked for
  pick,       \* the free block that its walk in alloc_ppages has found
  page,       \* the page a thread got from alloc_kpages or is about to free
  live,       \* the blocks the kernel holds: address and bytes asked for
  raced       \* history: two calls of the page allocator have overlapped

vars == <<mem, pagerefs, sizebases, allbase, step, want, pick, page, live, raced>>
refVars == <<pagerefs, sizebases, allbase>>

Init ==
  /\ mem = vm_bootstrap
  /\ pagerefs = [r \in Ref |-> NONE]
  /\ sizebases = [b \in Sizes |-> <<>>]
  /\ allbase = <<>>
  /\ step = [t \in Thread |-> "outside"]
  /\ want = [t \in Thread |-> 0]
  /\ pick = [t \in Thread |-> 0]
  /\ page = [t \in Thread |-> 0]
  /\ live = {}
  /\ raced = FALSE

At(t, s) == ~mem.down /\ step[t] = s
Goto(t, s) == step' = [step EXCEPT ![t] = s]

\* The first size that holds sz, and how many blocks of a size a page has.
blocktype(sz) == Min({s \in Sizes : sz <= s})
PerPage(b) == PAGE_SIZE \div b

\* The page references of a list that have a free block.
Open(list) == {i \in DOMAIN list : pagerefs[list[i]].nfree > 0}

-----------------------------------------------------------------------------
(* Calls of the page allocator *)

InPager(t) == step[t] \in {"walk", "relink"}

Enter(t, s) ==
  /\ Goto(t, s)
  /\ raced' = (raced \/ \E u \in Thread \ {t} : InPager(u))

FindPages(t, npages) ==
  /\ Enter(t, "walk")
  /\ pick' = [pick EXCEPT ![t] = alloc_addr(mem, npages)]

\* What alloc_ppages returns and leaves.  After an overlap two calls may have found the
\* same block: each returns the one it has found, and the change of one may be lost.
Allocated(t, npages) ==
  {[addr |-> alloc_addr(mem, npages), mem |-> alloc_ppages(mem, npages)]}
  \cup (IF raced THEN {[addr |-> pick[t], mem |-> m] : m \in {mem, alloc_ppages(mem, npages)}} ELSE {})

Freed(a) == {free_ppages(mem, a)} \cup (IF raced THEN {mem} ELSE {})

-----------------------------------------------------------------------------
(* kmalloc *)

\* The pages of a block handed out.  Without pages alloc_kpages returns the kernel
\* address of physical page 0, not NULL.  That page holds the exception handlers:
\* once they are written over, what the kernel does is undefined, and the model
\* stops.
Handed(m, p) == [m EXCEPT !.down = @ \/ p = 0]

\* A large request, rounded up to pages.
PagesFor(sz) == (sz + PAGE_SIZE - 1) \div PAGE_SIZE

KmallocPages(t, sz) ==
  /\ At(t, "outside")
  /\ sz >= LARGEST_SUBPAGE_SIZE
  /\ want' = [want EXCEPT ![t] = sz]
  /\ FindPages(t, PagesFor(sz))
  /\ UNCHANGED <<mem, refVars, page, live>>

TakePages(t) ==
  /\ At(t, "walk")
  /\ want[t] >= LARGEST_SUBPAGE_SIZE
  /\ \E got \in Allocated(t, PagesFor(want[t])) :
       /\ mem' = Handed(got.mem, got.addr)
       /\ live' = live \cup {[addr |-> got.addr * PAGE_SIZE, size |-> want[t]]}
  /\ Goto(t, "outside")
  /\ want' = [want EXCEPT ![t] = 0]
  /\ pick' = [pick EXCEPT ![t] = 0]
  /\ UNCHANGED <<refVars, page, raced>>

\* doalloc: the first block of the free list of r goes to the caller.
DoAlloc(refs, r, sz) ==
  LET pr == refs[r]
  IN  /\ pagerefs' = [refs EXCEPT ![r] = [pr EXCEPT !.nfree = @ - 1, !.freelist = Tail(@)]]
      /\ live' = live \cup {[addr |-> pr.page * PAGE_SIZE + Head(pr.freelist), size |-> sz]}

\* subpage_kmalloc finds a page of the right size with a free block.
SubpageHit(t, sz) ==
  LET list == sizebases[blocktype(sz)]
  IN  /\ At(t, "outside")
      /\ sz < LARGEST_SUBPAGE_SIZE
      /\ Open(list) # {}
      /\ DoAlloc(pagerefs, list[Min(Open(list))], sz)
      /\ UNCHANGED <<mem, sizebases, allbase, step, want, pick, page, raced>>

\* It finds none, and releases the lock to get a page...
SubpageMiss(t, sz) ==
  /\ At(t, "outside")
  /\ sz < LARGEST_SUBPAGE_SIZE
  /\ Open(sizebases[blocktype(sz)]) = {}
  /\ want' = [want EXCEPT ![t] = sz]
  /\ Goto(t, "getpage")
  /\ UNCHANGED <<mem, refVars, pick, page, live, raced>>

AskPage(t) ==
  /\ At(t, "getpage")
  /\ FindPages(t, 1)
  /\ UNCHANGED <<mem, refVars, want, page, live>>

GetPage(t) ==
  /\ At(t, "walk")
  /\ want[t] < LARGEST_SUBPAGE_SIZE
  /\ \E got \in Allocated(t, 1) :
       /\ mem' = got.mem
       /\ page' = [page EXCEPT ![t] = got.addr]
  /\ Goto(t, "newpage")
  /\ pick' = [pick EXCEPT ![t] = 0]
  /\ UNCHANGED <<refVars, want, live, raced>>

\* ...which it enters under the first free page reference, with all its blocks
\* on the free list, the last block first.
FreeRefs == {r \in Ref : pagerefs[r] = NONE}

FreshPage(p, b) ==
  [page |-> p, blktype |-> b, nfree |-> PerPage(b),
   freelist |-> [i \in 1 .. PerPage(b) |-> (PerPage(b) - i) * b]]

NewPage(t) ==
  LET r == Min(FreeRefs)
      b == blocktype(want[t])
  IN  /\ At(t, "newpage")
      /\ FreeRefs # {}
      /\ DoAlloc([pagerefs EXCEPT ![r] = FreshPage(page[t], b)], r, want[t])
      /\ sizebases' = [sizebases EXCEPT ![b] = <<r>> \o @]
      /\ allbase' = <<r>> \o allbase
      /\ mem' = Handed(mem, page[t])
      /\ Goto(t, "outside")
      /\ want' = [want EXCEPT ![t] = 0]
      /\ page' = [page EXCEPT ![t] = 0]
      /\ UNCHANGED <<pick, raced>>

\* No page reference is left: the page is given back and kmalloc returns NULL.
NoPageref(t) ==
  /\ At(t, "newpage")
  /\ FreeRefs = {}
  /\ Goto(t, "giveback")
  /\ want' = [want EXCEPT ![t] = 0]
  /\ UNCHANGED <<mem, refVars, pick, page, live, raced>>

-----------------------------------------------------------------------------
(* kfree *)

\* The page references whose page holds address a, as positions in allbase.
Holders(a) == {i \in DOMAIN allbase : pagerefs[allbase[i]].page = a \div PAGE_SIZE}

\* All blocks of the page are free; faulty variant: one is missing.
AlmostFree(pr) == pr.nfree + 1 = PerPage(pr.blktype)
WholePageFree(pr) == pr.nfree = PerPage(pr.blktype)

\* remove_lists takes r off a list, where it first finds it.
Drop(list, r) == RemoveFirst(list, r)

\* subpage_kfree: the block goes back on its page's free list; a page with all
\* its blocks free loses its reference, and is freed without the lock.
SubpageKfree(t, b) ==
  LET r == allbase[Min(Holders(b.addr))]
      pr == [pagerefs[r] EXCEPT !.nfree = @ + 1, !.freelist = <<b.addr % PAGE_SIZE>> \o @]
  IN  /\ At(t, "outside")
      /\ Holders(b.addr) # {}
      /\ live' = live \ {b}
      /\ \/ /\ WholePageFree(pr)
            /\ pagerefs' = [pagerefs EXCEPT ![r] = NONE]
            /\ sizebases' = [sizebases EXCEPT ![pr.blktype] = Drop(@, r)]
            /\ allbase' = Drop(allbase, r)
            /\ page' = [page EXCEPT ![t] = pr.page]
            /\ Goto(t, "giveback")
         \/ /\ ~WholePageFree(pr)
            /\ pagerefs' = [pagerefs EXCEPT ![r] = pr]
            /\ UNCHANGED <<sizebases, allbase, page, step>>
      /\ UNCHANGED <<mem, want, pick, raced>>

\* An address on no page of the subpage allocator is a large block.
KfreePages(t, b) ==
  /\ At(t, "outside")
  /\ Holders(b.addr) = {}
  /\ live' = live \ {b}
  /\ page' = [page EXCEPT ![t] = b.addr \div PAGE_SIZE]
  /\ Goto(t, "giveback")
  /\ UNCHANGED <<mem, refVars, want, pick, raced>>

\* The call of free_kpages.
CallFree(t) ==
  /\ At(t, "giveback")
  /\ Enter(t, "relink")
  /\ UNCHANGED <<mem, refVars, want, pick, page, live>>

GiveBack(t) ==
  /\ At(t, "relink")
  /\ mem' \in Freed(page[t])
  /\ page' = [page EXCEPT ![t] = 0]
  /\ Goto(t, "outside")
  /\ UNCHANGED <<refVars, want, pick, live, raced>>

-----------------------------------------------------------------------------

Calling == {t \in Thread : step[t] \in {"getpage", "walk", "newpage"}}

kmalloc(t, sz) ==
  /\ Cardinality(live) + Cardinality(Calling) < MaxLive
  /\ KmallocPages(t, sz) \/ SubpageHit(t, sz) \/ SubpageMiss(t, sz)

kfree(t, b) == SubpageKfree(t, b) \/ KfreePages(t, b)

\* Bound: after a race the calls that have begun come to their end, and no other begins.
Next ==
  \E t \in Thread :
     \/ ~raced /\ \E sz \in Requests : kmalloc(t, sz)
     \/ ~raced /\ \E b \in live : kfree(t, b)
     \/ TakePages(t) \/ AskPage(t) \/ GetPage(t) \/ NewPage(t) \/ NoPageref(t)
     \/ CallFree(t) \/ GiveBack(t)

Spec == Init /\ [][Next]_vars

-----------------------------------------------------------------------------
(* Properties *)

PagerefType ==
  [page : {0} \cup Page, blktype : Sizes, nfree : 0 .. PAGE_SIZE, freelist : Seq(0 .. PAGE_SIZE - 1)]

TypeOK ==
  /\ mem \in MemType
  /\ pagerefs \in [Ref -> PagerefType \cup {NONE}]
  /\ sizebases \in [Sizes -> Seq(Ref)]
  /\ allbase \in Seq(Ref)
  /\ step \in [Thread -> {"outside", "getpage", "walk", "newpage", "giveback", "relink"}]
  /\ want \in [Thread -> Requests \cup {0}]
  /\ pick \in [Thread -> {0} \cup Page]
  /\ page \in [Thread -> {0} \cup Page]
  /\ live \subseteq [addr : Byte, size : Requests]
  /\ raced \in BOOLEAN

BytesOf(b) == b.addr .. b.addr + b.size - 1
PagesUnder(b) == {a \div PAGE_SIZE : a \in BytesOf(b)}
InUse == {r \in Ref : pagerefs[r] # NONE}

\* The kernel runs, and no two calls of the page allocator have overlapped.
Sound == ~mem.down /\ ~raced

\* The blocks the kernel holds are disjoint and lie on pages that are not free,
\* whatever other calls come between a call's release of the lock and its calls of
\* the page allocator, and between those and the lock's next acquisition: no call
\* hands out memory that is in use, or frees the page under a block in use.  Excepted
\* is what alloc_ppages and free_ppages do when two of their calls overlap.
BlocksDontOverlap ==
  Sound =>
    /\ \A a, b \in live : a # b => BytesOf(a) \cap BytesOf(b) = {}
    /\ \A b \in live : PagesUnder(b) \cap PagesIn(mem.free_blks) = {}

\* The two kinds of lists hold the page references in use, each once and under
\* its own size, and a page's blocks are either on its free list or in use, none
\* on both, none on neither, with at least one in use.
ListsAgree ==
  Sound =>
    /\ ToSet(allbase) = InUse /\ IsInjective(allbase)
    /\ \A s \in Sizes : /\ IsInjective(sizebases[s])
                        /\ ToSet(sizebases[s]) = {r \in InUse : pagerefs[r].blktype = s}
    /\ \A r \in InUse :
         LET pr == pagerefs[r]
             used == {b.addr % PAGE_SIZE : b \in {x \in live : x.addr \div PAGE_SIZE = pr.page}}
         IN  /\ pr.nfree = Len(pr.freelist) /\ IsInjective(pr.freelist)
             /\ used # {} /\ used \cap ToSet(pr.freelist) = {}
             /\ used \cup ToSet(pr.freelist) = {i * pr.blktype : i \in 0 .. PerPage(pr.blktype) - 1}

\* The heap loses no page: every page in use is a page of the subpage allocator,
\* a page in the hands of a call, or a page of a large block, and of only one; and
\* the lists agree on whose page it is.
NoPageIsLost ==
  Sound =>
    LET subpages == {pagerefs[r].page : r \in InUse}
        hands == {page[t] : t \in Thread} \ {0}
        large == UNION {PagesUnder(b) : b \in {x \in live : Holders(x.addr) = {}}}
    IN  /\ hands \cup large \cup subpages \subseteq PagesIn(mem.used_blks)
        /\ {b.addr : b \in ToSet(mem.used_blks)} \subseteq hands \cup large \cup subpages
        /\ hands \cap subpages = {} /\ large \cap (hands \cup subpages) = {}
        /\ \A q, r \in InUse : pagerefs[q].page = pagerefs[r].page => q = r
        /\ ListsAgree

\* Both, as one invariant of the kernel's heap, until two calls of the page allocator
\* overlap.
KernelHeapIsWhole == BlocksDontOverlap /\ NoPageIsLost

\* Out of memory kmalloc returns NULL, as lib.h says: it never returns an
\* address in physical page 0, which no allocator owns.
NullWhenOutOfMemory == \A b \in live : 0 \notin PagesUnder(b)

\* kmalloc.c:192 has "one spinlock for the whole thing", and mallocstress calls kmalloc
\* from many threads at once (malloctest.c:46): no two blocks in use overlap.
OneSpinlockIsEnough ==
  ~mem.down => \A a, b \in live : a # b => BytesOf(a) \cap BytesOf(b) = {}
=============================================================================
