------------------------------ MODULE PhysMem ------------------------------
(***************************************************************************)
(* The contiguous allocator of physical pages: alloc_ppages and            *)
(* free_ppages of kern/arch/mips/vm/vm.c, as functions from a memory_t to  *)
(* the memory_t the call leaves behind.                                    *)
(*                                                                         *)
(* That is a call that runs to its end with no other in between.  The      *)
(* functions take no lock and are called with interrupts on, so two calls  *)
(* may overlap; what a call under way can find is then in the module that  *)
(* makes the calls.  Kmalloc has the overlapping calls as steps; AddrSpace *)
(* assumes that calls do not overlap, which nothing in the code ensures.   *)
(*                                                                         *)
(* Addresses are counted in pages; 0 is no address.  A linked list of      *)
(* node_t is a sequence of blocks.  The containers of the vm_space array   *)
(* are counted, not told apart: nodes is the number of those whose addr is *)
(* not 0.                                                                  *)
(***************************************************************************)
EXTENDS Naturals, SequencesExt, FiniteSetsExt

CONSTANTS FirstPage,  \* mem.start
          NumPages,   \* mem.pages
          MAX_NODES,  \* containers in vm_space
          Policy      \* mem.policy; vm_bootstrap sets first_fit, nothing else changes it

ASSUME PhysMemAssumption ==
  /\ FirstPage \in Nat \ {0}
  /\ NumPages \in Nat \ {0}
  /\ MAX_NODES \in Nat \ {0}
  /\ Policy \in {"first_fit", "best_fit", "worst_fit"}

Page == FirstPage .. FirstPage + NumPages - 1

Block(addr, pages) == [addr |-> addr, pages |-> pages]
PagesOf(b) == b.addr .. b.addr + b.pages - 1
EndOf(b) == b.addr + b.pages

\* The memory after vm_bootstrap; down is set by panic().
vm_bootstrap ==
  [free_blks |-> <<Block(FirstPage, NumPages)>>, used_blks |-> <<>>,
   free_pages |-> NumPages, nodes |-> 1, down |-> FALSE]

\* Insert before the first block that does not lie below.  Faulty variant: at the head.
PushBlock(blks, b) == <<b>> \o blks

InsertBlock(blks, b) ==
  InsertAt(blks, Min({i \in 1 .. Len(blks) + 1 : i <= Len(blks) => blks[i].addr >= b.addr}), b)

\* The block alloc_ppages selects among those that fit: in each policy the
\* first of the equally good ones.
Fitting(blks, npages) == {i \in DOMAIN blks : blks[i].pages >= npages}

Better(p, q) ==
  \/ Policy = "best_fit" /\ p < q
  \/ Policy = "worst_fit" /\ p > q

Selected(blks, npages) ==
  CHOOSE i \in Fitting(blks, npages) :
     \A j \in Fitting(blks, npages) :
        /\ ~Better(blks[j].pages, blks[i].pages)
        /\ j < i => Better(blks[i].pages, blks[j].pages)

\* An exact fit moves to the used list; a larger block gives its first pages
\* to a new node.  With no container left the kernel panics.
TakeBlock(m, i, npages) ==
  LET b == m.free_blks[i]
      exact == b.pages = npages
  IN  IF ~exact /\ m.nodes = MAX_NODES
      THEN [m EXCEPT !.down = TRUE]
      ELSE [m EXCEPT
              !.free_blks = IF exact THEN RemoveAt(@, i)
                            ELSE ReplaceAt(@, i, Block(b.addr + npages, b.pages - npages)),
              !.used_blks = InsertBlock(@, Block(b.addr, npages)),
              !.free_pages = @ - npages,
              !.nodes = IF exact THEN @ ELSE @ + 1]

\* alloc_ppages: the address it returns and the memory it leaves.  The test of
\* free_pages is made before the search.
Available(m, npages) ==
  /\ npages # 0
  /\ m.free_pages >= npages
  /\ Fitting(m.free_blks, npages) # {}

alloc_addr(m, npages) ==
  IF Available(m, npages) THEN m.free_blks[Selected(m.free_blks, npages)].addr ELSE 0

alloc_ppages(m, npages) ==
  IF Available(m, npages) THEN TakeBlock(m, Selected(m.free_blks, npages), npages) ELSE m

\* Join block i of the free list with the one after it if they touch.  The
\* container of the second is not given back: freeNode() looks for an address
\* and is passed the pointer to the node.
Join(blks, i) ==
  IF i \in 1 .. Len(blks) - 1 /\ EndOf(blks[i]) = blks[i + 1].addr
  THEN RemoveAt(ReplaceAt(blks, i, Block(blks[i].addr, blks[i].pages + blks[i + 1].pages)), i + 1)
  ELSE blks

\* The free list with b inserted and joined with both neighbours.
Compact(blks, b) ==
  LET with == InsertBlock(blks, b)
      i == SelectInSeq(with, LAMBDA x : x = b)
      joined == Join(with, i - 1)
  IN  Join(joined, IF Len(joined) < Len(with) THEN i - 1 ELSE i)

\* free_ppages: an address that heads no used block is ignored.
free_ppages(m, addr) ==
  LET i == SelectInSeq(m.used_blks, LAMBDA b : b.addr = addr)
  IN  IF addr = 0 \/ i = 0 THEN m
      ELSE [m EXCEPT !.used_blks = RemoveAt(@, i),
                     !.free_blks = Compact(@, m.used_blks[i]),
                     !.free_pages = @ + m.used_blks[i].pages]

-----------------------------------------------------------------------------
(* What the lists should say *)

MemType ==
  [free_blks : Seq([addr : Page, pages : 1 .. NumPages]),
   used_blks : Seq([addr : Page, pages : 1 .. NumPages]),
   free_pages : 0 .. NumPages, nodes : 0 .. MAX_NODES, down : BOOLEAN]

Sorted(blks) == \A i, j \in DOMAIN blks : i < j => EndOf(blks[i]) <= blks[j].addr

PagesIn(blks) == UNION {PagesOf(blks[i]) : i \in DOMAIN blks}

\* Both lists are sorted, together they hold every page once, free blocks do
\* not touch and free_pages counts them.
Tiled(m) ==
  /\ Sorted(m.free_blks) /\ Sorted(m.used_blks)
  /\ PagesIn(m.free_blks) = Page \ PagesIn(m.used_blks)
  /\ \A i, j \in DOMAIN m.free_blks : EndOf(m.free_blks[i]) # m.free_blks[j].addr
  /\ m.free_pages = Cardinality(PagesIn(m.free_blks))

\* npages pages in a row are in nobody's hands.
FreeRun(m, npages) ==
  \E a \in Page : /\ a + npages - 1 \in Page
                  /\ (a .. a + npages - 1) \cap PagesIn(m.used_blks) = {}
=============================================================================
