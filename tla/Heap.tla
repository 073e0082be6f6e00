-------------------------------- MODULE Heap --------------------------------
(***************************************************************************)
(* The heap library of Cabodi's lab 1 (Cabodi/lab1/heap.c) and the client  *)
(* that uses all of it (clientWithDefrag.c): lines are read a page at a    *)
(* time into blocks of the heap, short ones are freed, long ones are kept  *)
(* in an array that grows; after every page the heap is defragmented and   *)
(* the client asks for the new place of each of its blocks.  client.c does *)
(* all but the last part.                                                  *)
(*                                                                         *)
(* Addresses and sizes count units of ALIGNMENT bytes and the heap starts  *)
(* at 1, so that 0 is NULL.  cells stands for the contents: every unit of  *)
(* a block holds the name of the block.  The lines of a page are sorted by *)
(* what they say, so they come in any order.                               *)
(***************************************************************************)
EXTENDS Naturals, Sequences, SequencesExt, FiniteSetsExt

CONSTANTS D,            \* size of the heap
          N,            \* lines of a page
          LineSizes,    \* sizes of lines
          LongLine,     \* lines of this size and more are kept
          SaveSize,     \* size of a strArray_t
          MaxLines,     \* bound on the lines of the input
          Policies      \* of heapSetPolicy

ASSUME HeapAssumption ==
  /\ {D, N, SaveSize, LongLine, MaxLines} \subseteq Nat \ {0}
  /\ LineSizes \subseteq Nat \ {0}
  /\ Policies \subseteq {"first_fit", "best_fit", "worst_fit"}

VARIABLES
  free_blks, used_blks, dfrg_blks,  \* lists of [start, size]
  free_size, policy,
  cells,        \* what each unit of the heap holds
  cpc,          \* the client: "read", "filter", "fix", "end", "done" or
                \* "crashed"
  pageArray,    \* the pointer to the page, and the lines in it
  save,         \* the pointer to the strArray_t, and in it array, allocSize and the lines
  nlines,       \* lines read
  defrags       \* the program is clientWithDefrag

heapVars == <<free_blks, used_blks, dfrg_blks, free_size, policy, cells, cpc, pageArray, save, nlines, defrags>>
lists == <<free_blks, used_blks, free_size, cells>>

Blk(start, sz) == [start |-> start, size |-> sz]
End(b) == b.start + b.size
\* A list with b put in front of the first block that does not start before it.
InsertBlk(list, b) ==
  LET n == Cardinality({i \in DOMAIN list : list[i].start < b.start})
  IN  SubSeq(list, 1, n) \o <<b>> \o SubSeq(list, n + 1, Len(list))

-----------------------------------------------------------------------------
(* The library.  A heap is a record of the lists and the contents. *)

TheHeap == [fre |-> free_blks, used |-> used_blks, left |-> free_size, cells |-> cells]

\* The block that the policy chooses, the first of its kind.
Preferred(a, b) ==
  CASE policy = "first_fit" -> FALSE
    [] policy = "best_fit"  -> a < b
    [] policy = "worst_fit" -> a > b
Select(h, sz) ==
  {i \in DOMAIN h.fre :
    /\ h.fre[i].size >= sz
    /\ \A k \in DOMAIN h.fre : h.fre[k].size >= sz =>
         /\ ~ Preferred(h.fre[k].size, h.fre[i].size)
         /\ k < i => Preferred(h.fre[i].size, h.fre[k].size)}

\* The caller fills the block with its name.
Fill(c, b, name) == [a \in DOMAIN c |-> IF a \in b.start .. End(b) - 1 THEN name ELSE c[a]]

\* heapAlloc into the block i of the free list, and the address it returns.
AllocAt(h, i, sz, name) ==
  LET b == Blk(h.fre[i].start, sz)
      rest == Blk(h.fre[i].start + sz, h.fre[i].size - sz)
  IN  [h |-> [fre |-> IF rest.size = 0 THEN RemoveAt(h.fre, i) ELSE [h.fre EXCEPT ![i] = rest],
              used |-> InsertBlk(h.used, b),
              left |-> h.left - sz,
              cells |-> Fill(h.cells, b, name)],
       p |-> b.start]

heapAlloc(h, sz, name) ==
  IF sz = 0 \/ h.left < sz \/ Select(h, sz) = {} THEN [h |-> h, p |-> 0]
  ELSE AllocAt(h, CHOOSE i \in Select(h, sz) : TRUE, sz, name)

\* Faulty variant: joined even if they do not touch.
JoinAlways(list, i) ==
  IF i < 1 \/ i >= Len(list) THEN list
  ELSE RemoveAt([list EXCEPT ![i].size = @ + list[i + 1].size], i + 1)

\* The free list with block i joined to its neighbour above it, if they touch.
JoinAbove(list, i) ==
  IF i < 1 \/ i >= Len(list) \/ End(list[i]) # list[i + 1].start THEN list
  ELSE RemoveAt([list EXCEPT ![i].size = @ + list[i + 1].size], i + 1)

\* Above first or below first: the list is the same.
CompactFree(list, i) == JoinAbove(JoinAbove(list, i), i - 1)

FreeAt(h, i) ==
  LET list == InsertBlk(h.fre, h.used[i])
  IN  [h EXCEPT !.fre = CompactFree(list, CHOOSE k \in DOMAIN list : list[k] = h.used[i]),
                !.used = RemoveAt(@, i),
                !.left = @ + h.used[i].size]

\* A pointer that is no block's start is ignored.
heapFree(h, p) ==
  LET at == {i \in DOMAIN h.used : h.used[i].start = p}
  IN  IF at = {} THEN h ELSE FreeAt(h, CHOOSE i \in at : TRUE)

\* The used blocks one after the other from the start of the heap.
Packed(used) ==
  [i \in DOMAIN used |->
    Blk(1 + FoldLeft(LAMBDA acc, b : acc + b.size, 0, SubSeq(used, 1, i - 1)), used[i].size)]

\* memmove of each block, from the first on.
MoveAll(c, from, to) ==
  FoldLeft(LAMBDA m, i : [a \in DOMAIN m |->
              IF a \in to[i].start .. End(to[i]) - 1
              THEN m[from[i].start + (a - to[i].start)] ELSE m[a]],
           c, [i \in DOMAIN from |-> i])

heapDefrag(h) ==
  IF h.used = <<>> THEN h
  ELSE [h EXCEPT !.used = Packed(h.used),
                 !.cells = MoveAll(h.cells, h.used, Packed(h.used)),
                 !.fre = IF @ = <<>> THEN @ ELSE <<Blk(1 + D - h.left, h.left)>>]

\* The new place of the block that was at p.
heapNewPointer(p) ==
  LET at == {i \in DOMAIN dfrg_blks : dfrg_blks[i].start = p}
  IN  IF at = {} THEN 0 ELSE used_blks[CHOOSE i \in at : TRUE].start

SetHeap(h) ==
  /\ free_blks' = h.fre
  /\ used_blks' = h.used
  /\ free_size' = h.left
  /\ cells' = h.cells

-----------------------------------------------------------------------------
(* The client *)

NoLines == <<>>
\* Names of the client's other blocks; a line is named by its number.
SAVE == MaxLines + 1
PAGE == MaxLines + 2
ARRAY == MaxLines + 3

\* heapCreate, strArrayInit and the page.
heapInit ==
  LET new == [fre |-> <<Blk(1, D)>>, used |-> <<>>, left |-> D, cells |-> [a \in 1 .. D |-> 0]]
      s == [at |-> 1, array |-> 0, allocSize |-> 0, lines |-> NoLines]
      first == Fill(Fill(new.cells, Blk(1, SaveSize), SAVE), Blk(1 + SaveSize, N), PAGE)
  IN  /\ free_blks = <<Blk(1 + SaveSize + N, D - SaveSize - N)>>
      /\ used_blks = <<Blk(1, SaveSize), Blk(1 + SaveSize, N)>>
      /\ free_size = D - SaveSize - N
      /\ cells = first
      /\ dfrg_blks = <<>>
      /\ policy \in Policies
      /\ cpc = "read"
      /\ save = s
      /\ pageArray = [at |-> 1 + SaveSize, lines |-> NoLines]
      /\ nlines = 0
      /\ defrags \in BOOLEAN

\* One line of leggiPagina.  Without room the client writes through NULL.
leggiPagina(sz) ==
  LET r == heapAlloc(TheHeap, sz, nlines + 1)
  IN  /\ cpc = "read"
      /\ Len(pageArray.lines) < N
      /\ nlines < MaxLines
      /\ nlines' = nlines + 1
      /\ SetHeap(r.h)
      /\ pageArray' = [pageArray EXCEPT !.lines = Append(@, [at |-> r.p, id |-> nlines + 1, size |-> sz])]
      /\ cpc' = IF r.p = 0 THEN "crashed" ELSE cpc
      /\ UNCHANGED <<dfrg_blks, policy, save, defrags>>

\* The page is full, or the input ends.
PageRead ==
  /\ cpc = "read"
  /\ cpc' = IF pageArray.lines = NoLines THEN "end" ELSE "filter"
  /\ UNCHANGED <<lists, dfrg_blks, policy, pageArray, save, nlines, defrags>>

\* client.c has >= here, and keeps one place unused.
Full == IF defrags THEN Len(save.lines) + 1 > save.allocSize
        ELSE Len(save.lines) + 1 >= save.allocSize

\* strArrayPush: the array is doubled when it is full, and the old one freed.
strArrayPush(line) ==
  LET n == IF save.allocSize = 0 THEN 2 ELSE 2 * save.allocSize
      r == heapAlloc(TheHeap, n, ARRAY)
      grown == Append(save.lines, line)
  IN  IF ~Full
      THEN /\ save' = [save EXCEPT !.lines = grown]
           /\ UNCHANGED <<lists, cpc>>
      ELSE IF r.p = 0 THEN cpc' = "crashed" /\ UNCHANGED <<lists, save>>
      ELSE /\ SetHeap(heapFree(r.h, save.array))
           /\ save' = [save EXCEPT !.array = r.p, !.allocSize = n, !.lines = grown]
           /\ UNCHANGED cpc

\* filtraeLiberaPagina, one line: short ones are freed, long ones kept.
filtraeLiberaPagina ==
  /\ cpc = "filter"
  /\ \E i \in DOMAIN pageArray.lines :
       LET line == pageArray.lines[i]
       IN  /\ pageArray' = [pageArray EXCEPT !.lines = RemoveAt(@, i)]
           /\ IF line.size < LongLine
              THEN SetHeap(heapFree(TheHeap, line.at)) /\ UNCHANGED <<cpc, save>>
              ELSE strArrayPush(line)
  /\ UNCHANGED <<dfrg_blks, policy, nlines, defrags>>

\* client.c goes on to the next page.
NextPage ==
  /\ cpc = "filter"
  /\ pageArray.lines = NoLines
  /\ ~defrags
  /\ cpc' = "read"
  /\ UNCHANGED <<lists, dfrg_blks, policy, pageArray, save, nlines, defrags>>

Defrag ==
  /\ cpc = "filter"
  /\ defrags
  /\ pageArray.lines = NoLines
  /\ SetHeap(heapDefrag(TheHeap))
  /\ dfrg_blks' = used_blks
  /\ cpc' = "fix"
  /\ UNCHANGED <<policy, pageArray, save, nlines, defrags>>

\* The pointers in the order of the code, then heapDefragClose.
FixPointers ==
  /\ cpc = "fix"
  /\ pageArray' = [pageArray EXCEPT !.at = heapNewPointer(@)]
  /\ save' = [at |-> heapNewPointer(save.at),
              array |-> IF save.array = 0 THEN 0 ELSE heapNewPointer(save.array),
              allocSize |-> save.allocSize,
              lines |-> [i \in DOMAIN save.lines |->
                          [save.lines[i] EXCEPT !.at = heapNewPointer(@)]]]
  /\ dfrg_blks' = <<>>
  /\ cpc' = "read"
  /\ UNCHANGED <<lists, policy, nlines, defrags>>

\* strArrayFree frees the array and the strArray_t; the lines go with heapDestroy.
Finish ==
  /\ cpc = "end"
  /\ SetHeap(heapFree(heapFree(heapFree(TheHeap, pageArray.at), save.array), save.at))
  /\ cpc' = "done"
  /\ UNCHANGED <<dfrg_blks, policy, pageArray, save, nlines, defrags>>

heapNext ==
  \/ \E sz \in LineSizes : leggiPagina(sz)
  \/ PageRead \/ filtraeLiberaPagina \/ NextPage \/ Defrag \/ FixPointers \/ Finish

heapSpec == heapInit /\ [][heapNext]_heapVars

-----------------------------------------------------------------------------
(* Properties *)

\* The blocks of the two lists, in order of address and without gap or overlap, are
\* the whole heap; free neighbours have been joined; free_size is right.
HeapTiled ==
  LET all == {used_blks[i] : i \in DOMAIN used_blks} \cup {free_blks[i] : i \in DOMAIN free_blks}
  IN  /\ UNION {b.start .. End(b) - 1 : b \in all} = 1 .. D
      /\ MapThenSumSet(LAMBDA b : b.size, all) = D
      /\ \A list \in {used_blks, free_blks} : \A i \in 1 .. Len(list) - 1 :
           list[i].start < list[i + 1].start
      /\ \A i \in 1 .. Len(free_blks) - 1 : End(free_blks[i]) < free_blks[i + 1].start
      /\ free_size = FoldLeft(LAMBDA acc, b : acc + b.size, 0, free_blks)

\* A pointer of the client leads to its own block, whole.
Holds(p, sz, name) == \A a \in p .. p + sz - 1 : a \in 1 .. D /\ cells[a] = name

\* Whatever is allocated, freed, moved together and doubled, under each policy, the
\* heap is tiled, and outside heapDefrag ... heapDefragClose every pointer of the client
\* leads to its block with its contents.
LinesAreKept ==
  /\ HeapTiled
  /\ cpc \in {"read", "filter", "end"} =>
       /\ Holds(save.at, SaveSize, SAVE)
       /\ Holds(pageArray.at, N, PAGE)
       /\ save.allocSize > 0 => Holds(save.array, save.allocSize, ARRAY)
       /\ \A line \in Range(save.lines \o pageArray.lines) : Holds(line.at, line.size, line.id)
=============================================================================
