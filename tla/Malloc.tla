------------------------------- MODULE Malloc -------------------------------
(***************************************************************************)
(* malloc and free of the user's C library (user/lib/libc/stdlib/          *)
(* malloc.c): blocks with a header each, end to end from __heapbase to     *)
(* __heaptop, which sbrk moves up.                                         *)
(*                                                                         *)
(* Addresses count blocks of MBLOCKSIZE bytes and start from 0 at          *)
(* __heapbase.  hdr holds the words that are valid headers; a caller fills *)
(* what malloc gave it, so that no address in there is a header.  Sizes    *)
(* are far below the width of size_t (malloc does not check for the        *)
(* overflow of its rounding).                                              *)
(***************************************************************************)
EXTENDS Naturals, FiniteSets, FiniteSetsExt

CONSTANTS MBLOCKSIZE,   \* bytes
          MallocSizes,  \* the sizes malloc is asked for, in bytes
          HeapLimit     \* sbrk fails past this many blocks

ASSUME MallocAssumption ==
  MBLOCKSIZE \in Nat \ {0} /\ MallocSizes \subseteq Nat /\ HeapLimit \in Nat

VARIABLES
  hdr,          \* address to mh_prevblock, mh_nextblock, mh_inuse
  heaptop,      \* __heaptop
  given,        \* the blocks the program has: address of the data and bytes
  errxed        \* a consistency check has failed and the program has ended

mallocVars == <<hdr, heaptop, given, errxed>>

mallocInit == hdr = << >> /\ heaptop = 0 /\ given = {} /\ errxed = FALSE

Header(prev, next, inuse) == [prev |-> prev, next |-> next, inuse |-> inuse]
M_SIZE(h, i) == h[i].next - 1
RoundUp(size) == (size + MBLOCKSIZE - 1) \div MBLOCKSIZE
\* A function with another value at i, which may be new; and without the addresses A.
Put(h, i, v) == [k \in DOMAIN h \cup {i} |-> IF k = i THEN v ELSE h[k]]
Dropped(h, A) == [k \in DOMAIN h \ A |-> h[k]]
\* mh_prevblock of the block at i, unless i is the top.
SetPrev(h, i, p) == IF i = heaptop THEN h ELSE [h EXCEPT ![i].prev = p]

\* The addresses at which the loop of malloc looks: up to one that is not below
\* __heaptop or is no header.
Walk[i \in 0 .. 2 * HeapLimit] ==
  IF i >= heaptop \/ i \notin DOMAIN hdr THEN {i} ELSE {i} \cup Walk[i + hdr[i].next]
Blocks == Walk[0] \ {heaptop}

\* rightprevblock at i.
rightprevblock(i) ==
  IF i = 0 THEN 0 ELSE hdr[Max({k \in Walk[0] : k < i})].next

\* The checks that malloc makes at i.
BlockOK(i) == i \in DOMAIN hdr /\ hdr[i].prev = rightprevblock(i)

Fits(i, n) == i \in DOMAIN hdr /\ ~hdr[i].inuse /\ M_SIZE(hdr, i) >= n

\* Faulty variant: the block above keeps the old offset.
SplitForgets(h, i, n) ==
  IF M_SIZE(h, i) - n < 2 THEN h
  ELSE Put([h EXCEPT ![i].next = n + 1], i + n + 1, Header(n + 1, M_SIZE(h, i) - n, FALSE))

\* Split only if there is room for a header and a block of data.
malloc_split(h, i, n) ==
  IF M_SIZE(h, i) - n < 2 THEN h
  ELSE SetPrev(Put([h EXCEPT ![i].next = n + 1],
                   i + n + 1, Header(n + 1, M_SIZE(h, i) - n, FALSE)),
               i + h[i].next, M_SIZE(h, i) - n)

\* The caller gets the data of block i and writes on all of it.
Give(h, i, size) ==
  /\ hdr' = Dropped(h, i + 1 .. i + RoundUp(size))
  /\ given' = given \cup {[at |-> i + 1, bytes |-> size]}

malloc(size) ==
  LET n == RoundUp(size)
      found == {i \in Blocks : Fits(i, n)}
      seen == IF found = {} THEN Blocks ELSE {i \in Blocks : i <= Min(found)}
  IN  /\ ~errxed
      /\ \/ /\ \E i \in seen : ~BlockOK(i)
            /\ errxed' = TRUE
            /\ UNCHANGED <<hdr, heaptop, given>>
         \/ /\ \A i \in seen : BlockOK(i)
            /\ found # {}
            /\ Give([malloc_split(hdr, Min(found), n) EXCEPT ![Min(found)].inuse = TRUE],
                    Min(found), size)
            /\ UNCHANGED <<heaptop, errxed>>
         \/ /\ \A i \in seen : BlockOK(i)
            /\ found = {}
            /\ heaptop + n + 1 <= HeapLimit      \* __malloc_sbrk
            /\ heaptop' = heaptop + n + 1
            /\ Give(Put(hdr, heaptop, Header(rightprevblock(heaptop), n + 1, TRUE)),
                    heaptop, size)
            /\ UNCHANGED errxed

\* __malloc_trymerge: the upper header is wiped out.
malloc_trymerge(h, i, k) ==
  IF h[i].inuse \/ h[k].inuse THEN h
  ELSE Dropped(SetPrev([h EXCEPT ![i].next = @ + h[k].next], k + h[k].next, h[i].next + h[k].next),
            {k})

\* With the block above, then with the one below.
MergeUp(h, i) ==
  IF i + h[i].next = heaptop THEN h ELSE malloc_trymerge(h, i, i + h[i].next)
MergeDown(h, i) == IF i = 0 THEN h ELSE malloc_trymerge(h, i - h[i].prev, i)

\* free of a block the program has.  Its neighbours' headers must agree with its own.
free(b) ==
  LET i == b.at - 1
      up == i + hdr[i].next
      down == i - hdr[i].prev
  IN  /\ ~errxed
      /\ b \in given
      /\ given' = given \ {b}
      /\ IF \/ i \notin DOMAIN hdr \/ ~hdr[i].inuse
            \/ up # heaptop /\ (up \notin DOMAIN hdr \/ hdr[up].prev # hdr[i].next)
            \/ i # 0 /\ (down \notin DOMAIN hdr \/ hdr[down].next # hdr[i].prev)
         THEN errxed' = TRUE /\ UNCHANGED hdr
         ELSE /\ hdr' = MergeDown(MergeUp([hdr EXCEPT ![i].inuse = FALSE], i), i)
              /\ UNCHANGED errxed
      /\ UNCHANGED heaptop

mallocNext ==
  \/ \E size \in MallocSizes : malloc(size)
  \/ \E b \in given : free(b)

mallocSpec == mallocInit /\ [][mallocNext]_mallocVars

-----------------------------------------------------------------------------
(* Properties *)

\* After any sequence of calls, by a program that fills every block it is given, no
\* check fails: the headers lead from the bottom to the top and agree with their
\* neighbours, each block of the program is one block in use, large enough for it,
\* and no two free blocks are neighbours.
HeapIsWhole ==
  /\ ~errxed
  /\ heaptop \in Walk[0] /\ \A i \in Blocks : BlockOK(i)
  /\ {b.at - 1 : b \in given} = {i \in Blocks : i \in DOMAIN hdr /\ hdr[i].inuse}
  /\ \A b \in given : M_SIZE(hdr, b.at - 1) * MBLOCKSIZE >= b.bytes
  /\ \A b, c \in given : b.at = c.at => b = c
  /\ \A i \in Blocks \ {0} : hdr[i].inuse \/ hdr[i - hdr[i].prev].inuse
=============================================================================
