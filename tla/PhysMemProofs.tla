---------------------------- MODULE PhysMemProofs ----------------------------
(***************************************************************************)
(* What alloc_ppages and free_ppages do to the two lists of blocks, for    *)
(* every amount of memory and every policy: lemmas about lists of blocks,  *)
(* used by the proofs about the address spaces and the kernel heap.        *)
(***************************************************************************)
EXTENDS PhysMem, SequenceTheorems, FiniteSetTheorems, WellFoundedInduction, TLAPS

-----------------------------------------------------------------------------
(* Positions in lists *)

LEMMA MinOfNats ==
  ASSUME NEW S \in SUBSET Nat, NEW n \in S
  PROVE  Min(S) \in S /\ \A m \in S : Min(S) <= m
<1>1. \A m \in S : m \in Nat
  OBVIOUS
<1>2. \E m \in S : \A k \in S : m <= k
  <2> DEFINE R == OpToRel(<, Nat)
  <2>1. \A x, y \in Nat : x < y => <<x, y>> \in R
    BY DEF OpToRel
  <2>2. PICK m \in S : \A k \in S : ~(<<k, m>> \in R)
    <3> HIDE DEF R
    <3>1. IsWellFoundedOn(R, Nat)
      BY NatLessThanWellFounded DEF R
    <3> QED
      BY <3>1, WFMin
  <2> HIDE DEF R
  <2>3. \A k \in S : ~(k < m)
    BY <1>1, <2>1, <2>2
  <2> QED
    BY <1>1, <2>3
<1> QED
  BY <1>2 DEF Min

\* A part of a list.
LEMMA Part ==
  ASSUME NEW T, NEW s \in Seq(T), NEW m \in Nat \ {0}, NEW n \in Nat, n <= Len(s), m <= n + 1
  PROVE  /\ SubSeq(s, m, n) \in Seq(T)
         /\ Len(SubSeq(s, m, n)) = n - m + 1
         /\ \A k \in 1 .. n - m + 1 : SubSeq(s, m, n)[k] = s[m + k - 1]
<1>1. Len(s) \in Nat
  OBVIOUS
<1>2. \A k \in m .. n : k \in 1 .. Len(s)
  BY <1>1
<1>3. \A k \in m .. n : s[k] \in T
  BY <1>2
<1>4. SubSeq(s, m, n) \in Seq(T)
  BY <1>3, SubSeqProperties
<1>5. Len(SubSeq(s, m, n)) = IF m <= n THEN n - m + 1 ELSE 0
  BY <1>3, SubSeqProperties
<1>6. \A k \in 1 .. n - m + 1 : SubSeq(s, m, n)[k] = s[m + k - 1]
  BY <1>3, SubSeqProperties
<1>7. Len(SubSeq(s, m, n)) = n - m + 1
  BY <1>5
<1> QED
  BY <1>4, <1>6, <1>7

LEMMA Joined ==
  ASSUME NEW T, NEW s \in Seq(T), NEW r \in Seq(T)
  PROVE  /\ s \o r \in Seq(T)
         /\ Len(s \o r) = Len(s) + Len(r)
         /\ \A i \in 1 .. Len(s) + Len(r) :
              (s \o r)[i] = IF i <= Len(s) THEN s[i] ELSE r[i - Len(s)]
  BY ConcatProperties

LEMMA Removed ==
  ASSUME NEW T, NEW s \in Seq(T), NEW i \in 1 .. Len(s)
  PROVE  /\ RemoveAt(s, i) \in Seq(T)
         /\ Len(RemoveAt(s, i)) = Len(s) - 1
         /\ \A j \in 1 .. Len(s) - 1 : RemoveAt(s, i)[j] = IF j < i THEN s[j] ELSE s[j + 1]
<1> DEFINE a == SubSeq(s, 1, i - 1)
           b == SubSeq(s, i + 1, Len(s))
           n == Len(s)
<1>1. n \in Nat /\ i \in Nat /\ i >= 1 /\ i <= n /\ i - 1 \in Nat
  OBVIOUS
<1>2. /\ a \in Seq(T) /\ Len(a) = i - 1
      /\ \A k \in 1 .. i - 1 : a[k] = s[k]
  <2>1. 1 <= (i - 1) + 1 /\ i - 1 <= Len(s) /\ (i - 1) - 1 + 1 = i - 1
    BY <1>1
  <2>2. a \in Seq(T) /\ Len(a) = (i - 1) - 1 + 1
        /\ \A k \in 1 .. (i - 1) - 1 + 1 : a[k] = s[1 + k - 1]
    BY <1>1, <2>1, Part
  <2>3. \A k \in 1 .. i - 1 : 1 + k - 1 = k
    OBVIOUS
  <2> HIDE DEF a
  <2> QED
    BY <2>1, <2>2, <2>3
<1>3. /\ b \in Seq(T) /\ Len(b) = n - i
      /\ \A k \in 1 .. n - i : b[k] = s[i + k]
  <2>1. i + 1 <= n + 1 /\ i + 1 \in Nat \ {0} /\ n - (i + 1) + 1 = n - i
    BY <1>1
  <2>2. b \in Seq(T) /\ Len(b) = n - (i + 1) + 1
        /\ \A k \in 1 .. n - (i + 1) + 1 : b[k] = s[i + 1 + k - 1]
    <3>1. i + 1 \in Nat \ {0} /\ Len(s) \in Nat /\ i + 1 <= Len(s) + 1 /\ Len(s) <= Len(s)
      BY <1>1, <2>1
    <3> QED
      BY <3>1, Part
  <2>3. \A k \in 1 .. n - i : i + 1 + k - 1 = i + k
    BY <1>1
  <2> HIDE DEF b, n
  <2> QED
    BY <2>1, <2>2, <2>3
<1>4. RemoveAt(s, i) = a \o b
  BY DEF RemoveAt
<1> HIDE DEF a, b, n
<1>5. /\ a \o b \in Seq(T) /\ Len(a \o b) = Len(a) + Len(b)
      /\ \A j \in 1 .. Len(a) + Len(b) :
           (a \o b)[j] = IF j <= Len(a) THEN a[j] ELSE b[j - Len(a)]
  BY <1>2, <1>3, Joined
<1>6. ASSUME NEW j \in 1 .. n - 1
      PROVE  (a \o b)[j] = IF j < i THEN s[j] ELSE s[j + 1]
  <2>1. (a \o b)[j] = IF j <= i - 1 THEN a[j] ELSE b[j - (i - 1)]
    <3>1. j \in 1 .. Len(a) + Len(b)
      BY <1>1, <1>2, <1>3
    <3> QED
      BY <1>2, <1>5, <3>1
  <2>2. CASE j < i
    BY <1>1, <1>2, <2>1, <2>2
  <2>3. CASE ~(j < i)
    <3>1. j - (i - 1) \in 1 .. n - i /\ i + (j - (i - 1)) = j + 1 /\ ~(j <= i - 1)
      BY <1>1, <2>3
    <3> QED
      BY <1>1, <1>3, <2>1, <2>3, <3>1
  <2> QED
    BY <2>2, <2>3
<1>7. Len(a \o b) = n - 1
  BY <1>1, <1>2, <1>3, <1>5
<1> QED
  BY <1>4, <1>5, <1>6, <1>7 DEF n

LEMMA Inserted ==
  ASSUME NEW T, NEW s \in Seq(T), NEW i \in 1 .. Len(s) + 1, NEW e \in T
  PROVE  /\ InsertAt(s, i, e) \in Seq(T)
         /\ Len(InsertAt(s, i, e)) = Len(s) + 1
         /\ \A j \in 1 .. Len(s) + 1 :
              InsertAt(s, i, e)[j] = IF j < i THEN s[j] ELSE IF j = i THEN e ELSE s[j - 1]
<1> DEFINE a == SubSeq(s, 1, i - 1)
           b == SubSeq(s, i, Len(s))
           n == Len(s)
           c == a \o <<e>>
<1>1. n \in Nat /\ i \in Nat /\ i >= 1 /\ i <= n + 1 /\ i - 1 \in Nat
  OBVIOUS
<1>2. /\ a \in Seq(T) /\ Len(a) = i - 1
      /\ \A k \in 1 .. i - 1 : a[k] = s[k]
  <2>1. 1 <= (i - 1) + 1 /\ i - 1 <= Len(s) /\ (i - 1) - 1 + 1 = i - 1
    BY <1>1
  <2>2. a \in Seq(T) /\ Len(a) = (i - 1) - 1 + 1
        /\ \A k \in 1 .. (i - 1) - 1 + 1 : a[k] = s[1 + k - 1]
    BY <1>1, <2>1, Part
  <2>3. \A k \in 1 .. i - 1 : 1 + k - 1 = k
    OBVIOUS
  <2> HIDE DEF a
  <2> QED
    BY <2>1, <2>2, <2>3
<1>3. /\ b \in Seq(T) /\ Len(b) = n - i + 1
      /\ \A k \in 1 .. n - i + 1 : b[k] = s[i + k - 1]
  BY <1>1, Part
<1>4. <<e>> \in Seq(T) /\ Len(<<e>>) = 1 /\ <<e>>[1] = e
  OBVIOUS
<1>5. /\ c \in Seq(T) /\ Len(c) = i
      /\ \A j \in 1 .. i : c[j] = IF j < i THEN s[j] ELSE e
  <2>1. /\ c \in Seq(T) /\ Len(c) = (i - 1) + 1
        /\ \A j \in 1 .. (i - 1) + 1 : c[j] = IF j <= i - 1 THEN a[j] ELSE <<e>>[j - (i - 1)]
    BY <1>2, <1>4, Joined
  <2> HIDE DEF a, c
  <2>2. (i - 1) + 1 = i
    BY <1>1
  <2>3. ASSUME NEW j \in 1 .. i PROVE c[j] = IF j < i THEN s[j] ELSE e
    <3>1. CASE j < i
      BY <1>1, <1>2, <2>1, <2>2, <3>1
    <3>2. CASE j = i
      <4>1. i - (i - 1) = 1 /\ ~(i <= i - 1)
        BY <1>1
      <4> QED
        BY <1>1, <1>4, <2>1, <2>2, <3>2, <4>1
    <3> QED
      BY <1>1, <3>1, <3>2
  <2> QED
    BY <2>1, <2>2, <2>3
<1>6. InsertAt(s, i, e) = c \o b
  BY DEF InsertAt
<1> HIDE DEF a, b, n, c
<1>7. /\ c \o b \in Seq(T) /\ Len(c \o b) = Len(c) + Len(b)
      /\ \A j \in 1 .. Len(c) + Len(b) :
           (c \o b)[j] = IF j <= Len(c) THEN c[j] ELSE b[j - Len(c)]
  BY <1>3, <1>5, Joined
<1>8. ASSUME NEW j \in 1 .. n + 1
      PROVE  (c \o b)[j] = IF j < i THEN s[j] ELSE IF j = i THEN e ELSE s[j - 1]
  <2>1. (c \o b)[j] = IF j <= i THEN c[j] ELSE b[j - i]
    <3>1. j \in 1 .. Len(c) + Len(b)
      BY <1>1, <1>3, <1>5
    <3> QED
      BY <1>5, <1>7, <3>1
  <2>2. CASE j <= i
    BY <1>1, <1>5, <2>1, <2>2
  <2>3. CASE ~(j <= i)
    <3>1. j - i \in 1 .. n - i + 1 /\ i + (j - i) - 1 = j - 1 /\ ~(j < i) /\ j # i
      BY <1>1, <2>3
    <3> QED
      BY <1>3, <2>1, <2>3, <3>1
  <2> QED
    BY <2>2, <2>3
<1>9. Len(c \o b) = n + 1
  BY <1>1, <1>3, <1>5, <1>7
<1> QED
  BY <1>6, <1>7, <1>8, <1>9 DEF n

-----------------------------------------------------------------------------
(* Lists of blocks *)

Blk == [addr : Nat, pages : Nat \ {0}]

Apart(a, b) == EndOf(a) <= b.addr \/ EndOf(b) <= a.addr

LEMMA BlkFacts ==
  ASSUME NEW b \in Blk
  PROVE  /\ b.addr \in Nat /\ b.pages \in Nat /\ EndOf(b) \in Nat /\ b.addr < EndOf(b)
         /\ b.pages >= 1 /\ EndOf(b) = b.addr + b.pages
         /\ \A x : x \in PagesOf(b) <=> x \in Nat /\ b.addr <= x /\ x < EndOf(b)
<1>1. b.addr \in Nat /\ b.pages \in Nat /\ b.pages >= 1
  BY DEF Blk
<1> QED
  BY <1>1 DEF EndOf, PagesOf

LEMMA ListFacts ==
  ASSUME NEW s \in Seq(Blk)
  PROVE  /\ Len(s) \in Nat /\ DOMAIN s = 1 .. Len(s)
         /\ \A i \in 1 .. Len(s) : /\ s[i] \in Blk /\ s[i].addr \in Nat /\ s[i].pages \in Nat
                                   /\ EndOf(s[i]) \in Nat /\ s[i].addr < EndOf(s[i])
                                   /\ EndOf(s[i]) = s[i].addr + s[i].pages
         /\ \A x : x \in PagesIn(s) <=>
              \E i \in 1 .. Len(s) : x \in Nat /\ s[i].addr <= x /\ x < EndOf(s[i])
<1>1. Len(s) \in Nat /\ DOMAIN s = 1 .. Len(s) /\ \A i \in 1 .. Len(s) : s[i] \in Blk
  OBVIOUS
<1>2. \A x : x \in PagesIn(s) <=> \E i \in 1 .. Len(s) : x \in PagesOf(s[i])
  BY <1>1 DEF PagesIn
<1> QED
  BY <1>1, <1>2, BlkFacts

\* In a sorted list a block lies below the ones after it.
LEMMA Below ==
  ASSUME NEW s \in Seq(Blk), Sorted(s), NEW i \in 1 .. Len(s), NEW j \in 1 .. Len(s)
  PROVE  /\ i < j => EndOf(s[i]) <= s[j].addr
         /\ i # j => Apart(s[i], s[j])
         /\ s[i].addr < s[j].addr => i < j
         /\ s[i].addr = s[j].addr => i = j
<1>1. \A k, m \in 1 .. Len(s) : k < m => EndOf(s[k]) <= s[m].addr
  BY ListFacts DEF Sorted
<1>2. i < j \/ i = j \/ j < i
  OBVIOUS
<1> QED
  BY <1>1, <1>2, ListFacts DEF Apart

LEMMA InsertBlockFacts ==
  ASSUME NEW s \in Seq(Blk), Sorted(s), NEW b \in Blk, \A i \in 1 .. Len(s) : Apart(s[i], b)
  PROVE  \E p \in 1 .. Len(s) + 1 :
           /\ InsertBlock(s, b) \in Seq(Blk)
           /\ Len(InsertBlock(s, b)) = Len(s) + 1
           /\ \A j \in 1 .. Len(s) + 1 :
                InsertBlock(s, b)[j] = IF j < p THEN s[j] ELSE IF j = p THEN b ELSE s[j - 1]
           /\ Sorted(InsertBlock(s, b))
<1> DEFINE n == Len(s)
           S == {i \in 1 .. n + 1 : i <= n => s[i].addr >= b.addr}
           p == Min(S)
           r == InsertBlock(s, b)
<1>1. n \in Nat /\ n + 1 \in S /\ S \in SUBSET Nat
  BY ListFacts
<1>2. p \in S /\ \A m \in S : p <= m
  <2> HIDE DEF S
  <2> QED
    BY <1>1, MinOfNats
<1>3. p \in 1 .. n + 1 /\ p \in Nat
  BY <1>2
<1>4. r = InsertAt(s, p, b)
  BY DEF InsertBlock
<1>5. /\ r \in Seq(Blk) /\ Len(r) = n + 1
      /\ \A j \in 1 .. n + 1 : r[j] = IF j < p THEN s[j] ELSE IF j = p THEN b ELSE s[j - 1]
  <2>1. p \in 1 .. Len(s) + 1
    BY <1>3
  <2> HIDE DEF p, r
  <2>2. InsertAt(s, p, b) \in Seq(Blk) /\ Len(InsertAt(s, p, b)) = n + 1
    BY <2>1, Inserted
  <2>3. \A j \in 1 .. n + 1 :
          InsertAt(s, p, b)[j] = IF j < p THEN s[j] ELSE IF j = p THEN b ELSE s[j - 1]
    BY <2>1, Inserted
  <2> QED
    BY <1>4, <2>2, <2>3
<1>6. ASSUME NEW i \in 1 .. n, i < p PROVE EndOf(s[i]) <= b.addr
  <2>1. i \notin S /\ i \in 1 .. n + 1
    BY <1>1, <1>2, <1>3, <1>6
  <2>2. s[i].addr < b.addr
    BY <2>1, ListFacts, BlkFacts
  <2> QED
    BY <2>2, ListFacts, BlkFacts DEF Apart
<1>7. ASSUME NEW i \in 1 .. n, p <= i PROVE EndOf(b) <= s[i].addr
  <2>1. p \in 1 .. n /\ s[p].addr >= b.addr
    BY <1>1, <1>2, <1>3, <1>7
  <2>2. EndOf(b) <= s[p].addr
    <3> HIDE DEF p
    <3> QED
      BY <2>1, ListFacts, BlkFacts DEF Apart
  <2>3. CASE i = p
    BY <2>2, <2>3
  <2>4. CASE p < i
    <3> HIDE DEF p
    <3>1. EndOf(s[p]) <= s[i].addr /\ s[p].addr < EndOf(s[p])
      BY <2>1, <2>4, Below, ListFacts
    <3> QED
      BY <2>1, <2>2, <3>1, ListFacts, BlkFacts
  <2> QED
    BY <1>3, <1>7, <2>3, <2>4
<1> HIDE DEF S, p, r, n
<1>8. ASSUME NEW i \in 1 .. n + 1, NEW j \in 1 .. n + 1, i < j PROVE EndOf(r[i]) <= r[j].addr
  <2>1. \A k, m \in 1 .. n : k < m => EndOf(s[k]) <= s[m].addr
    BY Below DEF n
  <2>2. CASE j < p
    <3>1. i \in 1 .. n /\ j \in 1 .. n /\ i < p
      BY <1>1, <1>3, <1>8, <2>2
    <3>2. r[i] = s[i] /\ r[j] = s[j]
      BY <1>5, <2>2, <3>1
    <3> QED
      BY <1>8, <2>1, <3>1, <3>2
  <2>3. CASE j = p
    BY <1>1, <1>3, <1>5, <1>6, <1>8, <2>3
  <2>4. CASE p < j
    <3>1. j - 1 \in 1 .. n /\ p <= j - 1 /\ r[j] = s[j - 1]
      BY <1>1, <1>3, <1>5, <2>4
    <3>2. CASE i = p
      BY <1>5, <1>7, <3>1, <3>2
    <3>3. CASE i < p
      <4>1. i \in 1 .. n /\ i < j - 1
        BY <1>1, <1>3, <3>1, <3>3
      <4>2. r[i] = s[i]
        BY <1>5, <3>3
      <4> QED
        BY <2>1, <3>1, <4>1, <4>2
    <3>4. CASE p < i
      <4>1. i - 1 \in 1 .. n /\ i - 1 < j - 1 /\ r[i] = s[i - 1]
        BY <1>1, <1>3, <1>5, <1>8, <3>4
      <4> QED
        BY <2>1, <3>1, <4>1
    <3> QED
      BY <1>3, <3>2, <3>3, <3>4
  <2> QED
    BY <1>3, <2>2, <2>3, <2>4
<1>9. Sorted(r)
  BY <1>5, <1>8 DEF Sorted
<1> QED
  BY <1>3, <1>5, <1>9 DEF r, n

LEMMA PagesOfSet ==
  ASSUME NEW s
  PROVE  \A x : x \in PagesIn(s) <=> \E b \in ToSet(s) : x \in PagesOf(b)
  BY DEF PagesIn, ToSet

LEMMA InSet ==
  ASSUME NEW s \in Seq(Blk)
  PROVE  \A x : x \in ToSet(s) <=> \E i \in 1 .. Len(s) : x = s[i]
<1>1. DOMAIN s = 1 .. Len(s)
  OBVIOUS
<1> QED
  BY <1>1 DEF ToSet

LEMMA ApartPages ==
  ASSUME NEW a \in Blk, NEW b \in Blk
  PROVE  Apart(a, b) <=> \A x : ~(x \in PagesOf(a) /\ x \in PagesOf(b))
<1>1. ASSUME Apart(a, b) PROVE \A x : ~(x \in PagesOf(a) /\ x \in PagesOf(b))
  BY <1>1, BlkFacts DEF Apart
<1>2. ASSUME ~Apart(a, b) PROVE \E x : x \in PagesOf(a) /\ x \in PagesOf(b)
  <2>1. CASE a.addr <= b.addr
    <3>1. b.addr \in PagesOf(a) /\ b.addr \in PagesOf(b)
      BY <1>2, <2>1, BlkFacts DEF Apart
    <3> QED
      BY <3>1
  <2>2. CASE ~(a.addr <= b.addr)
    <3>1. a.addr \in PagesOf(a) /\ a.addr \in PagesOf(b)
      BY <1>2, <2>2, BlkFacts DEF Apart
    <3> QED
      BY <3>1
  <2> QED
    BY <2>1, <2>2
<1> QED
  BY <1>1, <1>2

LEMMA InsertBlockSets ==
  ASSUME NEW s \in Seq(Blk), Sorted(s), NEW b \in Blk, \A i \in 1 .. Len(s) : Apart(s[i], b)
  PROVE  /\ InsertBlock(s, b) \in Seq(Blk)
         /\ Sorted(InsertBlock(s, b))
         /\ ToSet(InsertBlock(s, b)) = ToSet(s) \cup {b}
         /\ PagesIn(InsertBlock(s, b)) = PagesIn(s) \cup PagesOf(b)
<1> DEFINE r == InsertBlock(s, b)
           n == Len(s)
<1>1. PICK p \in 1 .. n + 1 :
           /\ r \in Seq(Blk) /\ Len(r) = n + 1
           /\ \A j \in 1 .. n + 1 : r[j] = IF j < p THEN s[j] ELSE IF j = p THEN b ELSE s[j - 1]
           /\ Sorted(r)
  BY InsertBlockFacts
<1>2. n \in Nat /\ DOMAIN s = 1 .. n /\ DOMAIN r = 1 .. n + 1
  BY <1>1, ListFacts
<1> HIDE DEF r, n
<1>3. ASSUME NEW j \in 1 .. n + 1 PROVE r[j] = b \/ \E k \in 1 .. n : r[j] = s[k]
  <2>1. CASE j < p
    BY <1>1, <1>2, <2>1
  <2>2. CASE j > p
    <3>1. j - 1 \in 1 .. n /\ r[j] = s[j - 1]
      BY <1>1, <1>2, <2>2
    <3> QED
      BY <3>1
  <2> QED
    BY <1>1, <1>2, <2>1, <2>2
<1>4. ASSUME NEW k \in 1 .. n PROVE \E j \in 1 .. n + 1 : r[j] = s[k]
  <2>1. CASE k < p
    BY <1>1, <1>2, <2>1
  <2>2. CASE k >= p
    <3>1. k + 1 \in 1 .. n + 1 /\ k + 1 > p /\ (k + 1) - 1 = k
      BY <1>1, <1>2, <2>2
    <3>2. r[k + 1] = s[k]
      BY <1>1, <3>1
    <3> QED
      BY <3>1, <3>2
  <2> QED
    BY <1>1, <1>2, <2>1, <2>2
<1>5. r[p] = b
  BY <1>1
<1>6. ToSet(r) = ToSet(s) \cup {b}
  <2>1. \A x : x \in ToSet(r) <=> \E j \in 1 .. n + 1 : x = r[j]
    BY <1>1, InSet
  <2>2. \A x : x \in ToSet(s) <=> \E k \in 1 .. n : x = s[k]
    BY InSet DEF n
  <2> QED
    BY <1>3, <1>4, <1>5, <2>1, <2>2
<1>7. PagesIn(r) = PagesIn(s) \cup PagesOf(b)
  BY <1>6, PagesOfSet
<1> QED
  BY <1>1, <1>6, <1>7 DEF r

\* A block leaves a sorted list.
LEMMA RemoveFacts ==
  ASSUME NEW s \in Seq(Blk), Sorted(s), NEW i \in 1 .. Len(s)
  PROVE  /\ RemoveAt(s, i) \in Seq(Blk)
         /\ Sorted(RemoveAt(s, i))
         /\ ToSet(RemoveAt(s, i)) = ToSet(s) \ {s[i]}
         /\ PagesIn(RemoveAt(s, i)) = PagesIn(s) \ PagesOf(s[i])
<1> DEFINE r == RemoveAt(s, i)
           n == Len(s)
<1>1. /\ r \in Seq(Blk) /\ Len(r) = n - 1
      /\ \A j \in 1 .. n - 1 : r[j] = IF j < i THEN s[j] ELSE s[j + 1]
  BY Removed
<1>2. n \in Nat /\ DOMAIN s = 1 .. n /\ DOMAIN r = 1 .. n - 1
  BY <1>1, ListFacts
<1>3. i \in 1 .. n
  OBVIOUS
<1>4. \A k, m \in 1 .. n : /\ k < m => EndOf(s[k]) <= s[m].addr
                           /\ k # m => s[k] # s[m] /\ Apart(s[k], s[m])
  BY Below, ListFacts
<1> HIDE DEF r, n
<1>5. ASSUME NEW j \in 1 .. n - 1 PROVE \E k \in 1 .. n : k # i /\ r[j] = s[k]
  <2>1. CASE j < i
    BY <1>1, <1>2, <1>3, <2>1
  <2>2. CASE ~(j < i)
    <3>1. j + 1 \in 1 .. n /\ j + 1 # i
      BY <1>2, <1>3, <2>2
    <3> QED
      BY <1>1, <2>2, <3>1
  <2> QED
    BY <2>1, <2>2
<1>6. ASSUME NEW k \in 1 .. n, k # i PROVE \E j \in 1 .. n - 1 : r[j] = s[k]
  <2>1. CASE k < i
    <3>1. k \in 1 .. n - 1
      BY <1>2, <1>3, <2>1
    <3> QED
      BY <1>1, <2>1, <3>1
  <2>2. CASE k > i
    <3>1. k - 1 \in 1 .. n - 1 /\ ~(k - 1 < i) /\ (k - 1) + 1 = k
      BY <1>2, <1>3, <2>2
    <3>2. r[k - 1] = s[k]
      BY <1>1, <3>1
    <3> QED
      BY <3>1, <3>2
  <2> QED
    BY <1>2, <1>3, <1>6, <2>1, <2>2
<1>7. ToSet(r) = ToSet(s) \ {s[i]}
  <2>1. \A x : x \in ToSet(r) <=> \E j \in 1 .. n - 1 : x = r[j]
    BY <1>1, InSet
  <2>2. \A x : x \in ToSet(s) <=> \E k \in 1 .. n : x = s[k]
    BY InSet DEF n
  <2>3. \A k \in 1 .. n : k # i => s[k] # s[i]
    BY <1>3, <1>4
  <2>4. ASSUME NEW x, x \in ToSet(r) PROVE x \in ToSet(s) /\ x # s[i]
    <3>1. PICK j \in 1 .. n - 1 : x = r[j]
      BY <2>1, <2>4
    <3>2. PICK k \in 1 .. n : k # i /\ r[j] = s[k]
      BY <1>5
    <3> QED
      BY <2>2, <2>3, <3>1, <3>2
  <2>5. ASSUME NEW x, x \in ToSet(s), x # s[i] PROVE x \in ToSet(r)
    <3>1. PICK k \in 1 .. n : x = s[k]
      BY <2>2, <2>5
    <3>2. k # i
      BY <2>5, <3>1
    <3>3. PICK j \in 1 .. n - 1 : r[j] = s[k]
      BY <1>6, <3>2
    <3> QED
      BY <2>1, <3>1, <3>3
  <2> QED
    BY <2>4, <2>5
<1>8. Sorted(r)
  <2>1. ASSUME NEW j \in 1 .. n - 1, NEW k \in 1 .. n - 1, j < k PROVE EndOf(r[j]) <= r[k].addr
    <3>1. PICK a \in 1 .. n, b \in 1 .. n : r[j] = s[a] /\ r[k] = s[b] /\ a < b
      <4>1. CASE k < i
        <5>1. j \in 1 .. n /\ k \in 1 .. n /\ j < i
          BY <1>2, <1>3, <2>1, <4>1
        <5> QED
          BY <1>1, <2>1, <4>1, <5>1
      <4>2. CASE ~(k < i) /\ j < i
        <5>1. j \in 1 .. n /\ k + 1 \in 1 .. n /\ j < k + 1
          BY <1>2, <1>3, <2>1, <4>2
        <5> QED
          BY <1>1, <4>2, <5>1
      <4>3. CASE ~(k < i) /\ ~(j < i)
        <5>1. j + 1 \in 1 .. n /\ k + 1 \in 1 .. n /\ j + 1 < k + 1
          BY <1>2, <1>3, <2>1, <4>3
        <5> QED
          BY <1>1, <4>3, <5>1
      <4> QED
        BY <4>1, <4>2, <4>3
    <3> QED
      BY <1>4, <3>1
  <2> QED
    BY <1>2, <2>1 DEF Sorted
<1>9. \A k \in 1 .. n : k # i => \A x : ~(x \in PagesOf(s[k]) /\ x \in PagesOf(s[i]))
  <2>1. \A k \in 1 .. n : s[k] \in Blk
    BY ListFacts DEF n
  <2> QED
    BY <1>3, <1>4, <2>1, ApartPages
<1>10. PagesIn(r) = PagesIn(s) \ PagesOf(s[i])
  <2>1. \A b \in ToSet(s) : b # s[i] => \A x : ~(x \in PagesOf(b) /\ x \in PagesOf(s[i]))
    BY <1>2, <1>9 DEF ToSet
  <2> QED
    BY <1>7, <2>1, PagesOfSet
<1> QED
  BY <1>1, <1>7, <1>8, <1>10 DEF r

LEMMA Replaced ==
  ASSUME NEW s \in Seq(Blk), NEW i \in 1 .. Len(s), NEW e \in Blk
  PROVE  /\ ReplaceAt(s, i, e) \in Seq(Blk)
         /\ Len(ReplaceAt(s, i, e)) = Len(s)
         /\ \A j \in 1 .. Len(s) : ReplaceAt(s, i, e)[j] = IF j = i THEN e ELSE s[j]
  BY DEF ReplaceAt

\* Free blocks do not touch.
NoTouch(S) == \A a, b \in S : EndOf(a) # b.addr

\* Block i is joined with the one it touches.
LEMMA JoinFacts ==
  ASSUME NEW s \in Seq(Blk), Sorted(s), NEW i \in 1 .. Len(s) - 1, EndOf(s[i]) = s[i + 1].addr,
         NEW m \in Blk, m = Block(s[i].addr, s[i].pages + s[i + 1].pages)
  PROVE  /\ Join(s, i) \in Seq(Blk) /\ Sorted(Join(s, i))
         /\ Len(Join(s, i)) = Len(s) - 1 /\ Join(s, i)[i] = m
         /\ \A x : x \in ToSet(Join(s, i)) <=>
              x = m \/ (x \in ToSet(s) /\ x # s[i] /\ x # s[i + 1])
         /\ PagesIn(Join(s, i)) = PagesIn(s)
<1> DEFINE t == ReplaceAt(s, i, m)
           r == RemoveAt(t, i + 1)
           n == Len(s)
<1>1. Join(s, i) = r
  BY DEF Join
<1>2. n \in Nat /\ i \in 1 .. n /\ i + 1 \in 1 .. n /\ i \in 1 .. n - 1 /\ i \in Nat
  BY ListFacts
<1>3. /\ t \in Seq(Blk) /\ Len(t) = n
      /\ \A j \in 1 .. n : t[j] = IF j = i THEN m ELSE s[j]
  <2>1. i \in 1 .. Len(s) /\ m \in Blk
    BY <1>2
  <2>2. t \in Seq(Blk) /\ Len(t) = Len(s)
    BY ONLY <2>1, Replaced, s \in Seq(Blk)
  <2>3. \A j \in 1 .. Len(s) : t[j] = IF j = i THEN m ELSE s[j]
    BY ONLY <2>1, Replaced, s \in Seq(Blk)
  <2> QED
    BY <2>2, <2>3
<1>4. /\ r \in Seq(Blk) /\ Len(r) = n - 1
      /\ \A j \in 1 .. n - 1 : r[j] = IF j < i + 1 THEN t[j] ELSE t[j + 1]
  <2> HIDE DEF t
  <2>1. i + 1 \in 1 .. Len(t)
    BY <1>2, <1>3
  <2> QED
    BY <1>3, <2>1, Removed
<1> HIDE DEF t, r, n
<1>5. ASSUME NEW j \in 1 .. n - 1
      PROVE  /\ j < i => r[j] = s[j]
             /\ j = i => r[j] = m
             /\ j > i => r[j] = s[j + 1]
  <2>1. j \in 1 .. n /\ j + 1 \in 1 .. n
    BY <1>2
  <2>2. CASE j < i + 1
    <3>1. r[j] = t[j] /\ j <= i
      BY <1>2, <1>4, <2>2
    <3> QED
      BY <1>2, <1>3, <2>1, <3>1
  <2>3. CASE ~(j < i + 1)
    <3>1. r[j] = t[j + 1] /\ j > i /\ j + 1 # i
      BY <1>2, <1>4, <2>3
    <3> QED
      BY <1>2, <1>3, <2>1, <3>1
  <2> QED
    BY <2>2, <2>3
<1>6. /\ m.addr = s[i].addr /\ EndOf(m) = EndOf(s[i + 1])
      /\ s[i].addr < s[i + 1].addr /\ s[i + 1].addr < EndOf(s[i + 1])
      /\ s[i].addr \in Nat /\ s[i + 1].addr \in Nat /\ EndOf(s[i + 1]) \in Nat
  <2>1. m.addr = s[i].addr /\ m.pages = s[i].pages + s[i + 1].pages
    BY DEF Block
  <2>2. /\ s[i].addr \in Nat /\ s[i].pages \in Nat /\ EndOf(s[i]) = s[i].addr + s[i].pages
        /\ s[i].addr < EndOf(s[i])
        /\ s[i + 1].addr \in Nat /\ s[i + 1].pages \in Nat
        /\ EndOf(s[i + 1]) = s[i + 1].addr + s[i + 1].pages
        /\ s[i + 1].addr < EndOf(s[i + 1])
    BY <1>2, ListFacts DEF n
  <2>3. EndOf(m) = m.addr + m.pages /\ EndOf(s[i]) = s[i + 1].addr
    BY DEF EndOf
  <2> DEFINE u == s[i]
             v == s[i + 1]
  <2> HIDE DEF u, v
  <2>4. /\ m.addr = u.addr /\ m.pages = u.pages + v.pages
        /\ u.addr \in Nat /\ u.pages \in Nat /\ EndOf(u) = u.addr + u.pages /\ u.addr < EndOf(u)
        /\ v.addr \in Nat /\ v.pages \in Nat /\ EndOf(v) = v.addr + v.pages /\ v.addr < EndOf(v)
        /\ EndOf(m) = m.addr + m.pages /\ EndOf(u) = v.addr
    BY <2>1, <2>2, <2>3 DEF u, v
  <2>5. /\ m.addr = u.addr /\ EndOf(m) = EndOf(v)
        /\ u.addr < v.addr /\ v.addr < EndOf(v)
        /\ u.addr \in Nat /\ v.addr \in Nat /\ EndOf(v) \in Nat
    BY ONLY <2>4
  <2> QED
    BY <2>5 DEF u, v
<1>7. \A k, l \in 1 .. n : /\ k < l => EndOf(s[k]) <= s[l].addr
                           /\ k # l => s[k] # s[l]
                           /\ s[k] \in Blk /\ s[k].addr \in Nat /\ EndOf(s[k]) \in Nat
                           /\ s[k].addr < EndOf(s[k])
  BY Below, ListFacts DEF n
<1>8. ASSUME NEW j \in 1 .. n - 1, NEW k \in 1 .. n - 1, j < k PROVE EndOf(r[j]) <= r[k].addr
  <2>1. j \in 1 .. n /\ j + 1 \in 1 .. n /\ k \in 1 .. n /\ k + 1 \in 1 .. n
    BY <1>2
  <2>2. CASE k < i
    <3>1. j < i
      BY <1>2, <1>8, <2>2
    <3>2. r[j] = s[j] /\ r[k] = s[k]
      BY <1>5, <2>2, <3>1
    <3> QED
      BY <1>7, <1>8, <2>1, <3>2
  <2>3. CASE k = i
    BY <1>2, <1>5, <1>6, <1>7, <1>8, <2>1, <2>3
  <2>4. CASE k > i /\ j < i
    <3>1. j < k + 1
      BY <1>2, <1>8
    <3>2. r[j] = s[j] /\ r[k] = s[k + 1]
      BY <1>5, <2>4
    <3> QED
      BY <1>7, <2>1, <3>1, <3>2
  <2>5. CASE k > i /\ j = i
    <3>1. i + 1 < k + 1
      BY <1>2, <2>5
    <3>2. r[j] = m /\ r[k] = s[k + 1]
      BY <1>5, <2>5
    <3>3. EndOf(s[i + 1]) <= s[k + 1].addr
      BY <1>2, <1>7, <2>1, <3>1
    <3> QED
      BY <1>6, <3>2, <3>3
  <2>6. CASE k > i /\ j > i
    <3>1. j + 1 < k + 1
      BY <1>2, <1>8
    <3> QED
      BY <1>2, <1>5, <1>7, <1>8, <2>1, <2>6, <3>1
  <2> QED
    BY <1>2, <1>8, <2>2, <2>3, <2>4, <2>5, <2>6
<1>9. Sorted(r)
  <2>1. DOMAIN r = 1 .. n - 1
    BY <1>4
  <2> QED
    BY <1>8, <2>1 DEF Sorted
<1>10. \A x : x \in ToSet(r) <=> x = m \/ (x \in ToSet(s) /\ x # s[i] /\ x # s[i + 1])
  <2>1. \A x : x \in ToSet(r) <=> \E j \in 1 .. n - 1 : x = r[j]
    BY <1>4, InSet
  <2>2. \A x : x \in ToSet(s) <=> \E k \in 1 .. n : x = s[k]
    BY InSet DEF n
  <2>3. ASSUME NEW x, x \in ToSet(r), x # m
        PROVE  x \in ToSet(s) /\ x # s[i] /\ x # s[i + 1]
    <3>1. PICK j \in 1 .. n - 1 : x = r[j]
      BY <2>1, <2>3
    <3>2. CASE j < i
      <4>1. j \in 1 .. n /\ j # i /\ j # i + 1
        BY <1>2, <3>2
      <4> QED
        BY <1>2, <1>5, <1>7, <2>2, <3>1, <3>2, <4>1
    <3>3. CASE j > i
      <4>1. j + 1 \in 1 .. n /\ j + 1 # i /\ j + 1 # i + 1
        BY <1>2, <3>3
      <4>2. x = s[j + 1]
        BY <1>5, <3>1, <3>3
      <4>3. s[j + 1] # s[i] /\ s[j + 1] # s[i + 1]
        BY <1>2, <1>7, <4>1
      <4> QED
        BY <2>2, <4>1, <4>2, <4>3
    <3>4. j # i
      BY <1>5, <2>3, <3>1
    <3> QED
      BY <1>2, <3>2, <3>3, <3>4
  <2>4. ASSUME NEW x, x \in ToSet(s), x # s[i], x # s[i + 1] PROVE x \in ToSet(r)
    <3>1. PICK k \in 1 .. n : x = s[k]
      BY <2>2, <2>4
    <3>2. k # i /\ k # i + 1
      BY <2>4, <3>1
    <3>3. CASE k < i
      <4>1. k \in 1 .. n - 1
        BY <1>2, <3>3
      <4> QED
        BY <1>5, <2>1, <3>1, <3>3, <4>1
    <3>4. CASE k > i
      <4>1. k - 1 \in 1 .. n - 1 /\ k - 1 > i /\ (k - 1) + 1 = k
        BY <1>2, <3>2, <3>4
      <4>2. r[k - 1] = s[k]
        BY <1>5, <4>1
      <4> QED
        BY <2>1, <3>1, <4>1, <4>2
    <3> QED
      BY <1>2, <3>2, <3>3, <3>4
  <2>5. m \in ToSet(r)
    BY <1>2, <1>5, <2>1
  <2> QED
    BY <2>3, <2>4, <2>5
<1>11. PagesIn(r) = PagesIn(s)
  <2>1. \A x : x \in PagesOf(m) <=> x \in PagesOf(s[i]) \/ x \in PagesOf(s[i + 1])
    <3>1. s[i] \in Blk /\ s[i + 1] \in Blk
      BY <1>2, <1>7
    <3>2. \A x : x \in PagesOf(m) <=> x \in Nat /\ m.addr <= x /\ x < EndOf(m)
      BY BlkFacts
    <3>3. \A x : x \in PagesOf(s[i]) <=> x \in Nat /\ s[i].addr <= x /\ x < EndOf(s[i])
      BY <3>1, BlkFacts
    <3>4. \A x : x \in PagesOf(s[i + 1]) <=>
                   x \in Nat /\ s[i + 1].addr <= x /\ x < EndOf(s[i + 1])
      BY <3>1, BlkFacts
    <3> QED
      BY <1>6, <3>2, <3>3, <3>4
  <2>2. s[i] \in ToSet(s) /\ s[i + 1] \in ToSet(s)
    BY <1>2, InSet DEF n
  <2>3. \A x : x \in PagesIn(r) <=> \E b \in ToSet(r) : x \in PagesOf(b)
    BY PagesOfSet
  <2>4. \A x : x \in PagesIn(s) <=> \E b \in ToSet(s) : x \in PagesOf(b)
    BY PagesOfSet
  <2>5. ASSUME NEW x, x \in PagesIn(r) PROVE x \in PagesIn(s)
    <3>1. PICK b \in ToSet(r) : x \in PagesOf(b)
      BY <2>3, <2>5
    <3>2. b = m \/ b \in ToSet(s)
      BY <1>10
    <3> QED
      BY <2>1, <2>2, <2>4, <3>1, <3>2
  <2>6. ASSUME NEW x, x \in PagesIn(s) PROVE x \in PagesIn(r)
    <3>1. PICK b \in ToSet(s) : x \in PagesOf(b)
      BY <2>4, <2>6
    <3>2. b \in ToSet(r) \/ b = s[i] \/ b = s[i + 1]
      BY <1>10
    <3>3. m \in ToSet(r)
      BY <1>10
    <3> QED
      BY <2>1, <2>3, <3>1, <3>2, <3>3
  <2> QED
    BY <2>5, <2>6
<1>12. r[i] = m
  BY <1>2, <1>5
<1> QED
  BY <1>1, <1>4, <1>9, <1>10, <1>11, <1>12 DEF n

LEMMA Position ==
  ASSUME NEW s \in Seq(Blk), Sorted(s), NEW p \in 1 .. Len(s)
  PROVE  SelectInSeq(s, LAMBDA x : x = s[p]) = p
<1> DEFINE I == {i \in 1 .. Len(s) : s[i] = s[p]}
<1>1. I = {p}
  BY Below
<1>2. Min({p}) = p
  <2>1. {p} \in SUBSET Nat
    BY ListFacts
  <2> QED
    BY <2>1, MinOfNats
<1>3. SelectInSeq(s, LAMBDA x : x = s[p]) = IF I # {} THEN Min(I) ELSE 0
  BY DEF SelectInSeq
<1> QED
  BY <1>1, <1>2, <1>3

\* What is true once the inserted block has been joined with the block below.
LEMMA JoinBelow ==
  ASSUME NEW w \in Seq(Blk), Sorted(w), NEW p \in 1 .. Len(w),
         NEW F, NoTouch(F), \A a \in ToSet(w) : a # w[p] => a \in F
  PROVE  \E q \in 1 .. Len(Join(w, p - 1)) :
           /\ q = IF Len(Join(w, p - 1)) < Len(w) THEN p - 1 ELSE p
           /\ Join(w, p - 1) \in Seq(Blk) /\ Sorted(Join(w, p - 1))
           /\ PagesIn(Join(w, p - 1)) = PagesIn(w)
           /\ \A a \in ToSet(Join(w, p - 1)) : /\ a # Join(w, p - 1)[q] => a \in F
                                               /\ EndOf(a) # Join(w, p - 1)[q].addr
<1> DEFINE n == Len(w)
           r == Join(w, p - 1)
           b == w[p]
<1>1. n \in Nat /\ p \in 1 .. n /\ p \in Nat
  BY ListFacts
<1>2. \A k \in 1 .. n : w[k] \in Blk /\ w[k] \in ToSet(w)
  BY ListFacts, InSet
<1>3. \A k \in 1 .. n : w[k].addr \in Nat /\ EndOf(w[k]) \in Nat /\ w[k].addr < EndOf(w[k])
  BY ListFacts
<1>4. CASE p - 1 \in 1 .. n - 1 /\ EndOf(w[p - 1]) = w[p].addr
  <2> DEFINE u == w[p - 1]
             m == Block(u.addr, u.pages + b.pages)
  <2>1. p - 1 \in 1 .. n /\ (p - 1) + 1 = p
    BY <1>1, <1>4
  <2>2. m \in Blk
    <3>1. u \in Blk /\ b \in Blk
      BY <1>1, <1>2, <2>1
    <3>2. u.addr \in Nat /\ u.pages \in Nat /\ b.pages \in Nat /\ b.pages >= 1
      BY <3>1, BlkFacts
    <3>3. u.pages + b.pages \in Nat \ {0}
      BY <3>2
    <3> QED
      BY <3>2, <3>3 DEF Block, Blk
  <2>3. /\ r \in Seq(Blk) /\ Sorted(r) /\ Len(r) = n - 1 /\ r[p - 1] = m
        /\ \A x : x \in ToSet(r) <=> x = m \/ (x \in ToSet(w) /\ x # u /\ x # b)
        /\ PagesIn(r) = PagesIn(w)
    <3> HIDE DEF m
    <3>1. m = Block(w[p - 1].addr, w[p - 1].pages + w[(p - 1) + 1].pages)
      BY <2>1 DEF m
    <3>2. EndOf(w[p - 1]) = w[(p - 1) + 1].addr /\ p - 1 \in 1 .. Len(w) - 1
      BY <1>4, <2>1
    <3>3. /\ r \in Seq(Blk) /\ Sorted(r) /\ Len(r) = n - 1 /\ r[p - 1] = m
          /\ \A x : x \in ToSet(r) <=> x = m \/ (x \in ToSet(w) /\ x # w[p - 1] /\ x # w[(p - 1) + 1])
          /\ PagesIn(r) = PagesIn(w)
      BY <2>2, <3>1, <3>2, JoinFacts
    <3> QED
      BY <2>1, <3>3
  <2>4. m.addr = u.addr /\ m.addr < EndOf(m)
    BY <2>2, BlkFacts DEF Block
  <2>5. u \in F
    <3>1. u # b
      BY <1>1, <1>3, <1>4, <2>1
    <3> QED
      BY <1>2, <2>1, <3>1
  <2>6. \A a \in ToSet(r) : (a # m => a \in F) /\ EndOf(a) # m.addr
    <3> HIDE DEF m, u, r, b
    <3>1. \A a \in ToSet(w) : a # b => a \in F
      BY DEF b
    <3>2. m.addr \in Nat /\ EndOf(m) \in Nat
      BY <2>2, BlkFacts
    <3>3. EndOf(m) # m.addr
      BY <2>4, <3>2
    <3>4. \A a \in F : EndOf(a) # u.addr
      BY <2>5 DEF NoTouch
    <3> QED
      BY <2>3, <2>4, <3>1, <3>3, <3>4
  <2>7. p - 1 \in 1 .. Len(r) /\ Len(r) < Len(w)
    BY <1>1, <1>4, <2>3
  <2> HIDE DEF m, r
  <2>8. \A a \in ToSet(r) : (a # r[p - 1] => a \in F) /\ EndOf(a) # r[p - 1].addr
    BY <2>3, <2>6
  <2> QED
    BY <2>3, <2>7, <2>8 DEF r
<1>5. CASE ~(p - 1 \in 1 .. n - 1 /\ EndOf(w[p - 1]) = w[p].addr)
  <2>1. r = w
    <3>1. ~(p - 1 \in 1 .. Len(w) - 1 /\ EndOf(w[p - 1]) = w[(p - 1) + 1].addr)
      <4>1. (p - 1) + 1 = p
        BY <1>1
      <4> QED
        BY <1>5, <4>1
    <3> QED
      BY <3>1 DEF Join
  <2>2. ASSUME NEW a \in ToSet(w) PROVE EndOf(a) # b.addr
    <3>1. PICK k \in 1 .. n : a = w[k]
      BY InSet
    <3>2. CASE k >= p
      <4>1. b.addr < EndOf(a)
        <5>1. CASE k = p
          BY <1>3, <3>1, <5>1
        <5>2. CASE p < k
          <6>1. EndOf(b) <= w[k].addr
            BY <1>1, <5>2, Below
          <6> QED
            BY <1>1, <1>3, <3>1, <6>1
        <5> QED
          BY <1>1, <3>2, <5>1, <5>2
      <4> QED
        BY <1>1, <1>3, <3>1, <4>1
    <3>3. CASE k < p
      <4>1. p - 1 \in 1 .. n - 1 /\ p - 1 \in 1 .. n /\ p - 1 < p
        BY <1>1, <3>3
      <4>2. EndOf(w[p - 1]) < b.addr
        <5>1. EndOf(w[p - 1]) <= b.addr /\ EndOf(w[p - 1]) # b.addr
          BY <1>1, <1>5, <4>1, Below
        <5> QED
          BY <1>1, <1>3, <4>1, <5>1
      <4>3. CASE k = p - 1
        BY <1>1, <1>3, <3>1, <4>2, <4>3
      <4>4. CASE k < p - 1
        <5>1. EndOf(w[k]) <= w[p - 1].addr
          BY <4>1, <4>4, Below
        <5> QED
          BY <1>1, <1>3, <3>1, <4>1, <4>2, <5>1
      <4> QED
        BY <1>1, <3>3, <4>3, <4>4
    <3> QED
      BY <1>1, <3>2, <3>3
  <2>3. \A a \in ToSet(w) : (a # w[p] => a \in F) /\ EndOf(a) # w[p].addr
    BY <2>2
  <2>4. ~(Len(w) < Len(w))
    BY <1>1
  <2> HIDE DEF r
  <2> QED
    BY <1>1, <2>1, <2>3, <2>4 DEF r
<1> QED
  BY <1>4, <1>5

\* What is true once it has been joined with the block above, too.
LEMMA JoinAbove ==
  ASSUME NEW w \in Seq(Blk), Sorted(w), NEW p \in 1 .. Len(w), NEW F, NoTouch(F),
         \A a \in ToSet(w) : (a # w[p] => a \in F) /\ EndOf(a) # w[p].addr
  PROVE  /\ Join(w, p) \in Seq(Blk) /\ Sorted(Join(w, p))
         /\ PagesIn(Join(w, p)) = PagesIn(w)
         /\ NoTouch(ToSet(Join(w, p)))
<1> DEFINE n == Len(w)
           r == Join(w, p)
           b == w[p]
<1>1. n \in Nat /\ p \in 1 .. n /\ p \in Nat
  BY ListFacts
<1>2. \A k \in 1 .. n : w[k] \in Blk /\ w[k] \in ToSet(w)
  BY ListFacts, InSet
<1>3. \A k \in 1 .. n : w[k].addr \in Nat /\ EndOf(w[k]) \in Nat /\ w[k].addr < EndOf(w[k])
  BY ListFacts
<1>4. CASE p \in 1 .. n - 1 /\ EndOf(w[p]) = w[p + 1].addr
  <2> DEFINE u == w[p + 1]
             m == Block(b.addr, b.pages + u.pages)
  <2>1. p + 1 \in 1 .. n
    BY <1>1, <1>4
  <2>2. u \in Blk /\ b \in Blk /\ u \in ToSet(w)
    BY <1>1, <1>2, <2>1
  <2>3. /\ b.addr \in Nat /\ b.pages \in Nat /\ b.pages >= 1 /\ u.pages \in Nat
        /\ EndOf(b) = b.addr + b.pages /\ EndOf(u) = u.addr + u.pages /\ u.addr \in Nat
    BY <2>2, BlkFacts
  <2>4. m \in Blk
    <3>1. b.pages + u.pages \in Nat \ {0}
      BY <2>3
    <3> QED
      BY <2>3, <3>1 DEF Block, Blk
  <2>5. /\ r \in Seq(Blk) /\ Sorted(r)
        /\ \A x : x \in ToSet(r) <=> x = m \/ (x \in ToSet(w) /\ x # b /\ x # u)
        /\ PagesIn(r) = PagesIn(w)
    <3> HIDE DEF m
    <3>1. m = Block(w[p].addr, w[p].pages + w[p + 1].pages)
      BY DEF m
    <3>2. EndOf(w[p]) = w[p + 1].addr /\ p \in 1 .. Len(w) - 1
      BY <1>4
    <3> QED
      BY <2>4, <3>1, <3>2, JoinFacts
  <2>6. m.addr = b.addr /\ EndOf(m) = m.addr + m.pages /\ m.pages = b.pages + u.pages
    BY DEF Block, EndOf
  <2>7. u \in F
    <3>1. u # b
      BY <1>1, <1>3, <1>4, <2>1
    <3> QED
      BY <2>2, <3>1
  <2>8. EndOf(b) = u.addr
    BY <1>4
  <2> HIDE DEF m, u, r, b
  <2>9. EndOf(m) = EndOf(u) /\ EndOf(m) # m.addr
    <3>1. EndOf(m) = b.addr + (b.pages + u.pages)
      BY ONLY <2>6
    <3>2. EndOf(u) = (b.addr + b.pages) + u.pages
      BY ONLY <2>3, <2>8
    <3>3. b.addr + (b.pages + u.pages) = (b.addr + b.pages) + u.pages
          /\ b.addr + (b.pages + u.pages) # b.addr
      BY ONLY <2>3
    <3> QED
      BY ONLY <2>6, <3>1, <3>2, <3>3
  <2>10. \A a \in ToSet(w) : (a # b => a \in F) /\ EndOf(a) # b.addr
    BY DEF b
  <2>11. \A a, c \in F : EndOf(a) # c.addr
    BY DEF NoTouch
  <2>12. ASSUME NEW a \in ToSet(r), NEW c \in ToSet(r) PROVE EndOf(a) # c.addr
    <3>1. CASE a = m /\ c = m
      BY <2>9, <3>1
    <3>2. CASE a # m /\ c = m
      BY <2>5, <2>6, <2>10, <3>2
    <3>3. CASE a = m /\ c # m
      BY <2>5, <2>7, <2>9, <2>10, <2>11, <3>3
    <3>4. CASE a # m /\ c # m
      BY <2>5, <2>10, <2>11, <3>4
    <3> QED
      BY <3>1, <3>2, <3>3, <3>4
  <2> QED
    BY <2>5, <2>12 DEF NoTouch, r
<1>5. CASE ~(p \in 1 .. n - 1 /\ EndOf(w[p]) = w[p + 1].addr)
  <2>1. r = w
    BY <1>5 DEF Join
  <2>2. ASSUME NEW a \in ToSet(w) PROVE EndOf(b) # a.addr
    <3>1. PICK k \in 1 .. n : a = w[k]
      BY InSet
    <3>2. CASE k <= p
      <4>1. a.addr < EndOf(b)
        <5>1. CASE k = p
          BY <1>3, <3>1, <5>1
        <5>2. CASE k < p
          <6>1. EndOf(w[k]) <= b.addr
            BY <1>1, <5>2, Below
          <6> QED
            BY <1>1, <1>3, <3>1, <6>1
        <5> QED
          BY <1>1, <3>2, <5>1, <5>2
      <4> QED
        BY <1>1, <1>3, <3>1, <4>1
    <3>3. CASE k > p
      <4>1. p \in 1 .. n - 1 /\ p + 1 \in 1 .. n /\ p < p + 1
        BY <1>1, <3>3
      <4>2. EndOf(b) < w[p + 1].addr
        <5>1. EndOf(b) <= w[p + 1].addr /\ EndOf(b) # w[p + 1].addr
          BY <1>1, <1>5, <4>1, Below
        <5> QED
          BY <1>1, <1>3, <4>1, <5>1
      <4>3. CASE k = p + 1
        BY <1>1, <1>3, <3>1, <4>1, <4>2, <4>3
      <4>4. CASE k > p + 1
        <5>1. EndOf(w[p + 1]) <= w[k].addr
          BY <4>1, <4>4, Below
        <5> QED
          BY <1>1, <1>3, <3>1, <4>1, <4>2, <5>1
      <4> QED
        BY <1>1, <3>3, <4>3, <4>4
    <3> QED
      BY <1>1, <3>2, <3>3
  <2>3. ASSUME NEW a \in ToSet(w), NEW c \in ToSet(w) PROVE EndOf(a) # c.addr
    <3>1. CASE a = b
      BY <2>2, <3>1
    <3>2. CASE c = b
      BY <3>2
    <3>3. CASE a # b /\ c # b
      BY <3>3 DEF NoTouch
    <3> QED
      BY <3>1, <3>2, <3>3
  <2> QED
    BY <2>1, <2>3 DEF NoTouch
<1> QED
  BY <1>4, <1>5

\* A block comes back to the free list.
LEMMA CompactFacts ==
  ASSUME NEW s \in Seq(Blk), Sorted(s), NoTouch(ToSet(s)), NEW b \in Blk,
         \A i \in 1 .. Len(s) : Apart(s[i], b)
  PROVE  /\ Compact(s, b) \in Seq(Blk) /\ Sorted(Compact(s, b))
         /\ NoTouch(ToSet(Compact(s, b)))
         /\ PagesIn(Compact(s, b)) = PagesIn(s) \cup PagesOf(b)
<1> DEFINE w == InsertBlock(s, b)
           F == ToSet(s)
<1>1. /\ w \in Seq(Blk) /\ Sorted(w) /\ ToSet(w) = F \cup {b}
      /\ PagesIn(w) = PagesIn(s) \cup PagesOf(b)
  BY InsertBlockSets
<1> HIDE DEF F
<1>2. PICK p \in 1 .. Len(w) : w[p] = b
  BY <1>1, InSet
<1> HIDE DEF w
<1>3. SelectInSeq(w, LAMBDA x : x = b) = p
  <2>1. SelectInSeq(w, LAMBDA x : x = w[p]) = p
    BY <1>1, Position
  <2> QED
    BY <1>2, <2>1
<1> DEFINE j == Join(w, p - 1)
           q == IF Len(j) < Len(w) THEN p - 1 ELSE p
<1>4. Compact(s, b) = Join(j, q)
  BY <1>3 DEF Compact, w
<1>5. \A a \in ToSet(w) : a # w[p] => a \in F
  BY <1>1, <1>2
<1>6. NoTouch(F)
  BY DEF F
<1>7. /\ q \in 1 .. Len(j) /\ j \in Seq(Blk) /\ Sorted(j) /\ PagesIn(j) = PagesIn(w)
      /\ \A a \in ToSet(j) : (a # j[q] => a \in F) /\ EndOf(a) # j[q].addr
  BY <1>1, <1>5, <1>6, JoinBelow
<1> HIDE DEF j, q
<1>8. /\ Join(j, q) \in Seq(Blk) /\ Sorted(Join(j, q))
      /\ PagesIn(Join(j, q)) = PagesIn(j) /\ NoTouch(ToSet(Join(j, q)))
  BY <1>6, <1>7, JoinAbove
<1> QED
  BY <1>1, <1>4, <1>7, <1>8

-----------------------------------------------------------------------------
(* The block alloc_ppages takes *)

LEMMA FirstLeast ==
  ASSUME NEW F \in SUBSET Nat, F # {}, NEW g \in [F -> Nat]
  PROVE  \E i \in F : \A j \in F : g[i] <= g[j] /\ (j < i => g[i] < g[j])
<1> DEFINE P == {g[i] : i \in F}
           m == Min(P)
           I == {i \in F : g[i] = m}
           k == Min(I)
<1>1. PICK e \in F : TRUE
  OBVIOUS
<1>2. P \in SUBSET Nat /\ g[e] \in P
  OBVIOUS
<1>3. m \in P /\ \A x \in P : m <= x
  <2> HIDE DEF P
  <2> QED
    BY <1>2, MinOfNats
<1>4. PICK d \in F : g[d] = m
  BY <1>3
<1>5. I \in SUBSET Nat /\ d \in I
  BY <1>4
<1>6. k \in I /\ \A x \in I : k <= x
  <2> HIDE DEF I
  <2> QED
    BY <1>5, MinOfNats
<1>7. k \in F /\ g[k] = m /\ m \in Nat
  BY <1>3, <1>6
<1>8. \A j \in F : g[j] \in Nat /\ m <= g[j]
  BY <1>3
<1>9. \A j \in F : g[j] = m => k <= j
  BY <1>6
<1> HIDE DEF k, m
<1>10. ASSUME NEW j \in F, j < k PROVE m < g[j]
  <2>1. g[j] # m
    BY <1>7, <1>9, <1>10
  <2> QED
    BY <1>7, <1>8, <2>1
<1> QED
  BY <1>7, <1>8, <1>10

\* In each policy the search ends at a block that fits.
LEMMA SelectedFits ==
  ASSUME NEW s \in Seq(Blk), \A i \in 1 .. Len(s) : s[i].pages <= NumPages,
         NEW n \in Nat, Fitting(s, n) # {}
  PROVE  Selected(s, n) \in 1 .. Len(s) /\ s[Selected(s, n)].pages >= n
<1> DEFINE F == Fitting(s, n)
           Q(i) == \A j \in F : /\ ~Better(s[j].pages, s[i].pages)
                                /\ j < i => Better(s[i].pages, s[j].pages)
<1>1. F \in SUBSET (1 .. Len(s)) /\ F \in SUBSET Nat /\ \A i \in F : s[i].pages >= n
  BY ListFacts DEF Fitting
<1>2. NumPages \in Nat /\ Policy \in {"first_fit", "best_fit", "worst_fit"}
  BY PhysMemAssumption
<1>3. \A i \in F : s[i].pages \in Nat /\ s[i].pages <= NumPages
  BY <1>1, ListFacts
<1> HIDE DEF F
<1>4. \E i \in F : Q(i)
  <2>1. CASE Policy = "first_fit"
    <3> DEFINE g == [i \in F |-> 0]
    <3>1. PICK i \in F : \A j \in F : g[i] <= g[j] /\ (j < i => g[i] < g[j])
      BY <1>1, FirstLeast DEF F
    <3>2. \A j \in F : ~(j < i)
      BY <3>1
    <3> QED
      BY <2>1, <3>2 DEF Better
  <2>2. CASE Policy = "best_fit"
    <3> DEFINE g == [i \in F |-> s[i].pages]
    <3>1. g \in [F -> Nat]
      BY <1>3
    <3>2. PICK i \in F : \A j \in F : g[i] <= g[j] /\ (j < i => g[i] < g[j])
      <4> HIDE DEF g
      <4> QED
        BY <1>1, <3>1, FirstLeast DEF F
    <3>3. \A j \in F : s[i].pages <= s[j].pages /\ (j < i => s[i].pages < s[j].pages)
      BY <3>2
    <3> QED
      BY <1>3, <2>2, <3>3 DEF Better
  <2>3. CASE Policy = "worst_fit"
    <3> DEFINE g == [i \in F |-> NumPages - s[i].pages]
    <3>1. g \in [F -> Nat]
      BY <1>2, <1>3
    <3>2. PICK i \in F : \A j \in F : g[i] <= g[j] /\ (j < i => g[i] < g[j])
      <4> HIDE DEF g
      <4> QED
        BY <1>1, <3>1, FirstLeast DEF F
    <3>3. \A j \in F : /\ NumPages - s[i].pages <= NumPages - s[j].pages
                       /\ j < i => NumPages - s[i].pages < NumPages - s[j].pages
      BY <3>2
    <3>4. \A j \in F : ~(s[j].pages > s[i].pages) /\ (j < i => s[i].pages > s[j].pages)
      BY <1>2, <1>3, <3>3
    <3> QED
      BY <2>3, <3>4 DEF Better
  <2> QED
    BY <1>2, <2>1, <2>2, <2>3
<1>5. Selected(s, n) \in F
  BY <1>4 DEF Selected, F
<1> QED
  BY <1>1, <1>5

-----------------------------------------------------------------------------
(* The memory *)

InPage(b) == b \in Blk /\ PagesOf(b) \subseteq Page

\* Blocks within the memory are those of MemType.
LEMMA BlockType ==
  ASSUME NEW b
  PROVE  InPage(b) <=> b \in [addr : Page, pages : 1 .. NumPages] /\ EndOf(b) <= FirstPage + NumPages
<1>1. FirstPage \in Nat /\ FirstPage >= 1 /\ NumPages \in Nat /\ NumPages >= 1
  BY PhysMemAssumption
<1>2. \A x : x \in Page <=> x \in Nat /\ FirstPage <= x /\ x < FirstPage + NumPages
  BY <1>1 DEF Page
<1>3. ASSUME InPage(b)
      PROVE  b \in [addr : Page, pages : 1 .. NumPages] /\ EndOf(b) <= FirstPage + NumPages
  <2>1. b \in Blk
    BY <1>3 DEF InPage
  <2>2. /\ b.addr \in Nat /\ b.pages \in Nat /\ b.addr < EndOf(b) /\ b.pages >= 1
        /\ EndOf(b) = b.addr + b.pages
        /\ \A x : x \in PagesOf(b) <=> x \in Nat /\ b.addr <= x /\ x < EndOf(b)
    BY <2>1, BlkFacts
  <2>3. b.addr \in PagesOf(b) /\ EndOf(b) - 1 \in PagesOf(b)
    BY <2>2
  <2>4. b.addr \in Page /\ EndOf(b) - 1 \in Page
    BY <1>3, <2>3 DEF InPage
  <2>5. b.pages \in 1 .. NumPages /\ EndOf(b) <= FirstPage + NumPages
    BY <1>1, <1>2, <2>2, <2>4
  <2> QED
    BY <2>1, <2>4, <2>5 DEF Blk
<1>4. ASSUME b \in [addr : Page, pages : 1 .. NumPages], EndOf(b) <= FirstPage + NumPages
      PROVE  InPage(b)
  <2>1. b.addr \in Page /\ b.pages \in 1 .. NumPages
    BY <1>4
  <2>2. b.addr \in Nat /\ b.pages \in Nat \ {0}
    BY <1>1, <1>2, <2>1
  <2>3. b \in Blk
    BY <1>4, <2>2 DEF Blk
  <2>4. \A x : x \in PagesOf(b) => x \in Nat /\ b.addr <= x /\ x < EndOf(b)
    BY <2>3, BlkFacts
  <2>5. EndOf(b) \in Nat
    BY <2>3, BlkFacts
  <2> QED
    BY <1>1, <1>2, <1>4, <2>1, <2>3, <2>4, <2>5 DEF InPage
<1> QED
  BY <1>3, <1>4

\* The lists tile the memory, and no used block reaches beyond its end.
MemInv(m) == m \in MemType /\ Tiled(m) /\ PagesIn(m.used_blks) \subseteq Page

PutLists(m, f, u, k, n) ==
  [m EXCEPT !.free_blks = f, !.used_blks = u, !.free_pages = k, !.nodes = n]

LEMMA PageFacts ==
  /\ \A x : x \in Page <=> x \in Nat /\ FirstPage <= x /\ x < FirstPage + NumPages
  /\ 0 \notin Page /\ FirstPage \in Nat /\ NumPages \in Nat /\ FirstPage >= 1 /\ NumPages >= 1
  /\ IsFiniteSet(Page) /\ Cardinality(Page) = NumPages
<1>1. FirstPage \in Nat /\ FirstPage >= 1 /\ NumPages \in Nat /\ NumPages >= 1
  BY PhysMemAssumption
<1>2. FirstPage \in Int /\ FirstPage + NumPages - 1 \in Int
  BY <1>1
<1> DEFINE last == FirstPage + NumPages - 1
<1> HIDE DEF last
<1>3. /\ IsFiniteSet(Page)
      /\ Cardinality(Page) = IF FirstPage > last THEN 0 ELSE last - FirstPage + 1
  <2>1. Page = FirstPage .. last /\ FirstPage \in Int /\ last \in Int
    BY <1>2 DEF Page, last
  <2>2. /\ IsFiniteSet(FirstPage .. last)
        /\ Cardinality(FirstPage .. last) = IF FirstPage > last THEN 0 ELSE last - FirstPage + 1
    BY <2>1, FS_Interval
  <2> QED
    BY <2>1, <2>2
<1>4. Cardinality(Page) = NumPages
  BY <1>1, <1>3 DEF last
<1>5. \A x : x \in Page <=> x \in Nat /\ FirstPage <= x /\ x < FirstPage + NumPages
  BY <1>1 DEF Page
<1> QED
  BY <1>1, <1>3, <1>4, <1>5

LEMMA ListInPage ==
  ASSUME NEW s \in Seq(Blk), PagesIn(s) \subseteq Page
  PROVE  /\ \A b \in ToSet(s) : InPage(b) /\ b.addr \in Page /\ b.addr # 0 /\ b.pages <= NumPages
         /\ s \in Seq([addr : Page, pages : 1 .. NumPages])
<1>1. \A b \in ToSet(s) : b \in Blk
  BY InSet
<1>2. \A b \in ToSet(s) : PagesOf(b) \subseteq Page
  BY PagesOfSet
<1>3. \A b \in ToSet(s) : InPage(b)
  BY <1>1, <1>2 DEF InPage
<1>4. \A b \in ToSet(s) : b \in [addr : Page, pages : 1 .. NumPages]
  BY <1>3, BlockType
<1>5. \A b \in ToSet(s) : b.addr \in Page /\ b.pages \in 1 .. NumPages
  BY <1>4
<1>6. \A b \in ToSet(s) : b.addr # 0 /\ b.pages <= NumPages
  BY <1>5, PageFacts
<1>7. Len(s) \in Nat /\ \A i \in 1 .. Len(s) : s[i] \in [addr : Page, pages : 1 .. NumPages]
  BY <1>4, InSet, ListFacts
<1>8. s \in Seq([addr : Page, pages : 1 .. NumPages])
  <2> DEFINE T == [addr : Page, pages : 1 .. NumPages]
  <2>1. Len(s) \in Nat /\ \A i \in 1 .. Len(s) : s[i] \in T
    BY <1>7
  <2> HIDE DEF T
  <2>2. s \in [1 .. Len(s) -> T]
    BY <2>1
  <2>3. s \in Seq(T)
    BY <2>1, <2>2, SeqDef
  <2> QED
    BY <2>3 DEF T
<1> QED
  BY <1>3, <1>5, <1>6, <1>8

LEMMA MemFacts ==
  ASSUME NEW m, MemInv(m)
  PROVE  /\ m.free_blks \in Seq(Blk) /\ m.used_blks \in Seq(Blk)
         /\ Sorted(m.free_blks) /\ Sorted(m.used_blks)
         /\ NoTouch(ToSet(m.free_blks))
         /\ PagesIn(m.free_blks) \subseteq Page /\ PagesIn(m.used_blks) \subseteq Page
         /\ PagesIn(m.free_blks) = Page \ PagesIn(m.used_blks)
         /\ m.free_pages = Cardinality(PagesIn(m.free_blks))
         /\ m.free_pages \in 0 .. NumPages /\ m.nodes \in 0 .. MAX_NODES /\ m.down \in BOOLEAN
<1> DEFINE B == [addr : Page, pages : 1 .. NumPages]
<1>1. /\ m.free_blks \in Seq(B) /\ m.used_blks \in Seq(B)
      /\ m.free_pages \in 0 .. NumPages /\ m.nodes \in 0 .. MAX_NODES /\ m.down \in BOOLEAN
  BY DEF MemInv, MemType
<1>2. B \subseteq Blk
  <2>1. \A x \in Page : x \in Nat
    BY PageFacts
  <2>2. \A x \in 1 .. NumPages : x \in Nat \ {0}
    BY PageFacts
  <2> QED
    BY <2>1, <2>2 DEF Blk
<1>3. m.free_blks \in Seq(Blk) /\ m.used_blks \in Seq(Blk)
  <2> HIDE DEF B
  <2> QED
    BY <1>1, <1>2
<1>4. NoTouch(ToSet(m.free_blks))
  BY <1>3 DEF MemInv, Tiled, NoTouch, ToSet
<1> QED
  BY <1>1, <1>3, <1>4 DEF MemInv, Tiled

\* A free and a used list that tile the memory, with k free pages.
Tiles(f, u, k) ==
  /\ f \in Seq(Blk) /\ u \in Seq(Blk) /\ Sorted(f) /\ Sorted(u) /\ NoTouch(ToSet(f))
  /\ PagesIn(u) \subseteq Page /\ PagesIn(f) = Page \ PagesIn(u)
  /\ k = Cardinality(PagesIn(f))

\* Two new lists.
LEMMA PutFacts ==
  ASSUME NEW m, MemInv(m), NEW f, NEW u, NEW k, Tiles(f, u, k), NEW n \in 0 .. MAX_NODES
  PROVE  /\ MemInv(PutLists(m, f, u, k, n))
         /\ PutLists(m, f, u, k, n).used_blks = u /\ PutLists(m, f, u, k, n).down = m.down
<1> USE DEF Tiles
<1> DEFINE r == PutLists(m, f, u, k, n)
           B == [addr : Page, pages : 1 .. NumPages]
<1>1. f \in Seq(B) /\ u \in Seq(B)
  BY ListInPage
<1>2. k \in 0 .. NumPages
  <2>1. Cardinality(PagesIn(f)) <= Cardinality(Page) /\ IsFiniteSet(PagesIn(f))
    BY PageFacts, FS_Subset
  <2>2. Cardinality(PagesIn(f)) \in Nat
    BY <2>1, FS_CardinalityType
  <2> QED
    BY <2>1, <2>2, PageFacts
<1>3. m \in [free_blks : Seq(B), used_blks : Seq(B), free_pages : 0 .. NumPages,
             nodes : 0 .. MAX_NODES, down : BOOLEAN]
  BY DEF MemInv, MemType
<1>4. /\ r.free_blks = f /\ r.used_blks = u /\ r.free_pages = k /\ r.down = m.down
      /\ r \in [free_blks : Seq(B), used_blks : Seq(B), free_pages : 0 .. NumPages,
                nodes : 0 .. MAX_NODES, down : BOOLEAN]
  <2> HIDE DEF B
  <2> QED
    BY <1>1, <1>2, <1>3 DEF PutLists
<1>5. r \in MemType
  BY <1>4 DEF MemType
<1> HIDE DEF r
<1>6. \A i, j \in DOMAIN f : EndOf(f[i]) # f[j].addr
  BY DEF NoTouch, ToSet
<1>7. Tiled(r)
  BY <1>4, <1>6 DEF Tiled
<1>8. MemInv(r)
  BY <1>4, <1>5, <1>7 DEF MemInv
<1> QED
  BY <1>4, <1>8 DEF r

\* A free and a used block have no page in common.
LEMMA FreeOrUsed ==
  ASSUME NEW m, MemInv(m)
  PROVE  /\ \A a \in ToSet(m.free_blks), b \in ToSet(m.used_blks) : Apart(a, b) /\ a.addr # b.addr
         /\ \A a, b \in ToSet(m.used_blks) : a.addr = b.addr => a = b
<1>1. m.free_blks \in Seq(Blk) /\ m.used_blks \in Seq(Blk) /\ Sorted(m.used_blks)
  BY MemFacts
<1>2. ASSUME NEW a \in ToSet(m.free_blks), NEW b \in ToSet(m.used_blks)
      PROVE Apart(a, b) /\ a.addr # b.addr
  <2>1. a \in Blk /\ b \in Blk
    BY <1>1, InSet
  <2>2. ASSUME NEW x PROVE ~(x \in PagesOf(a) /\ x \in PagesOf(b))
    <3>1. x \in PagesOf(a) => x \in PagesIn(m.free_blks)
      BY PagesOfSet
    <3>2. x \in PagesOf(b) => x \in PagesIn(m.used_blks)
      BY PagesOfSet
    <3>3. PagesIn(m.free_blks) = Page \ PagesIn(m.used_blks)
      BY MemFacts
    <3> QED
      BY <3>1, <3>2, <3>3
  <2>3. Apart(a, b)
    BY <2>1, <2>2, ApartPages
  <2>4. a.addr \in PagesOf(a) /\ b.addr \in PagesOf(b)
    BY <2>1, BlkFacts
  <2> QED
    BY <2>2, <2>3, <2>4
<1>3. ASSUME NEW a \in ToSet(m.used_blks), NEW b \in ToSet(m.used_blks), a.addr = b.addr
      PROVE  a = b
  <2> DEFINE s == m.used_blks
  <2> HIDE DEF s
  <2>1. s \in Seq(Blk) /\ Sorted(s) /\ a \in ToSet(s) /\ b \in ToSet(s)
    BY <1>1 DEF s
  <2>2. PICK i \in 1 .. Len(s), j \in 1 .. Len(s) : a = s[i] /\ b = s[j]
    BY <2>1, InSet
  <2>3. s[i].addr = s[j].addr => i = j
    BY <2>1, Below
  <2> QED
    BY <1>3, <2>2, <2>3
<1> QED
  BY <1>2, <1>3

LEMMA PagesCount ==
  ASSUME NEW b \in Blk
  PROVE  IsFiniteSet(PagesOf(b)) /\ Cardinality(PagesOf(b)) = b.pages
<1> DEFINE lo == b.addr
           hi == b.addr + b.pages - 1
<1>1. b.addr \in Nat /\ b.pages \in Nat /\ b.pages >= 1
  BY BlkFacts
<1>2. PagesOf(b) = lo .. hi /\ lo \in Int /\ hi \in Int
  BY <1>1 DEF PagesOf
<1>3. hi - lo + 1 = b.pages /\ ~(lo > hi)
  BY <1>1
<1> HIDE DEF lo, hi
<1>4. IsFiniteSet(lo .. hi) /\ Cardinality(lo .. hi) = IF lo > hi THEN 0 ELSE hi - lo + 1
  BY <1>2, FS_Interval
<1> QED
  BY <1>2, <1>3, <1>4

LEMMA CountUnion ==
  ASSUME NEW S, NEW T, IsFiniteSet(S), IsFiniteSet(T), S \cap T = {}
  PROVE  /\ Cardinality(S \cup T) = Cardinality(S) + Cardinality(T)
         /\ Cardinality(S) \in Nat /\ Cardinality(T) \in Nat
<1>1. Cardinality(S) \in Nat /\ Cardinality(T) \in Nat
  BY FS_CardinalityType
<1>2. Cardinality(S \cup T) = Cardinality(S) + Cardinality(T) - Cardinality(S \cap T)
  BY FS_Union
<1>3. Cardinality(S \cap T) = 0
  BY FS_EmptySet
<1> DEFINE cs == Cardinality(S)
           ct == Cardinality(T)
           cu == Cardinality(S \cup T)
<1> HIDE DEF cs, ct, cu
<1>4. cs \in Nat /\ ct \in Nat /\ cu = cs + ct - 0
  BY <1>1, <1>2, <1>3 DEF cs, ct, cu
<1>5. cu = cs + ct
  BY <1>4
<1> QED
  BY <1>1, <1>5 DEF cs, ct, cu

LEMMA CountWithout ==
  ASSUME NEW S, NEW T \in SUBSET S, IsFiniteSet(S)
  PROVE  Cardinality(S \ T) = Cardinality(S) - Cardinality(T)
<1>1. IsFiniteSet(T) /\ IsFiniteSet(S \ T)
  BY FS_Subset
<1>2. (S \ T) \cap T = {} /\ (S \ T) \cup T = S
  OBVIOUS
<1>3. /\ Cardinality((S \ T) \cup T) = Cardinality(S \ T) + Cardinality(T)
      /\ Cardinality(S \ T) \in Nat /\ Cardinality(T) \in Nat
  BY <1>1, <1>2, CountUnion
<1> DEFINE a == Cardinality(S \ T)
           b == Cardinality(T)
           c == Cardinality(S)
<1> HIDE DEF a, b, c
<1>4. c = a + b /\ a \in Nat /\ b \in Nat
  BY <1>2, <1>3 DEF a, b, c
<1>5. a = c - b
  BY <1>4
<1> QED
  BY <1>5 DEF a, b, c

\* A free block gives up its first n pages.
LEMMA ShrinkFacts ==
  ASSUME NEW s \in Seq(Blk), Sorted(s), NoTouch(ToSet(s)), NEW i \in 1 .. Len(s),
         NEW n \in Nat \ {0}, n < s[i].pages,
         NEW b \in Blk, b = Block(s[i].addr, n),
         NEW e \in Blk, e = Block(s[i].addr + n, s[i].pages - n)
  PROVE  /\ ReplaceAt(s, i, e) \in Seq(Blk) /\ Sorted(ReplaceAt(s, i, e))
         /\ NoTouch(ToSet(ReplaceAt(s, i, e)))
         /\ PagesIn(ReplaceAt(s, i, e)) = PagesIn(s) \ PagesOf(b)
         /\ PagesOf(b) \subseteq PagesIn(s)
<1> DEFINE r == ReplaceAt(s, i, e)
           l == Len(s)
           a == s[i]
<1>1. /\ r \in Seq(Blk) /\ Len(r) = l
      /\ \A j \in 1 .. l : r[j] = IF j = i THEN e ELSE s[j]
  <2>1. i \in 1 .. Len(s) /\ e \in Blk
    OBVIOUS
  <2>2. r \in Seq(Blk) /\ Len(r) = Len(s)
    BY ONLY <2>1, Replaced, s \in Seq(Blk)
  <2>3. \A j \in 1 .. Len(s) : r[j] = IF j = i THEN e ELSE s[j]
    BY ONLY <2>1, s \in Seq(Blk) DEF ReplaceAt
  <2> QED
    BY <2>2, <2>3
<1>2. l \in Nat /\ i \in 1 .. l /\ a \in Blk /\ n \in Nat /\ n > 0
  BY ListFacts
<1>3. /\ a.addr \in Nat /\ a.pages \in Nat /\ EndOf(a) = a.addr + a.pages
      /\ e.addr \in Nat /\ e.pages \in Nat /\ EndOf(e) = e.addr + e.pages
      /\ b.addr \in Nat /\ b.pages \in Nat /\ EndOf(b) = b.addr + b.pages
  BY <1>2, BlkFacts
<1>4. /\ b.addr = a.addr /\ b.pages = n
      /\ e.addr = a.addr + n /\ e.pages = a.pages - n /\ n < a.pages
  BY DEF Block
<1>5. /\ a.addr < e.addr /\ e.addr < EndOf(a) /\ EndOf(e) = EndOf(a) /\ EndOf(a) \in Nat
      /\ EndOf(b) = e.addr
  BY ONLY <1>2, <1>3, <1>4
<1>6. \A j, k \in 1 .. l : /\ s[j] \in Blk /\ s[j].addr \in Nat /\ EndOf(s[j]) \in Nat
                           /\ s[j].addr < EndOf(s[j])
                           /\ j < k => EndOf(s[j]) <= s[k].addr
                           /\ EndOf(s[j]) # s[k].addr
                           /\ j # k => Apart(s[j], s[k])
  <2>1. \A j \in 1 .. l : s[j] \in ToSet(s)
    BY InSet
  <2> QED
    BY <2>1, ListFacts, Below DEF NoTouch
<1> HIDE DEF r, l
<1>7. ASSUME NEW j \in 1 .. l
      PROVE  /\ EndOf(r[j]) = EndOf(s[j]) /\ r[j].addr \in Nat /\ s[j].addr <= r[j].addr
             /\ j # i => r[j] = s[j]
  <2>1. CASE j = i
    BY <1>1, <1>3, <1>5, <2>1
  <2>2. CASE j # i
    <3>1. r[j] = s[j]
      BY <1>1, <2>2
    <3> QED
      BY <1>6, <2>2, <3>1
  <2> QED
    BY <2>1, <2>2
<1>8. r[i] = e
  BY <1>1, <1>2
<1>9. Sorted(r)
  <2>1. ASSUME NEW j \in 1 .. l, NEW k \in 1 .. l, j < k PROVE EndOf(r[j]) <= r[k].addr
    <3>1. EndOf(r[j]) = EndOf(s[j]) /\ EndOf(s[j]) <= s[k].addr /\ s[k].addr <= r[k].addr
      BY <1>6, <1>7, <2>1
    <3> QED
      BY <1>6, <1>7, <3>1
  <2>2. DOMAIN r = 1 .. l
    BY <1>1
  <2> QED
    BY <2>1, <2>2 DEF Sorted
<1>10. NoTouch(ToSet(r))
  <2>1. ASSUME NEW j \in 1 .. l, NEW k \in 1 .. l PROVE EndOf(r[j]) # r[k].addr
    <3>1. CASE k # i
      BY <1>6, <1>7, <3>1
    <3>2. CASE k = i
      <4>1. CASE j < i
        <5>1. EndOf(r[j]) <= a.addr /\ EndOf(r[j]) \in Nat
          BY <1>2, <1>6, <1>7, <4>1
        <5> QED
          BY <1>3, <1>5, <1>8, <3>2, <5>1
      <4>2. CASE j = i
        <5>1. EndOf(r[j]) = EndOf(a)
          BY <1>7, <4>2
        <5> QED
          BY <1>3, <1>5, <1>8, <3>2, <5>1
      <4>3. CASE j > i
        <5>1. EndOf(a) <= s[j].addr /\ s[j].addr < EndOf(s[j]) /\ EndOf(r[j]) = EndOf(s[j])
              /\ s[j].addr \in Nat /\ EndOf(s[j]) \in Nat
          BY <1>2, <1>6, <1>7, <4>3
        <5>2. r[k].addr = e.addr
          BY <1>8, <3>2
        <5> QED
          BY ONLY <1>3, <1>5, <5>1, <5>2
      <4> QED
        BY <1>2, <4>1, <4>2, <4>3
    <3> QED
      BY <3>1, <3>2
  <2>2. \A x : x \in ToSet(r) <=> \E j \in 1 .. l : x = r[j]
    BY <1>1, InSet
  <2>3. ASSUME NEW x \in ToSet(r), NEW y \in ToSet(r) PROVE EndOf(x) # y.addr
    <3>1. PICK j \in 1 .. l : x = r[j]
      BY <2>2
    <3>2. PICK k \in 1 .. l : y = r[k]
      BY <2>2
    <3> QED
      BY <2>1, <3>1, <3>2
  <2> QED
    BY <2>3 DEF NoTouch
<1>11. \A x : /\ x \in PagesOf(a) <=> x \in PagesOf(b) \/ x \in PagesOf(e)
              /\ ~(x \in PagesOf(b) /\ x \in PagesOf(e))
  <2>1. \A x : x \in PagesOf(a) <=> x \in Nat /\ a.addr <= x /\ x < EndOf(a)
    BY <1>2, BlkFacts
  <2>2. \A x : x \in PagesOf(b) <=> x \in Nat /\ b.addr <= x /\ x < EndOf(b)
    BY BlkFacts
  <2>3. \A x : x \in PagesOf(e) <=> x \in Nat /\ e.addr <= x /\ x < EndOf(e)
    BY BlkFacts
  <2> QED
    BY ONLY <1>3, <1>4, <1>5, <2>1, <2>2, <2>3
<1>12. \A j \in 1 .. l : j # i => \A x : ~(x \in PagesOf(s[j]) /\ x \in PagesOf(a))
  BY <1>2, <1>6, ApartPages
<1>13. \A x : x \in PagesIn(r) <=> \E j \in 1 .. l : x \in PagesOf(r[j])
  <2>1. DOMAIN r = 1 .. l
    BY <1>1
  <2> QED
    BY <2>1 DEF PagesIn
<1>14. \A x : x \in PagesIn(s) <=> \E j \in 1 .. l : x \in PagesOf(s[j])
  <2>1. DOMAIN s = 1 .. l
    BY DEF l
  <2> QED
    BY <2>1 DEF PagesIn
<1>15. ASSUME NEW x PROVE x \in PagesIn(r) <=> x \in PagesIn(s) /\ x \notin PagesOf(b)
  <2>1. ASSUME x \in PagesIn(r) PROVE x \in PagesIn(s) /\ x \notin PagesOf(b)
    <3>1. PICK j \in 1 .. l : x \in PagesOf(r[j])
      BY <1>13, <2>1
    <3>2. CASE j = i
      BY <1>2, <1>8, <1>11, <1>14, <3>1, <3>2
    <3>3. CASE j # i
      <4>1. x \in PagesOf(s[j])
        BY <1>7, <3>1, <3>3
      <4> QED
        BY <1>11, <1>12, <1>14, <3>3, <4>1
    <3> QED
      BY <3>2, <3>3
  <2>2. ASSUME x \in PagesIn(s), x \notin PagesOf(b) PROVE x \in PagesIn(r)
    <3>1. PICK j \in 1 .. l : x \in PagesOf(s[j])
      BY <1>14, <2>2
    <3>2. CASE j = i
      BY <1>2, <1>8, <1>11, <1>13, <2>2, <3>1, <3>2
    <3>3. CASE j # i
      BY <1>7, <1>13, <3>1, <3>3
    <3> QED
      BY <3>2, <3>3
  <2> QED
    BY <2>1, <2>2
<1>16. PagesOf(b) \subseteq PagesIn(s)
  BY <1>2, <1>11, <1>14
<1> QED
  BY <1>1, <1>9, <1>10, <1>15, <1>16 DEF r

\* The kernel stops when the containers are used up.
LEMMA StopFacts ==
  ASSUME NEW m, MemInv(m)
  PROVE  /\ MemInv([m EXCEPT !.down = TRUE])
         /\ [m EXCEPT !.down = TRUE].down
<1> DEFINE r == [m EXCEPT !.down = TRUE]
<1>1. m \in MemType
  BY DEF MemInv
<1>2. /\ r.free_blks = m.free_blks /\ r.used_blks = m.used_blks /\ r.free_pages = m.free_pages
      /\ r.down = TRUE
  BY <1>1 DEF MemType
<1>3. r \in MemType
  BY <1>1 DEF MemType
<1> HIDE DEF r
<1>4. MemInv(r)
  BY <1>2, <1>3 DEF MemInv, Tiled
<1> QED
  BY <1>2, <1>4 DEF r

LEMMA TakeFacts ==
  ASSUME NEW m, MemInv(m), NEW i \in 1 .. Len(m.free_blks), NEW n \in Nat \ {0},
         m.free_blks[i].pages >= n
  PROVE  /\ MemInv(TakeBlock(m, i, n))
         /\ \/ TakeBlock(m, i, n).down
            \/ /\ ToSet(TakeBlock(m, i, n).used_blks) =
                    ToSet(m.used_blks) \cup {Block(m.free_blks[i].addr, n)}
               /\ TakeBlock(m, i, n).down = m.down
         /\ \A b \in ToSet(m.used_blks) : b.addr # m.free_blks[i].addr
         /\ m.free_blks[i].addr \in Page /\ m.free_blks[i].addr # 0
<1> DEFINE f == m.free_blks
           u == m.used_blks
           a == f[i]
           b == Block(a.addr, n)
           e == Block(a.addr + n, a.pages - n)
           r == TakeBlock(m, i, n)
           f2 == IF a.pages = n THEN RemoveAt(f, i) ELSE ReplaceAt(f, i, e)
           u2 == InsertBlock(u, b)
           k2 == m.free_pages - n
           n2 == IF a.pages = n THEN m.nodes ELSE m.nodes + 1
<1>1. /\ f \in Seq(Blk) /\ u \in Seq(Blk) /\ Sorted(f) /\ Sorted(u) /\ NoTouch(ToSet(f))
      /\ PagesIn(f) \subseteq Page /\ PagesIn(u) \subseteq Page
      /\ PagesIn(f) = Page \ PagesIn(u) /\ m.free_pages = Cardinality(PagesIn(f))
      /\ m.nodes \in 0 .. MAX_NODES
  BY MemFacts
<1>2. a \in Blk /\ a \in ToSet(f)
  BY <1>1, ListFacts, InSet
<1>3. a.addr \in Page /\ a.addr # 0
  BY <1>1, <1>2, ListInPage
<1>4. \A c \in ToSet(u) : c.addr # a.addr /\ Apart(a, c)
  BY <1>2, FreeOrUsed
<1>5. a.addr \in Nat /\ a.pages \in Nat /\ a.pages >= n /\ n \in Nat /\ n >= 1
  BY <1>2, BlkFacts
<1>6. b \in Blk /\ b.addr = a.addr /\ b.pages = n
  BY <1>5 DEF Block, Blk
<1>7. CASE ~(a.pages = n) /\ m.nodes = MAX_NODES
  <2>1. r = [m EXCEPT !.down = TRUE]
    BY <1>7 DEF TakeBlock
  <2> QED
    BY <1>3, <1>4, <2>1, StopFacts
<1>8. CASE a.pages = n \/ m.nodes # MAX_NODES
  <2>1. r = PutLists(m, f2, u2, k2, n2)
    BY <1>8 DEF TakeBlock, PutLists
  <2>2. /\ f2 \in Seq(Blk) /\ Sorted(f2) /\ NoTouch(ToSet(f2))
        /\ PagesIn(f2) = PagesIn(f) \ PagesOf(b) /\ PagesOf(b) \subseteq PagesIn(f)
    <3>1. CASE a.pages = n
      <4>1. b = a
        BY <1>2, <3>1 DEF Block, Blk
      <4>2. f2 = RemoveAt(f, i)
        BY <3>1
      <4>3. /\ RemoveAt(f, i) \in Seq(Blk) /\ Sorted(RemoveAt(f, i))
            /\ ToSet(RemoveAt(f, i)) = ToSet(f) \ {f[i]}
            /\ PagesIn(RemoveAt(f, i)) = PagesIn(f) \ PagesOf(f[i])
        <5> HIDE DEF f
        <5> QED
          BY <1>1, RemoveFacts DEF f
      <4>4. NoTouch(ToSet(RemoveAt(f, i)))
        BY <1>1, <4>3 DEF NoTouch
      <4>5. PagesOf(a) \subseteq PagesIn(f)
        BY <1>2, PagesOfSet
      <4> QED
        BY <4>1, <4>2, <4>3, <4>4, <4>5
    <3>2. CASE a.pages # n
      <4>1. n < a.pages /\ a.addr + n \in Nat /\ a.pages - n \in Nat \ {0}
        BY <1>5, <3>2
      <4>2. e \in Blk
        BY <4>1 DEF Block, Blk
      <4>3. f2 = ReplaceAt(f, i, e)
        BY <3>2
      <4> DEFINE bb == b
                 ee == e
                 ff == f
      <4> HIDE DEF bb, ee, ff
      <4>4. /\ ff \in Seq(Blk) /\ Sorted(ff) /\ NoTouch(ToSet(ff)) /\ i \in 1 .. Len(ff)
            /\ n < ff[i].pages /\ bb \in Blk /\ bb = Block(ff[i].addr, n)
            /\ ee \in Blk /\ ee = Block(ff[i].addr + n, ff[i].pages - n)
        BY <1>1, <1>6, <4>1, <4>2 DEF bb, ee, ff
      <4>5. /\ ReplaceAt(ff, i, ee) \in Seq(Blk) /\ Sorted(ReplaceAt(ff, i, ee))
            /\ NoTouch(ToSet(ReplaceAt(ff, i, ee)))
            /\ PagesIn(ReplaceAt(ff, i, ee)) = PagesIn(ff) \ PagesOf(bb)
            /\ PagesOf(bb) \subseteq PagesIn(ff)
        BY <4>4, ShrinkFacts
      <4> QED
        BY <4>3, <4>5 DEF bb, ee, ff
    <3> QED
      BY <3>1, <3>2
  <2> HIDE DEF f2, e
  <2>3. \A j \in 1 .. Len(u) : Apart(u[j], b)
    <3>1. \A c \in ToSet(u) : c \in Blk
      BY <1>1, InSet
    <3>2. \A j \in 1 .. Len(u) : u[j] \in ToSet(u)
      BY <1>1, InSet
    <3>3. ASSUME NEW x, NEW c \in ToSet(u) PROVE ~(x \in PagesOf(c) /\ x \in PagesOf(b))
      <4>1. x \in PagesOf(c) => x \in PagesIn(u)
        BY PagesOfSet
      <4> QED
        BY <1>1, <2>2, <4>1
    <3>4. \A c \in ToSet(u) : Apart(c, b)
      BY <1>6, <3>1, <3>3, ApartPages
    <3> QED
      BY <3>2, <3>4
  <2>4. /\ u2 \in Seq(Blk) /\ Sorted(u2) /\ ToSet(u2) = ToSet(u) \cup {b}
        /\ PagesIn(u2) = PagesIn(u) \cup PagesOf(b)
    <3> DEFINE bb == b
               uu == u
    <3> HIDE DEF bb, uu
    <3>1. uu \in Seq(Blk) /\ Sorted(uu) /\ bb \in Blk /\ \A j \in 1 .. Len(uu) : Apart(uu[j], bb)
      BY <1>1, <1>6, <2>3 DEF bb, uu
    <3>2. /\ InsertBlock(uu, bb) \in Seq(Blk) /\ Sorted(InsertBlock(uu, bb))
          /\ ToSet(InsertBlock(uu, bb)) = ToSet(uu) \cup {bb}
          /\ PagesIn(InsertBlock(uu, bb)) = PagesIn(uu) \cup PagesOf(bb)
      BY <3>1, InsertBlockSets
    <3> QED
      BY <3>2 DEF bb, uu
  <2>5. PagesIn(f2) = Page \ PagesIn(u2) /\ PagesIn(u2) \subseteq Page
    BY <1>1, <2>2, <2>4
  <2>6. k2 = Cardinality(PagesIn(f2))
    <3>1. IsFiniteSet(PagesIn(f))
      BY <1>1, PageFacts, FS_Subset
    <3>2. Cardinality(PagesIn(f) \ PagesOf(b)) = Cardinality(PagesIn(f)) - Cardinality(PagesOf(b))
      BY <2>2, <3>1, CountWithout
    <3>3. Cardinality(PagesOf(b)) = n
      BY <1>6, PagesCount
    <3> QED
      BY <1>1, <2>2, <3>2, <3>3
  <2>7. n2 \in 0 .. MAX_NODES
    BY <1>1, <1>8, PhysMemAssumption
  <2> HIDE DEF u2, k2, n2, r, b, f, u
  <2>8. /\ MemInv(PutLists(m, f2, u2, k2, n2)) /\ PutLists(m, f2, u2, k2, n2).used_blks = u2
        /\ PutLists(m, f2, u2, k2, n2).down = m.down
    <3>1. Tiles(f2, u2, k2)
      BY <2>2, <2>4, <2>5, <2>6 DEF Tiles
    <3> QED
      BY <2>7, <3>1, PutFacts
  <2> QED
    BY <1>3, <1>4, <2>1, <2>4, <2>8 DEF r, b, f, u
<1> QED
  BY <1>7, <1>8

\* alloc_ppages: the memory stays tiled; what it hands out was free, is used
\* from then on, and 0 leaves the memory as it was.
LEMMA AllocFacts ==
  ASSUME NEW m, MemInv(m), NEW n \in Nat
  PROVE  /\ MemInv(alloc_ppages(m, n))
         /\ alloc_addr(m, n) = 0 => alloc_ppages(m, n) = m
         /\ alloc_addr(m, n) # 0 =>
              /\ alloc_addr(m, n) \in Page
              /\ \A b \in ToSet(m.used_blks) : b.addr # alloc_addr(m, n)
              /\ \/ alloc_ppages(m, n).down
                 \/ /\ ToSet(alloc_ppages(m, n).used_blks) =
                         ToSet(m.used_blks) \cup {Block(alloc_addr(m, n), n)}
                    /\ alloc_ppages(m, n).down = m.down
<1>1. CASE ~Available(m, n)
  BY <1>1 DEF alloc_ppages, alloc_addr
<1>2. CASE Available(m, n)
  <2> DEFINE f == m.free_blks
             i == Selected(f, n)
  <2>1. f \in Seq(Blk) /\ PagesIn(f) \subseteq Page
    BY MemFacts
  <2>2. \A j \in 1 .. Len(f) : f[j].pages <= NumPages
    BY <2>1, InSet, ListInPage
  <2>3. n # 0 /\ Fitting(f, n) # {}
    BY <1>2 DEF Available
  <2>4. i \in 1 .. Len(f) /\ f[i].pages >= n
    <3> HIDE DEF f
    <3> QED
      BY <2>1, <2>2, <2>3, SelectedFits
  <2>5. alloc_addr(m, n) = f[i].addr /\ alloc_ppages(m, n) = TakeBlock(m, i, n)
    BY <1>2 DEF alloc_addr, alloc_ppages
  <2> HIDE DEF i
  <2>6. n \in Nat \ {0} /\ i \in 1 .. Len(m.free_blks) /\ m.free_blks[i].pages >= n
    BY <2>3, <2>4
  <2>7. /\ MemInv(TakeBlock(m, i, n))
        /\ \A b \in ToSet(m.used_blks) : b.addr # m.free_blks[i].addr
        /\ m.free_blks[i].addr \in Page /\ m.free_blks[i].addr # 0
    BY <2>6, TakeFacts
  <2>8. \/ TakeBlock(m, i, n).down
        \/ /\ ToSet(TakeBlock(m, i, n).used_blks) =
                ToSet(m.used_blks) \cup {Block(m.free_blks[i].addr, n)}
           /\ TakeBlock(m, i, n).down = m.down
    BY <2>6, TakeFacts
  <2> HIDE DEF f
  <2>9. alloc_addr(m, n) = m.free_blks[i].addr /\ alloc_ppages(m, n) = TakeBlock(m, i, n)
    BY <2>5 DEF f
  <2> QED
    BY <2>7, <2>8, <2>9
<1> QED
  BY <1>1, <1>2

LEMMA FindFacts ==
  ASSUME NEW s \in Seq(Blk), NEW addr
  PROVE  LET i == SelectInSeq(s, LAMBDA b : b.addr = addr)
         IN  \/ i = 0 /\ \A j \in 1 .. Len(s) : s[j].addr # addr
             \/ i \in 1 .. Len(s) /\ s[i].addr = addr /\ i # 0
<1> DEFINE I == {i \in 1 .. Len(s) : s[i].addr = addr}
           p == SelectInSeq(s, LAMBDA b : b.addr = addr)
<1>1. p = IF I # {} THEN Min(I) ELSE 0
  BY DEF SelectInSeq
<1>2. CASE I = {}
  BY <1>1, <1>2
<1>3. CASE I # {}
  <2>1. PICK e \in I : TRUE
    BY <1>3
  <2>2. I \in SUBSET Nat
    OBVIOUS
  <2>3. Min(I) \in I
    <3> HIDE DEF I
    <3> QED
      BY <2>1, <2>2, MinOfNats
  <2>4. p \in 1 .. Len(s) /\ s[p].addr = addr
    BY <1>1, <1>3, <2>3
  <2>5. p # 0
    BY <2>4
  <2> QED
    BY <2>4, <2>5
<1> QED
  BY <1>2, <1>3

\* free_ppages: the memory stays tiled and the block with that address, if
\* there is one, is no longer used.
LEMMA FreeFacts ==
  ASSUME NEW m, MemInv(m), NEW addr
  PROVE  /\ MemInv(free_ppages(m, addr))
         /\ free_ppages(m, addr).down = m.down
         /\ \A b : b \in ToSet(free_ppages(m, addr).used_blks) <=>
                     b \in ToSet(m.used_blks) /\ b.addr # addr
<1> DEFINE f == m.free_blks
           u == m.used_blks
           i == SelectInSeq(u, LAMBDA b : b.addr = addr)
           r == free_ppages(m, addr)
           f2 == Compact(f, u[i])
           u2 == RemoveAt(u, i)
           k2 == m.free_pages + u[i].pages
<1>1. /\ f \in Seq(Blk) /\ u \in Seq(Blk) /\ Sorted(f) /\ Sorted(u) /\ NoTouch(ToSet(f))
      /\ PagesIn(f) \subseteq Page /\ PagesIn(u) \subseteq Page
      /\ PagesIn(f) = Page \ PagesIn(u) /\ m.free_pages = Cardinality(PagesIn(f))
      /\ m.nodes \in 0 .. MAX_NODES
  BY MemFacts
<1>2. \/ i = 0 /\ \A j \in 1 .. Len(u) : u[j].addr # addr
      \/ i \in 1 .. Len(u) /\ u[i].addr = addr /\ i # 0
  <2> HIDE DEF u
  <2> QED
    BY <1>1, FindFacts
<1>3. \A b \in ToSet(u) : b.addr # 0 /\ b \in Blk
  BY <1>1, ListInPage, InSet
<1>4. CASE addr = 0 \/ i = 0
  <2>1. r = m
    BY <1>4 DEF free_ppages
  <2>2. \A b \in ToSet(u) : b.addr # addr
    <3>1. CASE addr = 0
      BY <1>3, <3>1
    <3>2. CASE i = 0
      BY <1>1, <1>2, <3>2, InSet
    <3> QED
      BY <1>4, <3>1, <3>2
  <2> QED
    BY <2>1, <2>2
<1>5. CASE ~(addr = 0 \/ i = 0)
  <2>1. i \in 1 .. Len(u) /\ u[i].addr = addr
    BY <1>2, <1>5
  <2>2. r = PutLists(m, f2, u2, k2, m.nodes)
    <3>1. r = [m EXCEPT !.used_blks = RemoveAt(@, i), !.free_blks = Compact(@, m.used_blks[i]),
                        !.free_pages = @ + m.used_blks[i].pages]
      BY <1>5 DEF free_ppages
    <3>2. m \in MemType
      BY DEF MemInv
    <3> HIDE DEF i
    <3> QED
      BY <3>1, <3>2 DEF MemType, PutLists
  <2> DEFINE a == u[i]
  <2>3. a \in Blk /\ a \in ToSet(u) /\ a.addr = addr
    BY <1>1, <1>3, <2>1, InSet
  <2> HIDE DEF i
  <2>4. \A j \in 1 .. Len(f) : Apart(f[j], a)
    BY <1>1, <2>3, FreeOrUsed, InSet
  <2>5. /\ f2 \in Seq(Blk) /\ Sorted(f2) /\ NoTouch(ToSet(f2))
        /\ PagesIn(f2) = PagesIn(f) \cup PagesOf(a)
    <3> DEFINE ff == f
               aa == a
    <3> HIDE DEF ff, aa
    <3>1. /\ ff \in Seq(Blk) /\ Sorted(ff) /\ NoTouch(ToSet(ff)) /\ aa \in Blk
          /\ \A j \in 1 .. Len(ff) : Apart(ff[j], aa)
      BY <1>1, <2>3, <2>4 DEF ff, aa
    <3>2. /\ Compact(ff, aa) \in Seq(Blk) /\ Sorted(Compact(ff, aa))
          /\ NoTouch(ToSet(Compact(ff, aa)))
          /\ PagesIn(Compact(ff, aa)) = PagesIn(ff) \cup PagesOf(aa)
      BY <3>1, CompactFacts
    <3> QED
      BY <3>2 DEF ff, aa
  <2>6. /\ u2 \in Seq(Blk) /\ Sorted(u2) /\ ToSet(u2) = ToSet(u) \ {a}
        /\ PagesIn(u2) = PagesIn(u) \ PagesOf(a)
    <3> DEFINE uu == u
    <3> HIDE DEF uu
    <3>1. uu \in Seq(Blk) /\ Sorted(uu) /\ i \in 1 .. Len(uu)
      BY <1>1, <2>1 DEF uu
    <3>2. /\ RemoveAt(uu, i) \in Seq(Blk) /\ Sorted(RemoveAt(uu, i))
          /\ ToSet(RemoveAt(uu, i)) = ToSet(uu) \ {uu[i]}
          /\ PagesIn(RemoveAt(uu, i)) = PagesIn(uu) \ PagesOf(uu[i])
      BY <3>1, RemoveFacts
    <3> QED
      BY <3>2 DEF uu
  <2>7. PagesOf(a) \subseteq PagesIn(u)
    BY <2>3, PagesOfSet
  <2>8. PagesIn(u2) \subseteq Page /\ PagesIn(f2) = Page \ PagesIn(u2)
    BY <1>1, <2>5, <2>6, <2>7
  <2>9. k2 = Cardinality(PagesIn(f2))
    <3>1. IsFiniteSet(PagesIn(f)) /\ IsFiniteSet(PagesOf(a)) /\ Cardinality(PagesOf(a)) = a.pages
      BY <1>1, <2>3, PageFacts, FS_Subset, PagesCount
    <3>2. PagesIn(f) \cap PagesOf(a) = {}
      BY <1>1, <2>7
    <3>3. Cardinality(PagesIn(f) \cup PagesOf(a)) = Cardinality(PagesIn(f)) + Cardinality(PagesOf(a))
      BY <3>1, <3>2, CountUnion
    <3> QED
      BY <1>1, <2>5, <3>1, <3>3
  <2>10. Tiles(f2, u2, k2)
    BY <2>5, <2>6, <2>8, <2>9 DEF Tiles
  <2> HIDE DEF f2, u2, k2, f, u, r, a
  <2>11. /\ MemInv(PutLists(m, f2, u2, k2, m.nodes)) /\ PutLists(m, f2, u2, k2, m.nodes).used_blks = u2
         /\ PutLists(m, f2, u2, k2, m.nodes).down = m.down
    BY <1>1, <2>10, PutFacts
  <2>12. \A b \in ToSet(u) : b = a <=> b.addr = addr
    BY <2>3, FreeOrUsed DEF u
  <2> QED
    BY <2>2, <2>6, <2>11, <2>12 DEF r, u
<1> QED
  BY <1>4, <1>5

\* The memory vm_bootstrap sets up.
LEMMA BootFacts == MemInv(vm_bootstrap) /\ ToSet(vm_bootstrap.used_blks) = {}
<1> DEFINE b == Block(FirstPage, NumPages)
           m == vm_bootstrap
<1>1. FirstPage \in Nat \ {0} /\ NumPages \in Nat \ {0} /\ MAX_NODES \in Nat \ {0}
  BY PhysMemAssumption
<1>2. b \in Blk /\ PagesOf(b) = Page /\ EndOf(b) = FirstPage + NumPages /\ b.addr = FirstPage
  BY <1>1 DEF Block, Blk, PagesOf, Page, EndOf
<1>3. b \in [addr : Page, pages : 1 .. NumPages]
  BY <1>1 DEF Block, Page
<1>4. /\ m.free_blks = <<b>> /\ m.used_blks = <<>> /\ m.free_pages = NumPages
      /\ m.nodes = 1 /\ m.down = FALSE
  BY DEF vm_bootstrap
<1>5. m \in MemType
  <2>1. <<b>> \in Seq([addr : Page, pages : 1 .. NumPages])
    BY <1>3
  <2>2. NumPages \in 0 .. NumPages /\ 1 \in 0 .. MAX_NODES
    BY <1>1
  <2> HIDE DEF b
  <2> QED
    BY <2>1, <2>2 DEF vm_bootstrap, MemType, b
<1> HIDE DEF b, m
<1>6. PagesIn(<<b>>) = Page /\ PagesIn(<<>>) = {} /\ ToSet(<<>>) = {}
  <2>1. DOMAIN <<b>> = {1} /\ <<b>>[1] = b /\ DOMAIN <<>> = {}
    OBVIOUS
  <2> QED
    BY <1>2, <2>1 DEF PagesIn, ToSet
<1>7. Sorted(<<b>>) /\ Sorted(<<>>) /\ \A i, j \in DOMAIN <<b>> : EndOf(<<b>>[i]) # <<b>>[j].addr
  <2>1. DOMAIN <<b>> = {1} /\ <<b>>[1] = b /\ DOMAIN <<>> = {}
    OBVIOUS
  <2>2. EndOf(b) # b.addr
    BY <1>1, <1>2
  <2>3. \A i, j \in {1} : ~(i < j)
    OBVIOUS
  <2> QED
    BY <2>1, <2>2, <2>3 DEF Sorted
<1>8. Tiled(m)
  BY <1>4, <1>6, <1>7, PageFacts DEF Tiled
<1> QED
  BY <1>4, <1>5, <1>6, <1>8 DEF MemInv, m

\* alloc_ppages fails only when no run of free pages is long enough: a run ends
\* where its block ends, since the next block would touch it.
LEMMA RunFacts ==
  ASSUME NEW m, MemInv(m), NEW n \in 1 .. NumPages
  PROVE  alloc_addr(m, n) # 0 <=> FreeRun(m, n)
<1> DEFINE f == m.free_blks
           u == m.used_blks
           l == Len(f)
<1>1. /\ f \in Seq(Blk) /\ Sorted(f) /\ NoTouch(ToSet(f))
      /\ PagesIn(f) \subseteq Page /\ PagesIn(f) = Page \ PagesIn(u)
      /\ m.free_pages = Cardinality(PagesIn(f))
  BY MemFacts
<1>2. n \in Nat /\ n >= 1 /\ n # 0
  BY PageFacts
<1>3. \A x : x \in PagesIn(f) <=> \E j \in 1 .. l : x \in PagesOf(f[j])
  <2>1. DOMAIN f = 1 .. l
    BY <1>1, ListFacts
  <2> QED
    BY <2>1 DEF PagesIn
<1>4. \A j \in 1 .. l : /\ f[j] \in Blk /\ f[j] \in ToSet(f)
                        /\ f[j].addr \in Nat /\ f[j].pages \in Nat
                        /\ EndOf(f[j]) = f[j].addr + f[j].pages
                        /\ f[j].addr < EndOf(f[j]) /\ EndOf(f[j]) \in Nat
  BY <1>1, ListFacts, InSet
<1>5. \A j \in 1 .. l : \A x : x \in PagesOf(f[j]) <=> x \in Nat /\ f[j].addr <= x /\ x < EndOf(f[j])
  BY <1>4, BlkFacts
<1>6. ASSUME alloc_addr(m, n) # 0 PROVE FreeRun(m, n)
  <2> DEFINE i == Selected(f, n)
             a == f[i].addr
  <2>1. Available(m, n)
    BY <1>6 DEF alloc_addr
  <2>2. \A j \in 1 .. l : f[j].pages <= NumPages
    BY <1>1, <1>4, ListInPage
  <2>3. i \in 1 .. l /\ f[i].pages >= n
    <3>1. Fitting(f, n) # {}
      BY <2>1 DEF Available
    <3> HIDE DEF f
    <3> QED
      BY <1>1, <1>2, <2>2, <3>1, SelectedFits
  <2> HIDE DEF i
  <2>4. a \in Nat /\ \A x \in a .. a + n - 1 : x \in PagesOf(f[i])
    BY <1>2, <1>4, <1>5, <2>3
  <2>5. \A x \in a .. a + n - 1 : x \in Page /\ x \notin PagesIn(u)
    BY <1>1, <1>3, <2>3, <2>4
  <2>6. a \in a .. a + n - 1 /\ a + n - 1 \in a .. a + n - 1
    BY <1>2, <2>4
  <2> QED
    BY <2>5, <2>6 DEF FreeRun
<1>7. ASSUME FreeRun(m, n) PROVE alloc_addr(m, n) # 0
  <2>1. PICK a \in Page : a + n - 1 \in Page /\ (a .. a + n - 1) \cap PagesIn(u) = {}
    BY <1>7 DEF FreeRun
  <2>2. a \in Nat /\ a >= FirstPage /\ a + n - 1 < FirstPage + NumPages
    BY <2>1, PageFacts
  <2>3. \A x \in a .. a + n - 1 : x \in Page
    BY <1>2, <2>2, PageFacts
  <2>4. \A x \in a .. a + n - 1 : x \in PagesIn(f)
    BY <1>1, <2>1, <2>3
  <2>5. PICK i \in 1 .. l : a \in PagesOf(f[i])
    BY <1>2, <1>3, <2>2, <2>4
  <2>6. f[i].addr <= a /\ a < EndOf(f[i])
    BY <1>5, <2>5
  <2>7. a + n <= EndOf(f[i])
    <3> DEFINE e == EndOf(f[i])
    <3>1. SUFFICES ASSUME e < a + n PROVE FALSE
      BY <1>2, <1>4, <2>2
    <3>2. e \in a .. a + n - 1
      BY <1>2, <1>4, <2>2, <2>6, <3>1
    <3>3. PICK j \in 1 .. l : e \in PagesOf(f[j])
      BY <1>3, <2>4, <3>2
    <3>4. f[j].addr <= e /\ e < EndOf(f[j])
      BY <1>5, <3>3
    <3>5. f[j].addr # e
      BY <1>1, <1>4 DEF NoTouch
    <3>6. j # i
      BY <1>4, <3>4
    <3>7. (i < j => e <= f[j].addr) /\ (j < i => EndOf(f[j]) <= f[i].addr)
      <4> HIDE DEF f
      <4> QED
        BY <1>1, Below
    <3>8. CASE i < j
      BY <1>4, <3>4, <3>5, <3>7, <3>8
    <3>9. CASE j < i
      BY <1>4, <3>4, <3>7, <3>9
    <3> QED
      BY <3>6, <3>8, <3>9
  <2>8. f[i].pages >= n
    BY <1>2, <1>4, <2>2, <2>6, <2>7
  <2>9. Fitting(f, n) # {}
    <3>1. i \in DOMAIN f
      BY <1>1, ListFacts
    <3> QED
      BY <2>8, <3>1 DEF Fitting
  <2>10. m.free_pages >= n
    <3>1. PagesOf(f[i]) \in SUBSET PagesIn(f) /\ IsFiniteSet(PagesIn(f))
      BY <1>1, <1>3, PageFacts, FS_Subset
    <3>2. Cardinality(PagesOf(f[i])) = f[i].pages
      BY <1>4, PagesCount
    <3>3. Cardinality(PagesOf(f[i])) <= Cardinality(PagesIn(f)) /\ Cardinality(PagesIn(f)) \in Nat
      BY <3>1, FS_Subset, FS_CardinalityType
    <3>4. m.free_pages \in Nat /\ f[i].pages <= m.free_pages
      BY <1>1, <3>2, <3>3
    <3> QED
      BY <1>2, <1>4, <2>8, <3>4
  <2>11. Available(m, n)
    BY <1>2, <2>9, <2>10 DEF Available
  <2> DEFINE k == Selected(f, n)
  <2>12. alloc_addr(m, n) = f[k].addr
    BY <2>11 DEF alloc_addr
  <2>13. \A j \in 1 .. l : f[j].pages <= NumPages /\ f[j].addr # 0
    BY <1>1, <1>4, ListInPage
  <2>14. k \in 1 .. l
    <3> HIDE DEF f
    <3> QED
      BY <1>1, <1>2, <2>9, <2>13, SelectedFits
  <2> QED
    BY <2>12, <2>13, <2>14
<1> QED
  BY <1>6, <1>7

=============================================================================
