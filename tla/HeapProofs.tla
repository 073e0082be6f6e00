----------------------------- MODULE HeapProofs -----------------------------
(***************************************************************************)
(* The kernel heap on the page allocator, for every amount of memory, any  *)
(* block types and any number of threads and page references:              *)
(* KernelHeapIsWhole, which holds until two calls of the unlocked page     *)
(* allocator overlap.  And the heap of the user's C library, for every     *)
(* block size, any sizes asked for and any limit of sbrk: HeapIsWhole.     *)
(* And programs under dumbvm, for every amount of memory, any threads and  *)
(* any executables: ProgramsKeepTheirMemory.                               *)
(***************************************************************************)
EXTENDS Kmalloc, Malloc, Dumbvm, PhysMemProofs

-----------------------------------------------------------------------------
(* The invariant *)

\* The page of an address and its place on the page; a page of a large block.
Pg(a) == a \div PAGE_SIZE
Off(a) == a % PAGE_SIZE
NPages(sz) == (sz + PAGE_SIZE - 1) \div PAGE_SIZE

\* Where the blocks of a page are that has blocks of b bytes.
Offsets(b) == {i * b : i \in 0 .. PerPage(b) - 1}

Rec == [page : Nat, blktype : Sizes, nfree : Nat, freelist : Seq(Nat)]
LiveRec == [addr : Nat, size : Nat \ {0}]

\* A page reference: the free list has nfree of the page's blocks; and not all of them.
RefList(pr) ==
  /\ pr \in Rec
  /\ pr.nfree = Len(pr.freelist) /\ IsInjective(pr.freelist)
  /\ ToSet(pr.freelist) \subseteq Offsets(pr.blktype)
RefOK(pr) == RefList(pr) /\ ToSet(pr.freelist) # Offsets(pr.blktype)

Used(P) == {r \in Ref : P[r] # NONE}

\* References P and the lists S and A.
RefsInv(P, S, A) ==
  /\ P \in [Ref -> Rec \cup {NONE}]
  /\ S \in [Sizes -> Seq(Ref)] /\ A \in Seq(Ref)
  /\ \A r \in Used(P) : RefOK(P[r])
  /\ \A q, r \in Used(P) : P[q].page = P[r].page => q = r
  /\ ToSet(A) = Used(P) /\ IsInjective(A)
  /\ \A s \in Sizes : /\ IsInjective(S[s])
                      /\ ToSet(S[s]) = {r \in Used(P) : P[r].blktype = s}

\* The blocks L in use that are on the page of pr are its blocks that are not free.
OnPage(pr, L) ==
  /\ \A b \in L : Pg(b.addr) = pr.page =>
       /\ Off(b.addr) \in Offsets(pr.blktype) /\ Off(b.addr) \notin ToSet(pr.freelist)
       /\ b.size <= pr.blktype
  /\ \A o \in Offsets(pr.blktype) \ ToSet(pr.freelist) : \E b \in L : Pg(b.addr) = pr.page /\ Off(b.addr) = o

Small(P, b) == \E r \in Used(P) : P[r].page = Pg(b.addr)

LiveInv(P, L) ==
  /\ L \subseteq LiveRec
  /\ \A a, b \in L : a.addr = b.addr => a = b
  /\ \A r \in Used(P) : OnPage(P[r], L)

\* The used blocks U of the page allocator and who has them: a reference, a thread or a
\* large block.
OwnInv(U, P, L, H) ==
  /\ \A r \in Used(P) : Block(P[r].page, 1) \in U
  /\ \A t \in Thread : H[t] # 0 => \E u \in U : u.addr = H[t]
  /\ \A b \in L : ~Small(P, b) => Off(b.addr) = 0 /\ Block(Pg(b.addr), NPages(b.size)) \in U
  /\ \A t \in Thread, r \in Used(P) : H[t] # P[r].page
  /\ \A t \in Thread, b \in L : H[t] # 0 => H[t] # Pg(b.addr)
  /\ \A t, u \in Thread : H[t] = H[u] /\ t # u => H[t] = 0
  /\ \A u \in U : \/ \E r \in Used(P) : P[r].page = u.addr
                  \/ \E t \in Thread : H[t] = u.addr
                  \/ \E b \in L : ~Small(P, b) /\ Pg(b.addr) = u.addr

Steps == {"outside", "getpage", "walk", "newpage", "giveback", "relink"}

ThreadInv ==
  /\ step \in [Thread -> Steps]
  /\ want \in [Thread -> Requests \cup {0}]
  /\ page \in [Thread -> Nat]
  /\ \A t \in Thread :
       /\ step[t] \in {"outside", "getpage", "walk"} => page[t] = 0
       /\ step[t] = "walk" => want[t] \in Requests
       /\ step[t] \in {"getpage", "newpage"} => want[t] \in Requests /\ want[t] < LARGEST_SUBPAGE_SIZE
       /\ step[t] = "newpage" /\ page[t] # 0 => Block(page[t], 1) \in ToSet(mem.used_blks)

\* The heap as it is while no two calls of the page allocator have overlapped.
KmInv ==
  /\ MemInv(mem)
  /\ ~mem.down =>
       /\ ThreadInv
       /\ RefsInv(pagerefs, sizebases, allbase)
       /\ LiveInv(pagerefs, live)
       /\ OwnInv(ToSet(mem.used_blks), pagerefs, live, page)

UntilRaced == raced \in BOOLEAN /\ (~raced => KmInv)

-----------------------------------------------------------------------------
(* Arithmetic of pages *)

LEMMA PageSize == PAGE_SIZE \in Nat /\ PAGE_SIZE >= 1 /\ PAGE_SIZE \in Int
  BY KmallocAssumption

LEMMA Divided ==
  ASSUME NEW a \in Nat
  PROVE  Pg(a) \in Nat /\ Off(a) \in Nat /\ Off(a) < PAGE_SIZE /\ a = Pg(a) * PAGE_SIZE + Off(a)
  BY PageSize DEF Pg, Off

\* Products.
LEMMA Times ==
  ASSUME NEW n \in Nat, NEW p \in Nat, NEW q \in Nat
  PROVE  /\ p * n \in Nat
         /\ (p + 1) * n = p * n + n
         /\ p <= q => p * n <= q * n
         /\ p < q => p * n + n <= q * n
  OBVIOUS

LEMMA Placed ==
  ASSUME NEW p \in Nat, NEW o \in Nat, o < PAGE_SIZE
  PROVE  p * PAGE_SIZE + o \in Nat /\ Pg(p * PAGE_SIZE + o) = p /\ Off(p * PAGE_SIZE + o) = o
<1> DEFINE a == p * PAGE_SIZE + o
           q == Pg(a)
<1>1. a \in Nat /\ p * PAGE_SIZE \in Nat
  BY PageSize, Times
<1>2. q \in Nat /\ Off(a) \in Nat /\ Off(a) < PAGE_SIZE /\ a = q * PAGE_SIZE + Off(a)
  BY <1>1, Divided
<1> HIDE DEF q
<1>3. q = p
  <2>1. CASE q < p
    <3>1. q * PAGE_SIZE + PAGE_SIZE <= p * PAGE_SIZE /\ q * PAGE_SIZE \in Nat
      BY <1>2, <2>1, PageSize, Times
    <3> QED
      BY <1>1, <1>2, <3>1, PageSize
  <2>2. CASE p < q
    <3>1. p * PAGE_SIZE + PAGE_SIZE <= q * PAGE_SIZE /\ q * PAGE_SIZE \in Nat
      BY <1>2, <2>2, PageSize, Times
    <3> QED
      BY <1>1, <1>2, <3>1, PageSize
  <2> QED
    BY <1>2, <2>1, <2>2
<1> QED
  BY <1>1, <1>2, <1>3 DEF q

\* The bytes of n pages from page p on.
LEMMA OnPages ==
  ASSUME NEW p \in Nat, NEW n \in Nat, NEW x \in Nat,
         p * PAGE_SIZE <= x, x < (p + n) * PAGE_SIZE
  PROVE  Pg(x) \in p .. p + n - 1
<1> DEFINE q == Pg(x)
<1>1. q \in Nat /\ Off(x) \in Nat /\ Off(x) < PAGE_SIZE /\ x = q * PAGE_SIZE + Off(x)
  BY Divided
<1> HIDE DEF q
<1>2. p <= q
  <2>1. CASE q < p
    <3>1. q * PAGE_SIZE + PAGE_SIZE <= p * PAGE_SIZE /\ q * PAGE_SIZE \in Nat /\ p * PAGE_SIZE \in Nat
      BY <1>1, <2>1, PageSize, Times
    <3> QED
      BY <1>1, <3>1, PageSize
  <2> QED
    BY <1>1, <2>1
<1>3. q < p + n
  <2>1. CASE p + n <= q
    <3>1. (p + n) * PAGE_SIZE <= q * PAGE_SIZE /\ q * PAGE_SIZE \in Nat /\ (p + n) * PAGE_SIZE \in Nat
      BY <1>1, <2>1, PageSize, Times
    <3> QED
      BY <1>1, <3>1
  <2> QED
    BY <1>1, <2>1
<1> QED
  BY <1>1, <1>2, <1>3 DEF q

\* The pages of a large request hold it.
LEMMA RoundedUp ==
  ASSUME NEW sz \in Nat \ {0}
  PROVE  NPages(sz) \in Nat /\ NPages(sz) >= 1 /\ sz <= NPages(sz) * PAGE_SIZE
<1> DEFINE a == sz + PAGE_SIZE - 1
           n == Pg(a)
<1>1. a \in Nat /\ a >= PAGE_SIZE
  BY PageSize
<1>2. n \in Nat /\ Off(a) \in Nat /\ Off(a) < PAGE_SIZE /\ a = n * PAGE_SIZE + Off(a)
  BY <1>1, Divided
<1>3. NPages(sz) = n
  BY DEF NPages, Pg
<1> HIDE DEF n
<1>4. n * PAGE_SIZE \in Nat
  BY <1>2, PageSize, Times
<1>5. sz <= n * PAGE_SIZE
  BY <1>2, <1>4, PageSize
<1>6. n # 0
  <2>1. 0 * PAGE_SIZE = 0
    BY PageSize
  <2> QED
    BY <1>5, <2>1
<1> QED
  BY <1>2, <1>3, <1>5, <1>6

-----------------------------------------------------------------------------
(* Block types *)

LEMMA SizesFacts ==
  /\ \A b \in Sizes : b \in Nat /\ b >= 1 /\ b <= PAGE_SIZE
  /\ LARGEST_SUBPAGE_SIZE \in Sizes
<1>1. \A b \in Sizes : b \in Nat /\ b >= 1 /\ b <= PAGE_SIZE
  BY KmallocAssumption
<1>2. \E m \in Sizes : \A s \in Sizes : m >= s
  <2> DEFINE T == {PAGE_SIZE - s : s \in Sizes}
  <2>1. T \in SUBSET Nat /\ T # {}
    <3>1. \A s \in Sizes : PAGE_SIZE - s \in Nat
      BY <1>1, PageSize
    <3> QED
      BY <3>1, KmallocAssumption
  <2>2. PICK n \in T : TRUE
    BY <2>1
  <2>3. Min(T) \in T /\ \A x \in T : Min(T) <= x
    <3> HIDE DEF T
    <3> QED
      BY <2>1, <2>2, MinOfNats
  <2>4. PICK m \in Sizes : Min(T) = PAGE_SIZE - m
    BY <2>3
  <2>5. \A s \in Sizes : PAGE_SIZE - m <= PAGE_SIZE - s
    BY <2>3, <2>4
  <2> QED
    BY <1>1, <2>5, PageSize
<1> QED
  BY <1>1, <1>2 DEF LARGEST_SUBPAGE_SIZE, Max

LEMMA BlocktypeFacts ==
  ASSUME NEW sz \in Nat, sz < LARGEST_SUBPAGE_SIZE
  PROVE  blocktype(sz) \in Sizes /\ sz <= blocktype(sz)
<1> DEFINE T == {s \in Sizes : sz <= s}
<1>1. LARGEST_SUBPAGE_SIZE \in T /\ T \in SUBSET Nat
  BY SizesFacts
<1>2. Min(T) \in T
  <2> HIDE DEF T
  <2> QED
    BY <1>1, MinOfNats
<1> QED
  BY <1>2 DEF blocktype

LEMMA PerPageFacts ==
  ASSUME NEW b \in Sizes
  PROVE  PerPage(b) \in Nat /\ PerPage(b) >= 1 /\ PerPage(b) * b <= PAGE_SIZE
<1>1. b \in Nat /\ b >= 1 /\ b <= PAGE_SIZE
  BY SizesFacts
<1> DEFINE k == PAGE_SIZE \div b
           o == PAGE_SIZE % b
<1>2. k \in Nat /\ o \in Nat /\ o < b /\ PAGE_SIZE = k * b + o
  BY <1>1, PageSize
<1>3. PerPage(b) = k
  BY DEF PerPage
<1> HIDE DEF k, o
<1>4. k * b \in Nat
  BY <1>1, <1>2, Times
<1>5. k # 0
  BY <1>1, <1>2
<1> QED
  BY <1>2, <1>3, <1>4, <1>5, PageSize

LEMMA OffsetsFacts ==
  ASSUME NEW b \in Sizes
  PROVE  /\ \A o \in Offsets(b) : o \in Nat /\ o + b <= PAGE_SIZE /\ o < PAGE_SIZE
         /\ \A o, q \in Offsets(b) : o < q => o + b <= q
         /\ IsFiniteSet(Offsets(b)) /\ Cardinality(Offsets(b)) = PerPage(b)
<1> DEFINE k == PerPage(b)
           f == [i \in 0 .. k - 1 |-> i * b]
<1>1. b \in Nat /\ b >= 1 /\ k \in Nat /\ k >= 1 /\ k * b <= PAGE_SIZE
  BY SizesFacts, PerPageFacts
<1>2. Offsets(b) = {i * b : i \in 0 .. k - 1}
  BY DEF Offsets
<1> HIDE DEF k
<1>3. ASSUME NEW i \in 0 .. k - 1
      PROVE  i * b \in Nat /\ i * b + b <= PAGE_SIZE
  <2>1. i \in Nat /\ i < k
    BY <1>1
  <2>2. i * b + b <= k * b /\ i * b \in Nat /\ k * b \in Nat
    BY <1>1, <2>1, Times
  <2> QED
    BY <1>1, <2>2, PageSize
<1>4. ASSUME NEW i \in 0 .. k - 1, NEW j \in 0 .. k - 1
      PROVE  /\ i * b < j * b => i * b + b <= j * b
             /\ i # j => i * b # j * b
  <2>1. i \in Nat /\ j \in Nat
    BY <1>1
  <2>2. i * b \in Nat /\ j * b \in Nat
    BY <1>1, <2>1, Times
  <2>3. CASE i < j
    <3>1. i * b + b <= j * b
      BY <1>1, <2>1, <2>3, Times
    <3> QED
      BY <1>1, <2>2, <3>1
  <2>4. CASE j < i
    <3>1. j * b + b <= i * b
      BY <1>1, <2>1, <2>4, Times
    <3> QED
      BY <1>1, <2>2, <3>1
  <2> QED
    BY <2>1, <2>2, <2>3, <2>4
<1>5. f \in Bijection(0 .. k - 1, Offsets(b))
  <2>1. f \in [0 .. k - 1 -> Offsets(b)]
    BY <1>2
  <2>2. \A i, j \in 0 .. k - 1 : f[i] = f[j] => i = j
    BY <1>4
  <2>3. \A o \in Offsets(b) : \E i \in 0 .. k - 1 : f[i] = o
    BY <1>2
  <2> QED
    BY <2>1, <2>2, <2>3 DEF Bijection, Injection, Surjection, IsInjective
<1>6. ExistsBijection(0 .. k - 1, Offsets(b))
  <2> HIDE DEF f
  <2> QED
    BY <1>5 DEF ExistsBijection
<1>7. IsFiniteSet(0 .. k - 1) /\ Cardinality(0 .. k - 1) = k
  BY <1>1, FS_Interval
<1>8. IsFiniteSet(Offsets(b)) /\ Cardinality(Offsets(b)) = k
  BY <1>6, <1>7, FS_Bijection
<1>9. \A o \in Offsets(b) : o \in Nat /\ o + b <= PAGE_SIZE /\ o < PAGE_SIZE
  BY <1>1, <1>2, <1>3, PageSize
<1>10. \A o, q \in Offsets(b) : o < q => o + b <= q
  BY <1>2, <1>4
<1> QED
  BY <1>8, <1>9, <1>10 DEF k

-----------------------------------------------------------------------------
(* Lists without repetition *)

LEMMA Elements ==
  ASSUME NEW T, NEW s \in Seq(T)
  PROVE  /\ \A x : x \in ToSet(s) <=> \E i \in 1 .. Len(s) : s[i] = x
         /\ IsInjective(s) <=> \A i, j \in 1 .. Len(s) : s[i] = s[j] => i = j
         /\ ToSet(s) \subseteq T
<1>1. DOMAIN s = 1 .. Len(s)
  OBVIOUS
<1> QED
  BY <1>1 DEF ToSet, IsInjective

LEMMA Pushed ==
  ASSUME NEW T, NEW s \in Seq(T), NEW e \in T, IsInjective(s), e \notin ToSet(s)
  PROVE  /\ <<e>> \o s \in Seq(T) /\ Len(<<e>> \o s) = Len(s) + 1
         /\ IsInjective(<<e>> \o s) /\ ToSet(<<e>> \o s) = ToSet(s) \cup {e}
<1> DEFINE q == <<e>> \o s
           n == Len(s)
<1>1. n \in Nat /\ <<e>> \in Seq(T) /\ Len(<<e>>) = 1
  OBVIOUS
<1>2. /\ q \in Seq(T) /\ Len(q) = 1 + n
      /\ \A i \in 1 .. 1 + n : q[i] = IF i <= 1 THEN <<e>>[i] ELSE s[i - 1]
  BY <1>1, Joined
<1>3. q[1] = e /\ \A i \in 2 .. 1 + n : q[i] = s[i - 1] /\ i - 1 \in 1 .. n
  BY <1>1, <1>2
<1>4. /\ \A x : x \in ToSet(s) <=> \E i \in 1 .. n : s[i] = x
      /\ \A i, j \in 1 .. n : s[i] = s[j] => i = j
  BY Elements
<1> HIDE DEF q, n
<1>5. ASSUME NEW i \in 1 .. 1 + n, NEW j \in 1 .. 1 + n, q[i] = q[j] PROVE i = j
  <2>1. CASE i = 1 /\ j # 1
    <3>1. j \in 2 .. 1 + n
      BY <1>1, <2>1
    <3> QED
      BY <1>3, <1>4, <1>5, <2>1, <3>1
  <2>2. CASE i # 1 /\ j = 1
    <3>1. i \in 2 .. 1 + n
      BY <1>1, <2>2
    <3> QED
      BY <1>3, <1>4, <1>5, <2>2, <3>1
  <2>3. CASE i # 1 /\ j # 1
    <3>1. i \in 2 .. 1 + n /\ j \in 2 .. 1 + n
      BY <1>1, <2>3
    <3>2. i - 1 = j - 1
      BY <1>3, <1>4, <1>5, <3>1
    <3> QED
      BY <3>1, <3>2
  <2> QED
    BY <2>1, <2>2, <2>3
<1>6. \A x : x \in ToSet(q) <=> \E i \in 1 .. 1 + n : q[i] = x
  BY <1>2, Elements
<1>7. ASSUME NEW x PROVE x \in ToSet(q) <=> x \in ToSet(s) \cup {e}
  <2>1. ASSUME x \in ToSet(q) PROVE x \in ToSet(s) \cup {e}
    <3>1. PICK i \in 1 .. 1 + n : q[i] = x
      BY <1>6, <2>1
    <3>2. CASE i = 1
      BY <1>3, <3>1, <3>2
    <3>3. CASE i # 1
      <4>1. i \in 2 .. 1 + n
        BY <1>1, <3>3
      <4> QED
        BY <1>3, <1>4, <3>1, <4>1
    <3> QED
      BY <3>2, <3>3
  <2>2. ASSUME x \in ToSet(s) PROVE x \in ToSet(q)
    <3>1. PICK i \in 1 .. n : s[i] = x
      BY <1>4, <2>2
    <3>2. i + 1 \in 2 .. 1 + n /\ i + 1 \in 1 .. 1 + n /\ i + 1 - 1 = i
      BY <1>1
    <3>3. q[i + 1] = x
      BY <1>3, <3>1, <3>2
    <3> QED
      BY <1>6, <3>2, <3>3
  <2>3. e \in ToSet(q)
    <3>1. 1 \in 1 .. 1 + n
      BY <1>1
    <3> QED
      BY <1>3, <1>6, <3>1
  <2> QED
    BY <2>1, <2>2, <2>3
<1>8. IsInjective(q)
  BY <1>2, <1>5, Elements
<1>9. ToSet(q) = ToSet(s) \cup {e}
  BY <1>7
<1> QED
  BY <1>1, <1>2, <1>8, <1>9 DEF q, n

LEMMA Popped ==
  ASSUME NEW T, NEW s \in Seq(T), IsInjective(s), Len(s) > 0
  PROVE  /\ Tail(s) \in Seq(T) /\ Len(Tail(s)) = Len(s) - 1
         /\ IsInjective(Tail(s)) /\ ToSet(Tail(s)) = ToSet(s) \ {Head(s)}
         /\ Head(s) \in ToSet(s) /\ Head(s) \in T
<1> DEFINE q == Tail(s)
           n == Len(s)
<1>1. n \in Nat /\ n >= 1 /\ s # <<>>
  OBVIOUS
<1>2. /\ q \in Seq(T) /\ Len(q) = n - 1 /\ \A i \in 1 .. n - 1 : q[i] = s[i + 1]
      /\ Head(s) = s[1]
  BY <1>1, HeadTailProperties
<1>3. /\ \A x : x \in ToSet(s) <=> \E i \in 1 .. n : s[i] = x
      /\ \A i, j \in 1 .. n : s[i] = s[j] => i = j
      /\ ToSet(s) \subseteq T
  BY Elements
<1> HIDE DEF q, n
<1>4. \A x : x \in ToSet(q) <=> \E i \in 1 .. n - 1 : q[i] = x
  BY <1>2, Elements
<1>5. \A i \in 1 .. n - 1 : i + 1 \in 1 .. n /\ i + 1 # 1
  BY <1>1
<1>6. \A i, j \in 1 .. n - 1 : q[i] = q[j] => i = j
  BY <1>2, <1>3, <1>5
<1>7. 1 \in 1 .. n
  BY <1>1
<1>8. ASSUME NEW x PROVE x \in ToSet(q) <=> x \in ToSet(s) /\ x # s[1]
  <2>1. ASSUME x \in ToSet(q) PROVE x \in ToSet(s) /\ x # s[1]
    <3>1. PICK i \in 1 .. n - 1 : q[i] = x
      BY <1>4, <2>1
    <3> QED
      BY <1>2, <1>3, <1>5, <1>7, <3>1
  <2>2. ASSUME x \in ToSet(s), x # s[1] PROVE x \in ToSet(q)
    <3>1. PICK i \in 1 .. n : s[i] = x
      BY <1>3, <2>2
    <3>2. i # 1
      BY <2>2, <3>1
    <3>3. i - 1 \in 1 .. n - 1 /\ i - 1 + 1 = i
      BY <1>1, <3>2
    <3>4. q[i - 1] = x
      BY <1>2, <3>1, <3>3
    <3> QED
      BY <1>4, <3>3, <3>4
  <2> QED
    BY <2>1, <2>2
<1>9. ToSet(q) = ToSet(s) \ {s[1]}
  BY <1>8
<1>10. IsInjective(q)
  BY <1>2, <1>6, Elements
<1> QED
  BY <1>2, <1>3, <1>7, <1>9, <1>10 DEF q, n

\* remove_lists.
LEMMA DropFacts ==
  ASSUME NEW T, NEW s \in Seq(T), NEW e, IsInjective(s)
  PROVE  /\ Drop(s, e) \in Seq(T) /\ IsInjective(Drop(s, e))
         /\ ToSet(Drop(s, e)) = ToSet(s) \ {e}
<1> DEFINE n == Len(s)
           I == {i \in 1 .. n : s[i] = e}
           p == SelectInSeq(s, LAMBDA v : v = e)
<1>1. n \in Nat
  OBVIOUS
<1>2. /\ \A x : x \in ToSet(s) <=> \E i \in 1 .. n : s[i] = x
      /\ \A i, j \in 1 .. n : s[i] = s[j] => i = j
  BY Elements
<1>3. CASE ~\E i \in 1 .. n : s[i] = e
  <2>1. Drop(s, e) = s
    BY <1>3 DEF Drop, RemoveFirst
  <2> QED
    BY <1>2, <1>3, <2>1
<1>4. CASE \E i \in 1 .. n : s[i] = e
  <2>1. p = Min(I)
    BY <1>4 DEF SelectInSeq
  <2>2. Min(I) \in I
    <3>1. PICK i \in I : TRUE
      BY <1>4
    <3>2. I \in SUBSET Nat
      OBVIOUS
    <3> HIDE DEF I
    <3> QED
      BY <3>1, <3>2, MinOfNats
  <2>3. p \in 1 .. n /\ s[p] = e
    BY <2>1, <2>2
  <2> DEFINE q == RemoveAt(s, p)
  <2>4. Drop(s, e) = q
    BY <1>4 DEF Drop, RemoveFirst
  <2> HIDE DEF p
  <2>5. /\ q \in Seq(T) /\ Len(q) = n - 1
        /\ \A j \in 1 .. n - 1 : q[j] = IF j < p THEN s[j] ELSE s[j + 1]
    BY <2>3, Removed
  <2>6. \A x : x \in ToSet(q) <=> \E i \in 1 .. n - 1 : q[i] = x
    BY <2>5, Elements
  <2> HIDE DEF q, n
  <2>7. \A i, j \in 1 .. n - 1 : q[i] = q[j] => i = j
    <3>1. \A i \in 1 .. n - 1 : i \in 1 .. n /\ i + 1 \in 1 .. n /\ i \in Nat
      BY <1>1
    <3>2. p \in Nat
      BY <1>1, <2>3
    <3> SUFFICES ASSUME NEW i \in 1 .. n - 1, NEW j \in 1 .. n - 1, q[i] = q[j] PROVE i = j
      OBVIOUS
    <3>3. CASE i < p /\ j < p
      BY <1>2, <2>5, <3>1, <3>3
    <3>4. CASE i < p /\ ~(j < p)
      <4>1. s[i] = s[j + 1]
        BY <2>5, <3>4
      <4>2. i = j + 1
        BY <1>2, <3>1, <4>1
      <4> QED
        BY <3>1, <3>2, <3>4, <4>2
    <3>5. CASE ~(i < p) /\ j < p
      <4>1. s[i + 1] = s[j]
        BY <2>5, <3>5
      <4>2. i + 1 = j
        BY <1>2, <3>1, <4>1
      <4> QED
        BY <3>1, <3>2, <3>5, <4>2
    <3>6. CASE ~(i < p) /\ ~(j < p)
      <4>1. s[i + 1] = s[j + 1]
        BY <2>5, <3>6
      <4>2. i + 1 = j + 1
        BY <1>2, <3>1, <4>1
      <4> QED
        BY <3>1, <4>2
    <3> QED
      BY <3>3, <3>4, <3>5, <3>6
  <2>8. ASSUME NEW x PROVE x \in ToSet(q) <=> x \in ToSet(s) /\ x # e
    <3>1. ASSUME x \in ToSet(q) PROVE x \in ToSet(s) /\ x # e
      <4>1. PICK i \in 1 .. n - 1 : q[i] = x
        BY <2>6, <3>1
      <4>2. i \in 1 .. n /\ i + 1 \in 1 .. n
        BY <1>1
      <4>3. CASE i < p
        BY <1>2, <2>3, <2>5, <4>1, <4>2, <4>3
      <4>4. CASE ~(i < p)
        <5>1. q[i] = s[i + 1] /\ i + 1 # p
          BY <1>1, <2>3, <2>5, <4>4
        <5> QED
          BY <1>2, <2>3, <4>1, <4>2, <5>1
      <4> QED
        BY <4>3, <4>4
    <3>2. ASSUME x \in ToSet(s), x # e PROVE x \in ToSet(q)
      <4>1. PICK i \in 1 .. n : s[i] = x
        BY <1>2, <3>2
      <4>2. i # p
        BY <2>3, <3>2, <4>1
      <4>3. CASE i < p
        <5>1. i \in 1 .. n - 1
          BY <1>1, <2>3, <4>3
        <5> QED
          BY <2>5, <2>6, <4>1, <4>3, <5>1
      <4>4. CASE i > p
        <5>1. i - 1 \in 1 .. n - 1 /\ ~(i - 1 < p) /\ i - 1 + 1 = i
          BY <1>1, <2>3, <4>4
        <5>2. q[i - 1] = x
          BY <2>5, <4>1, <5>1
        <5> QED
          BY <2>6, <5>1, <5>2
      <4> QED
        BY <1>1, <2>3, <4>2, <4>3, <4>4
    <3> QED
      BY <3>1, <3>2
  <2>9. ToSet(q) = ToSet(s) \ {e}
    BY <2>8
  <2>10. IsInjective(q)
    BY <2>5, <2>7, Elements
  <2> QED
    BY <2>4, <2>5, <2>9, <2>10
<1> QED
  BY <1>3, <1>4

-----------------------------------------------------------------------------
(* One page of blocks *)

LEMMA RefFields ==
  ASSUME NEW pr \in Rec
  PROVE  /\ pr.page \in Nat /\ pr.blktype \in Sizes /\ pr.nfree \in Nat /\ pr.freelist \in Seq(Nat)
         /\ pr # NONE
<1>1. pr.page \in Nat /\ pr.blktype \in Sizes /\ pr.nfree \in Nat /\ pr.freelist \in Seq(Nat)
  BY DEF Rec
<1>2. Sizes \subseteq Nat
  BY SizesFacts
<1>3. Rec \subseteq [page : Nat, blktype : Nat, nfree : Nat, freelist : Seq(Nat)]
  BY <1>2 DEF Rec
<1> QED
  BY <1>1, <1>3, KmallocAssumption

\* A page with new counts.
NewFree(pr, n, list) == [pr EXCEPT !.nfree = n, !.freelist = list]

\* nfree is the number of all the page's blocks just if all of them are free.
LEMMA WholePage ==
  ASSUME NEW pr, RefList(pr)
  PROVE  WholePageFree(pr) <=> ToSet(pr.freelist) = Offsets(pr.blktype)
<1> DEFINE s == pr.freelist
           n == Len(s)
           O == Offsets(pr.blktype)
<1>1. /\ s \in Seq(Nat) /\ pr.blktype \in Sizes /\ n \in Nat /\ pr.nfree = n
      /\ ToSet(s) \subseteq O
  BY RefFields DEF RefList
<1>2. IsFiniteSet(O) /\ Cardinality(O) = PerPage(pr.blktype)
  BY <1>1, OffsetsFacts
<1>3. /\ \A x : x \in ToSet(s) <=> \E i \in 1 .. n : s[i] = x
      /\ \A i, j \in 1 .. n : s[i] = s[j] => i = j
  BY <1>1, Elements DEF RefList
<1>4. s \in [1 .. n -> O]
  <2>1. s \in [1 .. n -> Nat]
    BY <1>1
  <2> HIDE DEF n, O, s
  <2> QED
    BY <1>1, <1>3, <2>1
<1> HIDE DEF s, n, O
<1>5. s \in Injection(1 .. n, O)
  <2>1. DOMAIN s = 1 .. n
    BY <1>4
  <2> QED
    BY <1>3, <1>4, <2>1 DEF Injection, IsInjective
<1>6. Cardinality(1 .. n) = n
  BY <1>1, FS_Interval
<1>7. n = Cardinality(O) <=> s \in Surjection(1 .. n, O)
  BY <1>2, <1>5, <1>6, FS_Injection
<1>8. s \in Surjection(1 .. n, O) <=> \A o \in O : o \in ToSet(s)
  BY <1>3, <1>4 DEF Surjection
<1>9. (\A o \in O : o \in ToSet(s)) <=> ToSet(s) = O
  BY <1>1
<1>10. WholePageFree(pr) <=> n = Cardinality(O)
  BY <1>1, <1>2 DEF WholePageFree
<1> QED
  BY <1>7, <1>8, <1>9, <1>10 DEF s, O

\* doalloc: the first free block is handed out.
LEMMA TakeOne ==
  ASSUME NEW pr, RefList(pr), NEW L, L \subseteq LiveRec, OnPage(pr, L), pr.nfree > 0,
         NEW sz \in Nat \ {0}, sz <= pr.blktype,
         NEW e, e = NewFree(pr, pr.nfree - 1, Tail(pr.freelist)),
         NEW b, b = [addr |-> pr.page * PAGE_SIZE + Head(pr.freelist), size |-> sz]
  PROVE  /\ RefOK(e) /\ e.page = pr.page /\ e.blktype = pr.blktype
         /\ b \in LiveRec /\ Pg(b.addr) = pr.page /\ b.size = sz
         /\ \A c \in L : c.addr # b.addr
         /\ OnPage(e, L \cup {b})
<1> DEFINE s == pr.freelist
           h == Head(s)
           O == Offsets(pr.blktype)
<1>1. /\ pr \in Rec /\ s \in Seq(Nat) /\ pr.blktype \in Sizes /\ pr.page \in Nat /\ pr.nfree \in Nat
      /\ IsInjective(s) /\ Len(s) > 0 /\ Len(s) = pr.nfree /\ ToSet(s) \subseteq O
  BY RefFields DEF RefList
<1>2. /\ Tail(s) \in Seq(Nat) /\ Len(Tail(s)) = Len(s) - 1
      /\ IsInjective(Tail(s)) /\ ToSet(Tail(s)) = ToSet(s) \ {h} /\ h \in ToSet(s)
  BY <1>1, Popped
<1>3. h \in Nat /\ h < PAGE_SIZE /\ h \in O
  BY <1>1, <1>2, OffsetsFacts
<1>4. pr.nfree - 1 \in Nat
  BY <1>1
<1>5. /\ e \in Rec /\ e.page = pr.page /\ e.blktype = pr.blktype
      /\ e.nfree = pr.nfree - 1 /\ e.freelist = Tail(s)
  <2> DEFINE k == pr.nfree - 1
             q == Tail(s)
  <2>1. e = NewFree(pr, k, q) /\ k \in Nat /\ q \in Seq(Nat)
    BY <1>2, <1>4
  <2> HIDE DEF k, q, h, O, s
  <2>2. e \in Rec /\ e.page = pr.page /\ e.blktype = pr.blktype /\ e.nfree = k /\ e.freelist = q
    BY <1>1, <2>1 DEF Rec, NewFree
  <2> QED
    BY <2>2 DEF k, q
<1> HIDE DEF s, h, O
<1>6. RefOK(e)
  <2>1. ToSet(Tail(s)) \subseteq O /\ ToSet(Tail(s)) # O
    BY <1>1, <1>2, <1>3
  <2>2. e.nfree = Len(Tail(s))
    BY <1>1, <1>2, <1>5
  <2> QED
    BY <1>2, <1>5, <2>1, <2>2 DEF RefOK, RefList, O
<1> DEFINE a == pr.page * PAGE_SIZE + h
<1>7. a \in Nat /\ Pg(a) = pr.page /\ Off(a) = h
  BY <1>1, <1>3, Placed
<1>8. b = [addr |-> a, size |-> sz] /\ b.addr = a /\ b.size = sz
  BY DEF s, h
<1> HIDE DEF a
<1>9. b \in LiveRec
  BY <1>7, <1>8 DEF LiveRec
<1>10. \A c \in L : Pg(c.addr) = pr.page => Off(c.addr) \in O /\ Off(c.addr) \notin ToSet(s) /\ c.size <= pr.blktype
  BY DEF OnPage, O, s
<1>11. \A c \in L : c.addr # b.addr
  BY <1>2, <1>7, <1>8, <1>10
<1>12. OnPage(e, L \cup {b})
  <2>1. ASSUME NEW c \in L \cup {b}, Pg(c.addr) = pr.page
        PROVE  Off(c.addr) \in O /\ Off(c.addr) \notin ToSet(Tail(s)) /\ c.size <= pr.blktype
    <3>1. CASE c \in L
      BY <1>2, <1>10, <2>1, <3>1
    <3>2. CASE c = b
      BY <1>2, <1>3, <1>7, <1>8, <3>2
    <3> QED
      BY <3>1, <3>2
  <2>2. ASSUME NEW o \in O \ ToSet(Tail(s))
        PROVE  \E c \in L \cup {b} : Pg(c.addr) = pr.page /\ Off(c.addr) = o
    <3>1. CASE o = h
      BY <1>7, <1>8, <3>1
    <3>2. CASE o # h
      <4>1. o \in O \ ToSet(s)
        BY <1>2, <3>2
      <4> QED
        BY <4>1 DEF OnPage, O, s
    <3> QED
      BY <3>1, <3>2
  <2> QED
    BY <1>5, <2>1, <2>2 DEF OnPage, O
<1> QED
  BY <1>5, <1>6, <1>7, <1>8, <1>9, <1>11, <1>12

\* subpage_kfree: a block goes back.
LEMMA GiveOne ==
  ASSUME NEW pr, RefOK(pr), NEW L, L \subseteq LiveRec, OnPage(pr, L),
         \A c, d \in L : c.addr = d.addr => c = d,
         NEW b \in L, Pg(b.addr) = pr.page,
         NEW e, e = NewFree(pr, pr.nfree + 1, <<Off(b.addr)>> \o pr.freelist)
  PROVE  /\ RefList(e) /\ e.page = pr.page /\ e.blktype = pr.blktype
         /\ OnPage(e, L \ {b})
<1> DEFINE s == pr.freelist
           h == Off(b.addr)
           O == Offsets(pr.blktype)
<1>1. /\ pr \in Rec /\ s \in Seq(Nat) /\ pr.blktype \in Sizes /\ pr.page \in Nat /\ pr.nfree \in Nat
      /\ IsInjective(s) /\ Len(s) = pr.nfree /\ ToSet(s) \subseteq O
  BY RefFields DEF RefList, RefOK
<1>2. h \in O /\ h \notin ToSet(s) /\ h \in Nat
  BY <1>1, OffsetsFacts DEF OnPage
<1>3. /\ <<h>> \o s \in Seq(Nat) /\ Len(<<h>> \o s) = Len(s) + 1
      /\ IsInjective(<<h>> \o s) /\ ToSet(<<h>> \o s) = ToSet(s) \cup {h}
  BY <1>1, <1>2, Pushed
<1>4. pr.nfree + 1 \in Nat
  BY <1>1
<1>5. /\ e \in Rec /\ e.page = pr.page /\ e.blktype = pr.blktype
      /\ e.nfree = pr.nfree + 1 /\ e.freelist = <<h>> \o s
  <2> DEFINE k == pr.nfree + 1
             q == <<h>> \o s
  <2>1. e = NewFree(pr, k, q) /\ k \in Nat /\ q \in Seq(Nat)
    BY <1>3, <1>4
  <2> HIDE DEF k, q, h, O, s
  <2>2. e \in Rec /\ e.page = pr.page /\ e.blktype = pr.blktype /\ e.nfree = k /\ e.freelist = q
    BY <1>1, <2>1 DEF Rec, NewFree
  <2> QED
    BY <2>2 DEF k, q
<1> DEFINE q == <<h>> \o s
<1> HIDE DEF s, h, O, q
<1>6. RefList(e)
  BY <1>1, <1>2, <1>3, <1>5 DEF RefList, O, q
<1>7. \A c \in L : Pg(c.addr) = pr.page => Off(c.addr) \in O /\ Off(c.addr) \notin ToSet(s) /\ c.size <= pr.blktype
  BY DEF OnPage, O, s
<1>8. \A c \in L : Pg(c.addr) = pr.page /\ Off(c.addr) = h => c = b
  <2>1. ASSUME NEW c \in L, Pg(c.addr) = pr.page, Off(c.addr) = h PROVE c = b
    <3>1. c.addr \in Nat /\ b.addr \in Nat
      BY DEF LiveRec
    <3>2. c.addr = Pg(c.addr) * PAGE_SIZE + Off(c.addr) /\ b.addr = Pg(b.addr) * PAGE_SIZE + Off(b.addr)
      BY <3>1, Divided
    <3> QED
      BY <2>1, <3>2 DEF h
  <2> QED
    BY <2>1
<1>9. OnPage(e, L \ {b})
  <2>1. ASSUME NEW c \in L \ {b}, Pg(c.addr) = pr.page
        PROVE  Off(c.addr) \in O /\ Off(c.addr) \notin ToSet(q) /\ c.size <= pr.blktype
    BY <1>3, <1>7, <1>8, <2>1 DEF q
  <2>2. ASSUME NEW o \in O \ ToSet(q)
        PROVE  \E c \in L \ {b} : Pg(c.addr) = pr.page /\ Off(c.addr) = o
    <3>1. o \in O \ ToSet(s) /\ o # h
      BY <1>3, <2>2 DEF q
    <3>2. PICK c \in L : Pg(c.addr) = pr.page /\ Off(c.addr) = o
      BY <3>1 DEF OnPage, O, s
    <3> QED
      BY <3>1, <3>2 DEF h
  <2> QED
    BY <1>5, <2>1, <2>2 DEF OnPage, O, q
<1> QED
  BY <1>5, <1>6, <1>9

\* Blocks on other pages do not matter to a page.
LEMMA OtherPage ==
  ASSUME NEW pr, NEW L, OnPage(pr, L), NEW b, Pg(b.addr) # pr.page
  PROVE  OnPage(pr, L \cup {b}) /\ OnPage(pr, L \ {b})
  BY DEF OnPage

\* The page of subpage_kmalloc: all its blocks are free, the last one first.
LEMMA FreshFacts ==
  ASSUME NEW p \in Nat, NEW b \in Sizes
  PROVE  /\ RefList(FreshPage(p, b)) /\ FreshPage(p, b).page = p /\ FreshPage(p, b).blktype = b
         /\ FreshPage(p, b).nfree > 0
         /\ ToSet(FreshPage(p, b).freelist) = Offsets(b)
<1> DEFINE k == PerPage(b)
           s == [i \in 1 .. k |-> (k - i) * b]
           e == FreshPage(p, b)
<1>1. b \in Nat /\ b >= 1 /\ k \in Nat /\ k >= 1
  BY SizesFacts, PerPageFacts
<1>2. e = [page |-> p, blktype |-> b, nfree |-> k, freelist |-> s]
  BY DEF FreshPage
<1> HIDE DEF k
<1>3. \A i \in 1 .. k : k - i \in 0 .. k - 1 /\ k - i \in Nat
  BY <1>1
<1>4. \A i \in 1 .. k : (k - i) * b \in Nat
  BY <1>1, <1>3, Times
<1>5. s \in Seq(Nat) /\ Len(s) = k /\ \A i \in 1 .. k : s[i] = (k - i) * b
  BY <1>1, <1>4
<1> HIDE DEF s
<1>6. ASSUME NEW x PROVE x \in ToSet(s) <=> x \in Offsets(b)
  <2>1. x \in ToSet(s) <=> \E i \in 1 .. k : s[i] = x
    BY <1>5, Elements
  <2>2. x \in Offsets(b) <=> \E i \in 0 .. k - 1 : i * b = x
    BY DEF Offsets, k
  <2>3. ASSUME NEW i \in 0 .. k - 1, i * b = x PROVE \E j \in 1 .. k : s[j] = x
    <3>1. k - i \in 1 .. k /\ k - (k - i) = i
      BY <1>1
    <3> QED
      BY <1>5, <2>3, <3>1
  <2>4. ASSUME NEW i \in 1 .. k, s[i] = x PROVE \E j \in 0 .. k - 1 : j * b = x
    <3>1. k - i \in 0 .. k - 1 /\ (k - i) * b = x
      BY <1>3, <1>5, <2>4
    <3> QED
      BY <3>1
  <2> QED
    BY <2>1, <2>2, <2>3, <2>4
<1>7. \A i, j \in 1 .. k : s[i] = s[j] => i = j
  <2> SUFFICES ASSUME NEW i \in 1 .. k, NEW j \in 1 .. k, i < j PROVE s[i] # s[j]
    BY <1>1
  <2>1. k - j < k - i /\ k - i \in Nat /\ k - j \in Nat
    BY <1>1, <1>3
  <2>2. (k - j) * b + b <= (k - i) * b /\ (k - j) * b \in Nat /\ (k - i) * b \in Nat
    BY <1>1, <2>1, Times
  <2>3. s[i] = (k - i) * b /\ s[j] = (k - j) * b
    BY <1>5
  <2> DEFINE x == (k - j) * b
             y == (k - i) * b
  <2>4. x + b <= y /\ x \in Nat /\ y \in Nat
    BY <2>2
  <2> HIDE DEF x, y
  <2>5. x # y
    BY <1>1, <2>4
  <2> QED
    BY <2>3, <2>5 DEF x, y
<1>8. IsInjective(s)
  BY <1>5, <1>7, Elements
<1>9. e \in Rec /\ e.page = p /\ e.blktype = b /\ e.nfree = k /\ e.freelist = s
  BY <1>1, <1>2, <1>5 DEF Rec
<1>10. ToSet(s) = Offsets(b)
  BY <1>6
<1> HIDE DEF e
<1>11. RefList(e)
  BY <1>5, <1>8, <1>9, <1>10 DEF RefList
<1> QED
  BY <1>1, <1>9, <1>10, <1>11 DEF e

-----------------------------------------------------------------------------
(* Page references and their lists *)

\* Q is P with e at r.
Changed(D, P, Q, r, e) == Q[r] = e /\ \A q \in D : q # r => Q[q] = P[q]

\* A page gets another free list.
LEMMA RefChanged ==
  ASSUME NEW P, NEW S, NEW A, RefsInv(P, S, A), NEW r \in Used(P), NEW e, RefOK(e),
         e.page = P[r].page, e.blktype = P[r].blktype,
         NEW Q \in [Ref -> Rec \cup {NONE}], Changed(Ref, P, Q, r, e)
  PROVE  /\ RefsInv(Q, S, A) /\ Used(Q) = Used(P)
         /\ \A q \in Used(P) : Q[q].page = P[q].page
<1>1. P \in [Ref -> Rec \cup {NONE}] /\ r \in Ref /\ e \in Rec /\ e # NONE
  BY RefFields DEF RefsInv, Used, RefOK, RefList
<1>2. Q \in [Ref -> Rec \cup {NONE}] /\ Q[r] = e /\ \A q \in Ref : q # r => Q[q] = P[q]
  BY <1>1 DEF Changed
<1>3. Used(Q) = Used(P)
  BY <1>1, <1>2 DEF Used
<1>4. \A q \in Used(P) : Q[q].page = P[q].page /\ Q[q].blktype = P[q].blktype
  BY <1>2 DEF Used
<1>5. \A q \in Used(P) : RefOK(Q[q])
  BY <1>2 DEF Used, RefsInv
<1>6. \A s : {q \in Used(P) : P[q].blktype = s} = {q \in Used(Q) : Q[q].blktype = s}
  BY <1>3, <1>4
<1>7. RefsInv(Q, S, A)
  <2>1. /\ S \in [Sizes -> Seq(Ref)] /\ A \in Seq(Ref)
        /\ \A p, q \in Used(P) : P[q].page = P[p].page => q = p
        /\ ToSet(A) = Used(P) /\ IsInjective(A)
        /\ \A s \in Sizes : IsInjective(S[s]) /\ ToSet(S[s]) = {q \in Used(P) : P[q].blktype = s}
    BY DEF RefsInv
  <2>2. \A p, q \in Used(Q) : Q[q].page = Q[p].page => q = p
    BY <1>3, <1>4, <2>1
  <2>3. \A s \in Sizes : IsInjective(S[s]) /\ ToSet(S[s]) = {q \in Used(Q) : Q[q].blktype = s}
    BY <1>6, <2>1
  <2> QED
    BY <1>2, <1>3, <1>5, <2>1, <2>2, <2>3 DEF RefsInv
<1> QED
  BY <1>3, <1>4, <1>7

\* Page p has no reference.
NoRef(P, p) == \A q \in Used(P) : P[q].page # p

\* subpage_kmalloc enters a new page.
LEMMA RefAdded ==
  ASSUME NEW P, NEW S, NEW A, RefsInv(P, S, A), NEW r \in Ref, P[r] = NONE, NEW e, RefOK(e),
         NoRef(P, e.page), NEW b, b = e.blktype,
         NEW Q \in [Ref -> Rec \cup {NONE}], Changed(Ref, P, Q, r, e),
         NEW T \in [Sizes -> Seq(Ref)], Changed(Sizes, S, T, b, <<r>> \o S[b])
  PROVE  /\ RefsInv(Q, T, <<r>> \o A) /\ Used(Q) = Used(P) \cup {r}
         /\ Q[r] = e /\ \A q \in Used(P) : Q[q] = P[q] /\ q # r
<1>1. /\ P \in [Ref -> Rec \cup {NONE}] /\ e \in Rec /\ e # NONE /\ b \in Sizes
      /\ S \in [Sizes -> Seq(Ref)] /\ A \in Seq(Ref)
  BY RefFields DEF RefsInv, RefOK, RefList
<1>2. Q \in [Ref -> Rec \cup {NONE}] /\ Q[r] = e /\ \A q \in Ref : q # r => Q[q] = P[q]
  BY <1>1 DEF Changed
<1>3. Used(Q) = Used(P) \cup {r} /\ r \notin Used(P)
  BY <1>1, <1>2 DEF Used
<1>4. \A q \in Used(P) : Q[q] = P[q] /\ q # r
  BY <1>2, <1>3 DEF Used
<1>5. /\ ToSet(A) = Used(P) /\ IsInjective(A)
      /\ \A s \in Sizes : IsInjective(S[s]) /\ ToSet(S[s]) = {q \in Used(P) : P[q].blktype = s}
  BY DEF RefsInv
<1>6. /\ <<r>> \o A \in Seq(Ref) /\ IsInjective(<<r>> \o A) /\ ToSet(<<r>> \o A) = Used(Q)
  <2>1. r \notin ToSet(A)
    BY <1>3, <1>5
  <2>2. /\ <<r>> \o A \in Seq(Ref) /\ IsInjective(<<r>> \o A)
        /\ ToSet(<<r>> \o A) = ToSet(A) \cup {r}
    BY <1>1, <1>5, <2>1, Pushed
  <2> QED
    BY <1>3, <1>5, <2>2
<1>7. S[b] \in Seq(Ref) /\ IsInjective(S[b]) /\ r \notin ToSet(S[b])
  BY <1>1, <1>3, <1>5
<1>8. /\ <<r>> \o S[b] \in Seq(Ref) /\ IsInjective(<<r>> \o S[b])
      /\ ToSet(<<r>> \o S[b]) = ToSet(S[b]) \cup {r}
  BY <1>7, Pushed
<1>9. T \in [Sizes -> Seq(Ref)] /\ T[b] = <<r>> \o S[b] /\ \A s \in Sizes : s # b => T[s] = S[s]
  BY DEF Changed
<1>10. ASSUME NEW s \in Sizes
       PROVE  IsInjective(T[s]) /\ ToSet(T[s]) = {q \in Used(Q) : Q[q].blktype = s}
  <2>1. CASE s = b
    <3>1. IsInjective(T[s]) /\ ToSet(T[s]) = ToSet(S[b]) \cup {r}
      BY <1>8, <1>9, <2>1
    <3> QED
      BY <1>1, <1>2, <1>3, <1>4, <1>5, <2>1, <3>1
  <2>2. CASE s # b
    <3>1. IsInjective(T[s]) /\ ToSet(T[s]) = {q \in Used(P) : P[q].blktype = s}
      BY <1>5, <1>9, <2>2
    <3> QED
      BY <1>2, <1>3, <1>4, <2>2, <3>1
  <2> QED
    BY <2>1, <2>2
<1>11. \A q \in Used(Q) : RefOK(Q[q])
  BY <1>2, <1>3, <1>4 DEF RefsInv
<1>12. \A p, q \in Used(Q) : Q[p].page = Q[q].page => p = q
  BY <1>2, <1>3, <1>4 DEF RefsInv, NoRef
<1>13. RefsInv(Q, T, <<r>> \o A)
  BY <1>2, <1>6, <1>9, <1>10, <1>11, <1>12 DEF RefsInv
<1> QED
  BY <1>2, <1>3, <1>4, <1>13

\* subpage_kfree takes a page's reference away.
LEMMA RefRemoved ==
  ASSUME NEW P, NEW S, NEW A, RefsInv(P, S, A), NEW r \in Used(P),
         NEW b, b = P[r].blktype,
         NEW Q \in [Ref -> Rec \cup {NONE}], Changed(Ref, P, Q, r, NONE),
         NEW T \in [Sizes -> Seq(Ref)], Changed(Sizes, S, T, b, Drop(S[b], r))
  PROVE  /\ RefsInv(Q, T, Drop(A, r)) /\ Used(Q) = Used(P) \ {r}
         /\ \A q \in Used(Q) : Q[q] = P[q] /\ q # r
<1>1. /\ P \in [Ref -> Rec \cup {NONE}] /\ r \in Ref /\ P[r] \in Rec /\ b \in Sizes
      /\ S \in [Sizes -> Seq(Ref)] /\ A \in Seq(Ref)
  BY RefFields DEF RefsInv, Used
<1>2. Q \in [Ref -> Rec \cup {NONE}] /\ Q[r] = NONE /\ \A q \in Ref : q # r => Q[q] = P[q]
  BY <1>1 DEF Changed
<1>3. Used(Q) = Used(P) \ {r}
  BY <1>1, <1>2 DEF Used
<1>4. \A q \in Used(Q) : Q[q] = P[q] /\ q # r /\ q \in Used(P)
  BY <1>2, <1>3 DEF Used
<1>5. /\ ToSet(A) = Used(P) /\ IsInjective(A)
      /\ \A s \in Sizes : IsInjective(S[s]) /\ ToSet(S[s]) = {q \in Used(P) : P[q].blktype = s}
  BY DEF RefsInv
<1>6. /\ Drop(A, r) \in Seq(Ref) /\ IsInjective(Drop(A, r)) /\ ToSet(Drop(A, r)) = Used(Q)
  <2>1. /\ Drop(A, r) \in Seq(Ref) /\ IsInjective(Drop(A, r)) /\ ToSet(Drop(A, r)) = ToSet(A) \ {r}
    BY <1>1, <1>5, DropFacts
  <2> QED
    BY <1>3, <1>5, <2>1
<1>7. S[b] \in Seq(Ref) /\ IsInjective(S[b])
  BY <1>1, <1>3, <1>5
<1>8. /\ Drop(S[b], r) \in Seq(Ref) /\ IsInjective(Drop(S[b], r))
      /\ ToSet(Drop(S[b], r)) = ToSet(S[b]) \ {r}
  BY <1>7, DropFacts
<1>9. T \in [Sizes -> Seq(Ref)] /\ T[b] = Drop(S[b], r) /\ \A s \in Sizes : s # b => T[s] = S[s]
  BY DEF Changed
<1>10. ASSUME NEW s \in Sizes
       PROVE  IsInjective(T[s]) /\ ToSet(T[s]) = {q \in Used(Q) : Q[q].blktype = s}
  <2>1. CASE s = b
    <3>1. IsInjective(T[s]) /\ ToSet(T[s]) = ToSet(S[b]) \ {r}
      BY <1>8, <1>9, <2>1
    <3> QED
      BY <1>1, <1>3, <1>4, <1>5, <2>1, <3>1
  <2>2. CASE s # b
    <3>1. IsInjective(T[s]) /\ ToSet(T[s]) = {q \in Used(P) : P[q].blktype = s}
      BY <1>5, <1>9, <2>2
    <3>2. {q \in Used(P) : P[q].blktype = s} = {q \in Used(Q) : Q[q].blktype = s}
      BY <1>3, <1>4, <2>2
    <3> QED
      BY <3>1, <3>2
  <2> QED
    BY <2>1, <2>2
<1>11. \A q \in Used(Q) : RefOK(Q[q])
  BY <1>4 DEF RefsInv
<1>12. \A p, q \in Used(Q) : Q[p].page = Q[q].page => p = q
  BY <1>4 DEF RefsInv
<1>13. RefsInv(Q, T, Drop(A, r))
  BY <1>2, <1>6, <1>9, <1>10, <1>11, <1>12 DEF RefsInv
<1> QED
  BY <1>3, <1>4, <1>13

-----------------------------------------------------------------------------
(* The blocks in use *)

\* Q is P but for reference r, whose page alone is that of e; and M is L but for blocks on page p.
SameRefs(P, Q, r, e) ==
  /\ Used(Q) \ {r} \subseteq Used(P)
  /\ r \in Used(Q) => Q[r] = e
  /\ \A q \in Used(Q) \ {r} : Q[q] = P[q] /\ P[q].page # e.page
SameBlocks(L, M, p) == \A b : Pg(b.addr) # p => (b \in M <=> b \in L)
Distinct(L) == L \subseteq LiveRec /\ \A a, b \in L : a.addr = b.addr => a = b

\* Only blocks of the page of e come or go.
LEMMA LiveChanged ==
  ASSUME NEW P, NEW L, LiveInv(P, L), NEW Q, NEW r, NEW e, SameRefs(P, Q, r, e),
         NEW M, Distinct(M), OnPage(e, M), SameBlocks(L, M, e.page)
  PROVE  LiveInv(Q, M)
<1>1. ASSUME NEW q \in Used(Q) PROVE OnPage(Q[q], M)
  <2>1. CASE q = r
    BY <2>1 DEF SameRefs
  <2>2. CASE q # r
    <3>1. Q[q] = P[q] /\ P[q].page # e.page /\ OnPage(P[q], L)
      BY <2>2 DEF LiveInv, SameRefs
    <3> DEFINE pr == P[q]
    <3>2. OnPage(pr, L) /\ pr.page # e.page
      BY <3>1
    <3> HIDE DEF pr
    <3>3. OnPage(pr, M)
      BY <3>2 DEF OnPage, SameBlocks
    <3> QED
      BY <3>1, <3>3 DEF pr
  <2> QED
    BY <2>1, <2>2
<1> QED
  BY <1>1 DEF LiveInv, Distinct

-----------------------------------------------------------------------------
(* Who has a used block of the page allocator *)

\* The pages of the blocks in use are used.
LEMMA PgUsed ==
  ASSUME NEW U, NEW P, NEW L, NEW H, OwnInv(U, P, L, H)
  PROVE  /\ \A b \in L : \E u \in U : u.addr = Pg(b.addr)
         /\ \A r \in Used(P) : \E u \in U : u.addr = P[r].page
<1>1. \A p, n : Block(p, n).addr = p
  BY DEF Block
<1>2. \A r \in Used(P) : \E u \in U : u.addr = P[r].page
  BY <1>1 DEF OwnInv
<1>3. ASSUME NEW b \in L PROVE \E u \in U : u.addr = Pg(b.addr)
  <2>1. CASE Small(P, b)
    BY <1>2, <2>1 DEF Small
  <2>2. CASE ~Small(P, b)
    BY <1>1, <2>2 DEF OwnInv
  <2> QED
    BY <2>1, <2>2
<1> QED
  BY <1>2, <1>3

\* Small blocks come and go on pages that have a reference.
LEMMA OwnSame ==
  ASSUME NEW U, NEW P, NEW L, NEW H, OwnInv(U, P, L, H),
         NEW Q, Used(Q) = Used(P), \A r \in Used(P) : Q[r].page = P[r].page,
         NEW M, \A b \in M : b \in L \/ Small(P, b),
         \A b \in L : b \in M \/ Small(P, b)
  PROVE  OwnInv(U, Q, M, H)
<1>1. \A b : Small(Q, b) <=> Small(P, b)
  BY DEF Small
<1>2. \A r \in Used(Q) : Block(Q[r].page, 1) \in U
  BY DEF OwnInv
<1>3. \A b \in M : ~Small(Q, b) => Off(b.addr) = 0 /\ Block(Pg(b.addr), NPages(b.size)) \in U
  BY <1>1 DEF OwnInv
<1>4. \A t \in Thread, r \in Used(Q) : H[t] # Q[r].page
  BY DEF OwnInv
<1>5. ASSUME NEW t \in Thread, NEW b \in M, H[t] # 0 PROVE H[t] # Pg(b.addr)
  <2>1. CASE b \in L
    BY <1>5, <2>1 DEF OwnInv
  <2>2. CASE Small(P, b)
    BY <2>2 DEF OwnInv, Small
  <2> QED
    BY <2>1, <2>2
<1>6. ASSUME NEW u \in U
      PROVE  \/ \E r \in Used(Q) : Q[r].page = u.addr
             \/ \E t \in Thread : H[t] = u.addr
             \/ \E b \in M : ~Small(Q, b) /\ Pg(b.addr) = u.addr
  <2>1. CASE \E r \in Used(P) : P[r].page = u.addr
    BY <2>1
  <2>2. CASE \E b \in L : ~Small(P, b) /\ Pg(b.addr) = u.addr
    BY <1>1, <2>2
  <2> QED
    BY <2>1, <2>2 DEF OwnInv
<1>7. /\ \A t \in Thread : H[t] # 0 => \E u \in U : u.addr = H[t]
      /\ \A t, u \in Thread : H[t] = H[u] /\ t # u => H[t] = 0
  BY DEF OwnInv
<1> QED
  BY <1>2, <1>3, <1>4, <1>5, <1>6, <1>7 DEF OwnInv

\* kmalloc gets a large block.
LEMMA OwnLarge ==
  ASSUME NEW U, NEW P, NEW L, NEW H, OwnInv(U, P, L, H),
         NEW b, NEW a, Pg(b.addr) = a, Off(b.addr) = 0,
         \A u \in U : u.addr # a,
         NEW V, V = U \cup {Block(a, NPages(b.size))}
  PROVE  ~Small(P, b) /\ OwnInv(V, P, L \cup {b}, H)
<1>1. \A p, n : Block(p, n).addr = p
  BY DEF Block
<1>2. \A r \in Used(P) : P[r].page # a
  BY PgUsed
<1>3. ~Small(P, b)
  BY <1>2 DEF Small
<1>4. \A r \in Used(P) : Block(P[r].page, 1) \in V
  BY DEF OwnInv
<1>5. \A t \in Thread : H[t] # 0 => H[t] # a /\ \E u \in V : u.addr = H[t]
  BY DEF OwnInv
<1>6. \A c \in L \cup {b} : ~Small(P, c) => Off(c.addr) = 0 /\ Block(Pg(c.addr), NPages(c.size)) \in V
  BY DEF OwnInv
<1>7. \A t \in Thread, c \in L \cup {b} : H[t] # 0 => H[t] # Pg(c.addr)
  BY <1>5 DEF OwnInv
<1>8. ASSUME NEW u \in V
      PROVE  \/ \E r \in Used(P) : P[r].page = u.addr
             \/ \E t \in Thread : H[t] = u.addr
             \/ \E c \in L \cup {b} : ~Small(P, c) /\ Pg(c.addr) = u.addr
  <2>1. CASE u \in U
    BY <2>1 DEF OwnInv
  <2>2. CASE u = Block(a, NPages(b.size))
    BY <1>1, <1>3, <2>2
  <2> QED
    BY <2>1, <2>2
<1>9. /\ \A t \in Thread, r \in Used(P) : H[t] # P[r].page
      /\ \A t, u \in Thread : H[t] = H[u] /\ t # u => H[t] = 0
  BY DEF OwnInv
<1> QED
  BY <1>3, <1>4, <1>5, <1>6, <1>7, <1>8, <1>9 DEF OwnInv

\* A call gets a page from alloc_kpages.
LEMMA OwnGot ==
  ASSUME NEW U, NEW P, NEW L, NEW H \in [Thread -> Nat], OwnInv(U, P, L, H),
         NEW t \in Thread, H[t] = 0, NEW a \in Nat, a # 0, \A u \in U : u.addr # a /\ u.addr # 0,
         NEW V, V = U \cup {Block(a, 1)},
         NEW K \in [Thread -> Nat], K[t] = a, \A x \in Thread : x # t => K[x] = H[x]
  PROVE  OwnInv(V, P, L, K)
<1>1. \A p, n : Block(p, n).addr = p
  BY DEF Block
<1>2. K \in [Thread -> Nat] /\ K[t] = a /\ \A x \in Thread : x # t => K[x] = H[x]
  OBVIOUS
<1>3. /\ \A r \in Used(P) : P[r].page # a
      /\ \A b \in L : Pg(b.addr) # a
  BY PgUsed
<1>4. \A x \in Thread : H[x] # a
  BY DEF OwnInv
<1>5. \A r \in Used(P) : Block(P[r].page, 1) \in V
  BY DEF OwnInv
<1>6. \A x \in Thread : K[x] # 0 => \E u \in V : u.addr = K[x]
  <2>1. \E u \in V : u.addr = a
    BY <1>1
  <2>2. \A x \in Thread : H[x] # 0 => \E u \in V : u.addr = H[x]
    BY DEF OwnInv
  <2> QED
    BY <1>2, <2>1, <2>2
<1>7. \A b \in L : ~Small(P, b) => Off(b.addr) = 0 /\ Block(Pg(b.addr), NPages(b.size)) \in V
  BY DEF OwnInv
<1>8. \A x \in Thread, r \in Used(P) : K[x] # P[r].page
  BY <1>2, <1>3 DEF OwnInv
<1>9. \A x \in Thread, b \in L : K[x] # 0 => K[x] # Pg(b.addr)
  BY <1>2, <1>3 DEF OwnInv
<1>10. \A x, y \in Thread : K[x] = K[y] /\ x # y => K[x] = 0
  BY <1>2, <1>4 DEF OwnInv
<1>11. ASSUME NEW u \in V
       PROVE  \/ \E r \in Used(P) : P[r].page = u.addr
              \/ \E x \in Thread : K[x] = u.addr
              \/ \E b \in L : ~Small(P, b) /\ Pg(b.addr) = u.addr
  <2>1. CASE u = Block(a, 1)
    BY <1>1, <1>2, <2>1
  <2>2. CASE u \in U
    <3>1. CASE \E x \in Thread : H[x] = u.addr
      BY <1>2, <2>2, <3>1
    <3> QED
      BY <2>2, <3>1 DEF OwnInv
  <2> QED
    BY <2>1, <2>2
<1> QED
  BY <1>5, <1>6, <1>7, <1>8, <1>9, <1>10, <1>11 DEF OwnInv

\* A call enters its page as a page of small blocks.
LEMMA OwnEntered ==
  ASSUME NEW U, NEW P, NEW L, NEW H \in [Thread -> Nat], OwnInv(U, P, L, H),
         NEW t \in Thread, NEW p, H[t] = p, p # 0, Block(p, 1) \in U, \A u \in U : u.addr # 0,
         NEW Q, NEW r, Used(Q) = Used(P) \cup {r}, Q[r].page = p, \A q \in Used(P) : Q[q] = P[q],
         NEW b, Pg(b.addr) = p,
         NEW K \in [Thread -> Nat], K[t] = 0, \A x \in Thread : x # t => K[x] = H[x]
  PROVE  OwnInv(U, Q, L \cup {b}, K)
<1>1. K \in [Thread -> Nat] /\ K[t] = 0 /\ \A x \in Thread : x # t => K[x] = H[x]
  OBVIOUS
<1>2. \A q \in Used(P) : P[q].page # p
  BY DEF OwnInv
<1>3. \A c \in L : Pg(c.addr) # p
  BY DEF OwnInv
<1>4. \A c \in L : Small(Q, c) <=> Small(P, c)
  BY <1>3 DEF Small
<1>5. Small(Q, b)
  BY DEF Small
<1>6. \A q \in Used(Q) : Block(Q[q].page, 1) \in U /\ Q[q].page # 0
  <2>1. \A x, n : Block(x, n).addr = x
    BY DEF Block
  <2>2. \A q \in Used(Q) : Block(Q[q].page, 1) \in U
    BY DEF OwnInv
  <2> QED
    BY <2>1, <2>2
<1>7. \A x \in Thread : K[x] # 0 => \E u \in U : u.addr = K[x]
  BY <1>1 DEF OwnInv
<1>8. \A c \in L \cup {b} : ~Small(Q, c) => Off(c.addr) = 0 /\ Block(Pg(c.addr), NPages(c.size)) \in U
  BY <1>4, <1>5 DEF OwnInv
<1>9. \A x \in Thread : K[x] # p
  BY <1>1 DEF OwnInv
<1>10. \A x \in Thread, q \in Used(Q) : K[x] # Q[q].page
  BY <1>1, <1>6, <1>9 DEF OwnInv
<1>11. \A x \in Thread, c \in L \cup {b} : K[x] # 0 => K[x] # Pg(c.addr)
  BY <1>1, <1>9 DEF OwnInv
<1>12. \A x, y \in Thread : K[x] = K[y] /\ x # y => K[x] = 0
  BY <1>1 DEF OwnInv
<1>13. ASSUME NEW u \in U
       PROVE  \/ \E q \in Used(Q) : Q[q].page = u.addr
              \/ \E x \in Thread : K[x] = u.addr
              \/ \E c \in L \cup {b} : ~Small(Q, c) /\ Pg(c.addr) = u.addr
  <2>1. CASE \E q \in Used(P) : P[q].page = u.addr
    BY <2>1
  <2>2. CASE \E x \in Thread : H[x] = u.addr
    BY <1>1, <2>2
  <2>3. CASE \E c \in L : ~Small(P, c) /\ Pg(c.addr) = u.addr
    BY <1>4, <2>3
  <2> QED
    BY <2>1, <2>2, <2>3 DEF OwnInv
<1> QED
  BY <1>6, <1>7, <1>8, <1>10, <1>11, <1>12, <1>13 DEF OwnInv

\* A page whose last block is freed goes into the hands of the call.
LEMMA OwnLeft ==
  ASSUME NEW U, NEW P, NEW L, NEW H \in [Thread -> Nat], OwnInv(U, P, L, H),
         NEW t \in Thread, H[t] = 0, NEW r \in Used(P), NEW p \in Nat, P[r].page = p,
         \A u \in U : u.addr # 0,
         \A q \in Used(P) : P[q].page = p => q = r,
         NEW Q, Used(Q) = Used(P) \ {r}, \A q \in Used(Q) : Q[q] = P[q],
         NEW b, Pg(b.addr) = p, \A c \in L \ {b} : Pg(c.addr) # p,
         NEW K \in [Thread -> Nat], K[t] = p, \A x \in Thread : x # t => K[x] = H[x]
  PROVE  OwnInv(U, Q, L \ {b}, K)
<1> DEFINE M == L \ {b}
<1>1. K \in [Thread -> Nat] /\ K[t] = p /\ \A x \in Thread : x # t => K[x] = H[x]
  OBVIOUS
<1>2. \A x \in Thread : H[x] # p
  BY DEF OwnInv
<1>3. \A c \in M : Small(Q, c) <=> Small(P, c)
  BY DEF Small
<1>4. Small(P, b)
  BY DEF Small
<1>5. \A q \in Used(Q) : Block(Q[q].page, 1) \in U
  BY DEF OwnInv
<1>6. \A x \in Thread : K[x] # 0 => \E u \in U : u.addr = K[x]
  <2>1. \E u \in U : u.addr = p
    BY PgUsed
  <2> QED
    BY <1>1, <2>1 DEF OwnInv
<1>7. \A c \in M : ~Small(Q, c) => Off(c.addr) = 0 /\ Block(Pg(c.addr), NPages(c.size)) \in U
  BY <1>3 DEF OwnInv
<1>8. \A x \in Thread, q \in Used(Q) : K[x] # Q[q].page
  BY <1>1 DEF OwnInv
<1>9. \A x \in Thread, c \in M : K[x] # 0 => K[x] # Pg(c.addr)
  BY <1>1 DEF OwnInv
<1>10. \A x, y \in Thread : K[x] = K[y] /\ x # y => K[x] = 0
  BY <1>1, <1>2 DEF OwnInv
<1>11. ASSUME NEW u \in U
       PROVE  \/ \E q \in Used(Q) : Q[q].page = u.addr
              \/ \E x \in Thread : K[x] = u.addr
              \/ \E c \in M : ~Small(Q, c) /\ Pg(c.addr) = u.addr
  <2>1. CASE \E q \in Used(P) : P[q].page = u.addr
    BY <1>1, <2>1
  <2>2. CASE \E x \in Thread : H[x] = u.addr
    BY <1>1, <2>2
  <2>3. CASE \E c \in L : ~Small(P, c) /\ Pg(c.addr) = u.addr
    BY <1>3, <1>4, <2>3
  <2> QED
    BY <2>1, <2>2, <2>3 DEF OwnInv
<1> QED
  BY <1>5, <1>6, <1>7, <1>8, <1>9, <1>10, <1>11 DEF OwnInv

\* kfree takes a large block into its hands.
LEMMA OwnFreed ==
  ASSUME NEW U, NEW P, NEW L, NEW H \in [Thread -> Nat], OwnInv(U, P, L, H),
         L \subseteq LiveRec, \A a, b \in L : a.addr = b.addr => a = b,
         NEW t \in Thread, H[t] = 0, \A u \in U : u.addr # 0,
         NEW b \in L, ~Small(P, b),
         NEW K \in [Thread -> Nat], K[t] = Pg(b.addr), \A x \in Thread : x # t => K[x] = H[x]
  PROVE  OwnInv(U, P, L \ {b}, K)
<1> DEFINE M == L \ {b}
           p == Pg(b.addr)
<1>1. \A c \in L : c.addr \in Nat /\ c.addr = Pg(c.addr) * PAGE_SIZE + Off(c.addr)
  BY Divided DEF LiveRec
<1>2. p \in Nat
  BY Divided DEF LiveRec
<1> HIDE DEF p
<1>3. K \in [Thread -> Nat] /\ K[t] = p /\ \A x \in Thread : x # t => K[x] = H[x]
  BY <1>2 DEF p
<1>4. \A r \in Used(P) : P[r].page # p
  BY DEF Small, p
<1>5. \E u \in U : u.addr = p
  BY PgUsed DEF p
<1>6. \A x \in Thread : H[x] # p
  BY <1>5 DEF OwnInv, p
<1>7. \A c \in M : Pg(c.addr) # p
  <2> SUFFICES ASSUME NEW c \in M, Pg(c.addr) = p PROVE FALSE
    OBVIOUS
  <2>1. ~Small(P, c)
    BY <1>4 DEF Small
  <2>2. Off(c.addr) = 0 /\ Off(b.addr) = 0
    BY <2>1 DEF OwnInv
  <2>3. c.addr = b.addr
    BY <1>1, <2>2 DEF p
  <2> QED
    BY <2>3
<1>8. \A x \in Thread : K[x] # 0 => \E u \in U : u.addr = K[x]
  BY <1>3, <1>5 DEF OwnInv
<1>9. \A x \in Thread, q \in Used(P) : K[x] # P[q].page
  BY <1>3, <1>4 DEF OwnInv
<1>10. \A x \in Thread, c \in M : K[x] # 0 => K[x] # Pg(c.addr)
  BY <1>3, <1>7 DEF OwnInv
<1>11. \A x, y \in Thread : K[x] = K[y] /\ x # y => K[x] = 0
  BY <1>3, <1>6 DEF OwnInv
<1>12. ASSUME NEW u \in U
       PROVE  \/ \E q \in Used(P) : P[q].page = u.addr
              \/ \E x \in Thread : K[x] = u.addr
              \/ \E c \in M : ~Small(P, c) /\ Pg(c.addr) = u.addr
  <2>2. CASE \E x \in Thread : H[x] = u.addr
    BY <1>3, <2>2
  <2>3. CASE \E c \in L : ~Small(P, c) /\ Pg(c.addr) = u.addr
    BY <1>3, <2>3 DEF p
  <2> QED
    BY <2>2, <2>3 DEF OwnInv
<1>13. /\ \A r \in Used(P) : Block(P[r].page, 1) \in U
       /\ \A c \in M : ~Small(P, c) => Off(c.addr) = 0 /\ Block(Pg(c.addr), NPages(c.size)) \in U
  BY DEF OwnInv
<1> QED
  BY <1>8, <1>9, <1>10, <1>11, <1>12, <1>13 DEF OwnInv

\* free_kpages takes the page back.
LEMMA OwnBack ==
  ASSUME NEW U, NEW P, NEW L, NEW H \in [Thread -> Nat], OwnInv(U, P, L, H),
         NEW t \in Thread, \A u \in U : u.addr # 0,
         NEW V, \A u : u \in V <=> u \in U /\ u.addr # H[t],
         NEW K \in [Thread -> Nat], K[t] = 0, \A x \in Thread : x # t => K[x] = H[x]
  PROVE  OwnInv(V, P, L, K)
<1> DEFINE p == H[t]
<1>1. K \in [Thread -> Nat] /\ K[t] = 0 /\ \A x \in Thread : x # t => K[x] = H[x]
  OBVIOUS
<1>2. /\ \A r \in Used(P) : P[r].page # p
      /\ \A b \in L : Pg(b.addr) # p
      /\ \A x \in Thread : x # t => H[x] = 0 \/ H[x] # p
  <2>1. \A b \in L : Pg(b.addr) # 0
    BY PgUsed
  <2> QED
    BY <2>1 DEF OwnInv
<1>3. \A x, n : Block(x, n).addr = x
  BY DEF Block
<1>4. \A r \in Used(P) : Block(P[r].page, 1) \in V /\ P[r].page # 0
  <2>1. \A r \in Used(P) : Block(P[r].page, 1) \in U
    BY DEF OwnInv
  <2> QED
    BY <1>2, <1>3, <2>1
<1>5. \A x \in Thread : K[x] # 0 => \E u \in V : u.addr = K[x]
  BY <1>1, <1>2 DEF OwnInv
<1>6. \A c \in L : ~Small(P, c) => Off(c.addr) = 0 /\ Block(Pg(c.addr), NPages(c.size)) \in V
  <2>1. \A c \in L : ~Small(P, c) => Off(c.addr) = 0 /\ Block(Pg(c.addr), NPages(c.size)) \in U
    BY DEF OwnInv
  <2> QED
    BY <1>2, <1>3, <2>1
<1>7. \A x \in Thread, q \in Used(P) : K[x] # P[q].page
  BY <1>1, <1>4 DEF OwnInv
<1>8. \A x \in Thread, c \in L : K[x] # 0 => K[x] # Pg(c.addr)
  BY <1>1 DEF OwnInv
<1>9. \A x, y \in Thread : K[x] = K[y] /\ x # y => K[x] = 0
  BY <1>1 DEF OwnInv
<1>10. ASSUME NEW u \in V
       PROVE  \/ \E q \in Used(P) : P[q].page = u.addr
              \/ \E x \in Thread : K[x] = u.addr
              \/ \E c \in L : ~Small(P, c) /\ Pg(c.addr) = u.addr
  <2>1. u \in U /\ u.addr # p
    OBVIOUS
  <2>2. CASE \E x \in Thread : H[x] = u.addr
    BY <1>1, <2>1, <2>2
  <2> QED
    BY <2>1, <2>2 DEF OwnInv
<1> QED
  BY <1>4, <1>5, <1>6, <1>7, <1>8, <1>9, <1>10 DEF OwnInv

-----------------------------------------------------------------------------
(* The steps of kmalloc and kfree *)

LEMMA UsedFacts ==
  ASSUME NEW m, MemInv(m)
  PROVE  /\ \A u \in ToSet(m.used_blks) : u \in Blk /\ u.addr \in Page /\ u.addr # 0
         /\ m.down \in BOOLEAN
<1>1. m.used_blks \in Seq(Blk) /\ PagesIn(m.used_blks) \subseteq Page /\ m.down \in BOOLEAN
  BY MemFacts
<1>2. \A u \in ToSet(m.used_blks) : InPage(u) /\ u.addr \in Page /\ u.addr # 0
  BY <1>1, ListInPage
<1> QED
  BY <1>1, <1>2 DEF InPage

LEMMA HandedFacts ==
  ASSUME NEW m, MemInv(m), NEW p
  PROVE  /\ MemInv(Handed(m, p)) /\ Handed(m, p).used_blks = m.used_blks
         /\ p = 0 => Handed(m, p).down
         /\ p # 0 => Handed(m, p).down = m.down
<1> DEFINE r == Handed(m, p)
           d == m.down \/ p = 0
<1>1. m \in MemType /\ m.down \in BOOLEAN /\ d \in BOOLEAN
  BY UsedFacts DEF MemInv
<1>2. r = [m EXCEPT !.down = d]
  BY DEF Handed
<1>3. (p = 0 => d) /\ (p # 0 => d = m.down)
  BY <1>1
<1> HIDE DEF r, d
<1>4. /\ r.free_blks = m.free_blks /\ r.used_blks = m.used_blks /\ r.free_pages = m.free_pages
      /\ r.down = d /\ r \in MemType
  BY <1>1, <1>2 DEF MemType
<1>5. MemInv(r)
  BY <1>4 DEF MemInv, Tiled
<1> QED
  BY <1>3, <1>4, <1>5 DEF r

\* What the invariant says of a state in which the kernel runs.
LEMMA Running ==
  ASSUME KmInv, ~mem.down
  PROVE  /\ MemInv(mem) /\ ThreadInv /\ RefsInv(pagerefs, sizebases, allbase)
         /\ LiveInv(pagerefs, live) /\ OwnInv(ToSet(mem.used_blks), pagerefs, live, page)
         /\ page \in [Thread -> Nat]
         /\ \A u \in ToSet(mem.used_blks) : u \in Blk /\ u.addr # 0
  BY UsedFacts DEF KmInv, ThreadInv

\* A block goes from a free list to the caller.
LEMMA Taken ==
  ASSUME NEW U, NEW P, NEW S, NEW A, NEW L, NEW H,
         RefsInv(P, S, A), LiveInv(P, L), OwnInv(U, P, L, H),
         NEW r \in Used(P), P[r].nfree > 0, NEW sz \in Nat \ {0}, sz <= P[r].blktype,
         NEW Q \in [Ref -> Rec \cup {NONE}], \A q \in Ref : q # r => Q[q] = P[q],
         Q[r] = NewFree(P[r], P[r].nfree - 1, Tail(P[r].freelist)),
         NEW b, b = [addr |-> P[r].page * PAGE_SIZE + Head(P[r].freelist), size |-> sz]
  PROVE  RefsInv(Q, S, A) /\ LiveInv(Q, L \cup {b}) /\ OwnInv(U, Q, L \cup {b}, H)
<1> DEFINE pr == P[r]
           e == NewFree(pr, pr.nfree - 1, Tail(pr.freelist))
           M == L \cup {b}
<1>1. RefList(pr) /\ OnPage(pr, L) /\ L \subseteq LiveRec /\ pr.nfree > 0 /\ sz <= pr.blktype
  BY DEF RefsInv, RefOK, LiveInv
<1>2. Q[r] = e
  OBVIOUS
<1>9. b = [addr |-> pr.page * PAGE_SIZE + Head(pr.freelist), size |-> sz]
  OBVIOUS
<1> HIDE DEF pr, e
<1>3. e = NewFree(pr, pr.nfree - 1, Tail(pr.freelist))
  BY DEF e
<1>4. /\ RefOK(e) /\ e.page = pr.page /\ e.blktype = pr.blktype
      /\ b \in LiveRec /\ Pg(b.addr) = pr.page /\ \A c \in L : c.addr # b.addr
      /\ OnPage(e, L \cup {b})
  <2>1. sz \in Nat \ {0}
    OBVIOUS
  <2> QED
    BY ONLY <1>1, <1>3, <1>9, <2>1, TakeOne
<1>5. /\ RefsInv(Q, S, A) /\ Used(Q) = Used(P)
      /\ \A q \in Used(P) : Q[q].page = P[q].page
  <2>1. e.page = P[r].page /\ e.blktype = P[r].blktype /\ RefOK(e)
    BY <1>4 DEF pr
  <2>2. RefsInv(P, S, A) /\ r \in Used(P) /\ Changed(Ref, P, Q, r, e)
    BY <1>2 DEF Changed
  <2> QED
    BY <2>1, <2>2, RefChanged
<1>6. Small(P, b)
  BY <1>4 DEF Small, pr
<1>7. OwnInv(U, Q, M, H)
  BY <1>5, <1>6, OwnSame
<1>8. LiveInv(Q, M)
  <2>1. P \in [Ref -> Rec \cup {NONE}] /\ r \in Ref /\ Used(P) \subseteq Ref
    BY DEF RefsInv, Used
  <2>2. \A q \in Used(Q) \ {r} : Q[q] = P[q]
    BY <1>2, <1>5, <2>1
  <2>7. \A q \in Used(Q) \ {r} : P[q].page # e.page
    BY <1>4, <1>5 DEF RefsInv, pr
  <2>3. SameRefs(P, Q, r, e)
    BY <1>2, <1>5, <2>2, <2>7 DEF SameRefs
  <2>4. Distinct(M)
    BY <1>1, <1>4 DEF LiveInv, Distinct
  <2>5. SameBlocks(L, M, e.page)
    BY <1>4 DEF SameBlocks
  <2>6. OnPage(e, M)
    BY <1>4
  <2> HIDE DEF M
  <2> QED
    BY <2>3, <2>4, <2>5, <2>6, LiveChanged
<1> QED
  BY <1>5, <1>7, <1>8

\* The calls of the page allocator begin: only where the thread is changes.
LEMMA KmallocPagesStep ==
  ASSUME KmInv, NEW t \in Thread, NEW sz \in Requests, KmallocPages(t, sz)
  PROVE  KmInv'
<1>1. ~mem.down /\ step[t] = "outside"
  BY DEF KmallocPages, At
<1>2. /\ MemInv(mem) /\ ThreadInv /\ RefsInv(pagerefs, sizebases, allbase)
      /\ LiveInv(pagerefs, live) /\ OwnInv(ToSet(mem.used_blks), pagerefs, live, page)
  BY <1>1, Running
<1>3. /\ want' = [want EXCEPT ![t] = sz] /\ step' = [step EXCEPT ![t] = "walk"]
      /\ mem' = mem /\ pagerefs' = pagerefs /\ sizebases' = sizebases /\ allbase' = allbase
      /\ page' = page /\ live' = live
  BY DEF KmallocPages, FindPages, Enter, Goto, refVars
<1>4. ThreadInv'
  BY <1>1, <1>2, <1>3 DEF ThreadInv, Steps
<1> QED
  BY <1>2, <1>3, <1>4 DEF KmInv

LEMMA AskPageStep ==
  ASSUME KmInv, NEW t \in Thread, AskPage(t)
  PROVE  KmInv'
<1>1. ~mem.down /\ step[t] = "getpage"
  BY DEF AskPage, At
<1>2. /\ MemInv(mem) /\ ThreadInv /\ RefsInv(pagerefs, sizebases, allbase)
      /\ LiveInv(pagerefs, live) /\ OwnInv(ToSet(mem.used_blks), pagerefs, live, page)
  BY <1>1, Running
<1>3. /\ step' = [step EXCEPT ![t] = "walk"] /\ want' = want
      /\ mem' = mem /\ pagerefs' = pagerefs /\ sizebases' = sizebases /\ allbase' = allbase
      /\ page' = page /\ live' = live
  BY DEF AskPage, FindPages, Enter, Goto, refVars
<1>4. ThreadInv'
  BY <1>1, <1>2, <1>3 DEF ThreadInv, Steps
<1> QED
  BY <1>2, <1>3, <1>4 DEF KmInv

LEMMA CallFreeStep ==
  ASSUME KmInv, NEW t \in Thread, CallFree(t)
  PROVE  KmInv'
<1>1. ~mem.down
  BY DEF CallFree, At
<1>2. /\ MemInv(mem) /\ ThreadInv /\ RefsInv(pagerefs, sizebases, allbase)
      /\ LiveInv(pagerefs, live) /\ OwnInv(ToSet(mem.used_blks), pagerefs, live, page)
  BY <1>1, Running
<1>3. /\ step' = [step EXCEPT ![t] = "relink"] /\ want' = want
      /\ mem' = mem /\ pagerefs' = pagerefs /\ sizebases' = sizebases /\ allbase' = allbase
      /\ page' = page /\ live' = live
  BY DEF CallFree, Enter, Goto, refVars
<1>4. ThreadInv'
  BY <1>2, <1>3 DEF ThreadInv, Steps
<1> QED
  BY <1>2, <1>3, <1>4 DEF KmInv

\* They end, and none overlapped with another.
LEMMA TakePagesStep ==
  ASSUME KmInv, ~raced, NEW t \in Thread, TakePages(t)
  PROVE  KmInv'
<1> DEFINE sz == want[t]
           n == NPages(sz)
           a == alloc_addr(mem, n)
           m == alloc_ppages(mem, n)
           b == [addr |-> a * PAGE_SIZE, size |-> sz]
           U == ToSet(mem.used_blks)
<1>0. ~mem.down /\ step[t] = "walk"
  BY DEF TakePages, At
<1>2. /\ MemInv(mem) /\ ThreadInv /\ RefsInv(pagerefs, sizebases, allbase)
      /\ LiveInv(pagerefs, live) /\ OwnInv(U, pagerefs, live, page)
  BY <1>0, Running
<1>1. sz \in Nat \ {0}
  BY <1>0, <1>2, KmallocAssumption DEF ThreadInv
<1>3. n \in Nat
  BY <1>1, RoundedUp
<1>4. /\ mem' = Handed(m, a) /\ live' = live \cup {b}
      /\ pagerefs' = pagerefs /\ sizebases' = sizebases /\ allbase' = allbase
      /\ step' = [step EXCEPT ![t] = "outside"] /\ want' = [want EXCEPT ![t] = 0] /\ page' = page
  BY DEF TakePages, Allocated, PagesFor, NPages, Goto, refVars
<1> HIDE DEF n, sz
<1>5. /\ MemInv(m)
      /\ a = 0 => m = mem
      /\ a # 0 =>
           /\ a \in Page
           /\ \A u \in U : u.addr # a
           /\ \/ m.down
              \/ ToSet(m.used_blks) = U \cup {Block(a, n)} /\ m.down = mem.down
  BY <1>2, <1>3, AllocFacts
<1> HIDE DEF m, a, U
<1>6. MemInv(mem') /\ mem'.used_blks = m.used_blks /\ (a = 0 => mem'.down) /\ (a # 0 => mem'.down = m.down)
  BY <1>4, <1>5, HandedFacts
<1>7. ASSUME ~mem'.down
      PROVE  /\ ThreadInv' /\ RefsInv(pagerefs, sizebases, allbase)'
             /\ LiveInv(pagerefs, live)' /\ OwnInv(ToSet(mem.used_blks), pagerefs, live, page)'
  <2>1. a # 0 /\ a \in Page /\ (\A u \in U : u.addr # a) /\ ToSet(m.used_blks) = U \cup {Block(a, n)}
    BY <1>5, <1>6, <1>7
  <2>2. a \in Nat
    BY <2>1, PageFacts
  <2>3. b.addr = a * PAGE_SIZE /\ b.size = sz
    OBVIOUS
  <2>4. b.addr \in Nat /\ Pg(b.addr) = a /\ Off(b.addr) = 0
    <3>1. a * PAGE_SIZE \in Nat /\ a * PAGE_SIZE + 0 = a * PAGE_SIZE
      BY <2>2, PageSize, Times
    <3>2. 0 \in Nat /\ 0 < PAGE_SIZE
      BY PageSize
    <3>3. Pg(a * PAGE_SIZE + 0) = a /\ Off(a * PAGE_SIZE + 0) = 0
      BY <2>2, <3>2, Placed
    <3> QED
      BY <2>3, <3>1, <3>3
  <2>5. b \in LiveRec
    BY <1>1, <2>3, <2>4 DEF LiveRec
  <2> HIDE DEF b
  <2>6. ~Small(pagerefs, b) /\ OwnInv(U \cup {Block(a, n)}, pagerefs, live \cup {b}, page)
    BY <1>2, <2>1, <2>3, <2>4, OwnLarge DEF n
  <2>7. \A c \in live : Pg(c.addr) # a
    BY <1>2, <2>1, PgUsed
  <2>8. LiveInv(pagerefs, live \cup {b})
    <3>1. \A c, d \in live \cup {b} : c.addr = d.addr => c = d
      BY <1>2, <2>4, <2>7 DEF LiveInv
    <3>2. \A r \in Used(pagerefs) : OnPage(pagerefs[r], live \cup {b})
      BY <1>2, <2>4, <2>6, OtherPage DEF LiveInv, Small
    <3> QED
      BY <1>2, <2>5, <3>1, <3>2 DEF LiveInv
  <2>9. ThreadInv'
    BY <1>0, <1>2, <1>4, <1>6, <2>1 DEF ThreadInv, Steps, U
  <2> QED
    BY <1>2, <1>4, <1>6, <2>1, <2>6, <2>8, <2>9
<1> QED
  BY <1>6, <1>7 DEF KmInv

LEMMA TakeRec ==
  ASSUME NEW pr, RefList(pr), pr.nfree > 0
  PROVE  NewFree(pr, pr.nfree - 1, Tail(pr.freelist)) \in Rec
<1>1. /\ pr \in Rec /\ pr.freelist \in Seq(Nat) /\ pr.nfree \in Nat
      /\ IsInjective(pr.freelist) /\ Len(pr.freelist) > 0
  BY RefFields DEF RefList
<1> DEFINE k == pr.nfree - 1
           q == Tail(pr.freelist)
<1>2. k \in Nat /\ q \in Seq(Nat)
  BY <1>1, Popped
<1> HIDE DEF k, q
<1>3. NewFree(pr, k, q) \in Rec
  BY <1>1, <1>2 DEF Rec, NewFree
<1> QED
  BY <1>3 DEF k, q

\* doalloc with the model's words.
LEMMA DoAllocFacts ==
  ASSUME NEW P \in [Ref -> Rec \cup {NONE}], NEW r \in Ref, NEW sz, DoAlloc(P, r, sz),
         RefList(P[r]), P[r].nfree > 0
  PROVE  /\ pagerefs' \in [Ref -> Rec \cup {NONE}]
         /\ \A q \in Ref : q # r => pagerefs'[q] = P[q]
         /\ pagerefs'[r] = NewFree(P[r], P[r].nfree - 1, Tail(P[r].freelist))
         /\ live' = live \cup {[addr |-> P[r].page * PAGE_SIZE + Head(P[r].freelist), size |-> sz]}
<1> DEFINE e == NewFree(P[r], P[r].nfree - 1, Tail(P[r].freelist))
<1>1. pagerefs' = [P EXCEPT ![r] = e]
  BY DEF DoAlloc, NewFree
<1>2. e \in Rec
  BY TakeRec
<1> HIDE DEF e
<1>3. /\ pagerefs' \in [Ref -> Rec \cup {NONE}] /\ pagerefs'[r] = e
      /\ \A q \in Ref : q # r => pagerefs'[q] = P[q]
  BY <1>1, <1>2
<1> QED
  BY <1>3 DEF e, DoAlloc

LEMMA SubpageHitStep ==
  ASSUME KmInv, NEW t \in Thread, NEW sz \in Requests, SubpageHit(t, sz)
  PROVE  KmInv'
<1> DEFINE U == ToSet(mem.used_blks)
           s == blocktype(sz)
           list == sizebases[s]
           i == Min(Open(list))
           r == list[i]
           b == [addr |-> pagerefs[r].page * PAGE_SIZE + Head(pagerefs[r].freelist), size |-> sz]
<1>1. ~mem.down /\ sz \in Nat \ {0} /\ sz \in Nat /\ sz < LARGEST_SUBPAGE_SIZE
  BY KmallocAssumption DEF SubpageHit, At
<1>2. /\ MemInv(mem) /\ ThreadInv /\ RefsInv(pagerefs, sizebases, allbase)
      /\ LiveInv(pagerefs, live) /\ OwnInv(U, pagerefs, live, page)
  BY <1>1, Running
<1>3. /\ Open(list) # {} /\ DoAlloc(pagerefs, r, sz)
      /\ mem' = mem /\ sizebases' = sizebases /\ allbase' = allbase
      /\ step' = step /\ want' = want /\ page' = page
  BY DEF SubpageHit
<1>4. s \in Sizes /\ sz <= s
  BY <1>1, BlocktypeFacts
<1> HIDE DEF s
<1>5. list \in Seq(Ref) /\ ToSet(list) = {q \in Used(pagerefs) : pagerefs[q].blktype = s}
  BY <1>2, <1>4 DEF RefsInv
<1>6. i \in 1 .. Len(list) /\ pagerefs[r].nfree > 0
  <2>1. Open(list) \in SUBSET Nat /\ Open(list) \subseteq 1 .. Len(list)
    BY <1>5 DEF Open
  <2>2. Min(Open(list)) \in Open(list)
    BY <1>3, <2>1, MinOfNats
  <2> QED
    BY <2>1, <2>2 DEF Open
<1>7. r \in Used(pagerefs) /\ pagerefs[r].blktype = s
  <2>1. r \in ToSet(list)
    BY <1>5, <1>6, Elements
  <2> QED
    BY <1>5, <2>1
<1> HIDE DEF r
<1>8. /\ pagerefs \in [Ref -> Rec \cup {NONE}] /\ r \in Ref /\ RefList(pagerefs[r])
  BY <1>2, <1>7 DEF RefsInv, Used, RefOK
<1>9. /\ pagerefs' \in [Ref -> Rec \cup {NONE}]
      /\ \A q \in Ref : q # r => pagerefs'[q] = pagerefs[q]
      /\ pagerefs'[r] = NewFree(pagerefs[r], pagerefs[r].nfree - 1, Tail(pagerefs[r].freelist))
      /\ live' = live \cup {b}
  BY <1>3, <1>6, <1>8, DoAllocFacts
<1> DEFINE P == pagerefs
           Q == pagerefs'
           S == sizebases
<1>10. RefsInv(Q, S, allbase) /\ LiveInv(Q, live \cup {b}) /\ OwnInv(U, Q, live \cup {b}, page)
  <2>1. b = [addr |-> P[r].page * PAGE_SIZE + Head(P[r].freelist), size |-> sz]
    OBVIOUS
  <2>2. P[r].nfree > 0 /\ sz <= P[r].blktype /\ r \in Used(P)
    BY <1>4, <1>6, <1>7
  <2>3. /\ Q \in [Ref -> Rec \cup {NONE}]
        /\ \A q \in Ref : q # r => Q[q] = P[q]
        /\ Q[r] = NewFree(P[r], P[r].nfree - 1, Tail(P[r].freelist))
    BY <1>9
  <2>4. sz \in Nat \ {0} /\ RefsInv(P, S, allbase) /\ LiveInv(P, live) /\ OwnInv(U, P, live, page)
    BY <1>1, <1>2
  <2> HIDE DEF b, U, P, Q, S
  <2> QED
    BY ONLY <2>1, <2>2, <2>3, <2>4, Taken
<1>11. ThreadInv'
  BY <1>2, <1>3 DEF ThreadInv
<1> QED
  BY <1>2, <1>3, <1>9, <1>10, <1>11 DEF KmInv

LEMMA SubpageMissStep ==
  ASSUME KmInv, NEW t \in Thread, NEW sz \in Requests, SubpageMiss(t, sz)
  PROVE  KmInv'
<1>1. ~mem.down /\ step[t] = "outside" /\ sz < LARGEST_SUBPAGE_SIZE
  BY DEF SubpageMiss, At
<1>2. /\ MemInv(mem) /\ ThreadInv /\ RefsInv(pagerefs, sizebases, allbase)
      /\ LiveInv(pagerefs, live) /\ OwnInv(ToSet(mem.used_blks), pagerefs, live, page)
  BY <1>1, Running
<1>3. /\ want' = [want EXCEPT ![t] = sz] /\ step' = [step EXCEPT ![t] = "getpage"]
      /\ mem' = mem /\ pagerefs' = pagerefs /\ sizebases' = sizebases /\ allbase' = allbase
      /\ page' = page /\ live' = live
  BY DEF SubpageMiss, Goto, refVars
<1>4. ThreadInv'
  BY <1>1, <1>2, <1>3 DEF ThreadInv, Steps
<1> QED
  BY <1>2, <1>3, <1>4 DEF KmInv

LEMMA NoPagerefStep ==
  ASSUME KmInv, NEW t \in Thread, NoPageref(t)
  PROVE  KmInv'
<1>1. ~mem.down
  BY DEF NoPageref, At
<1>2. /\ MemInv(mem) /\ ThreadInv /\ RefsInv(pagerefs, sizebases, allbase)
      /\ LiveInv(pagerefs, live) /\ OwnInv(ToSet(mem.used_blks), pagerefs, live, page)
  BY <1>1, Running
<1>3. /\ want' = [want EXCEPT ![t] = 0] /\ step' = [step EXCEPT ![t] = "giveback"]
      /\ mem' = mem /\ pagerefs' = pagerefs /\ sizebases' = sizebases /\ allbase' = allbase
      /\ page' = page /\ live' = live
  BY DEF NoPageref, Goto, refVars
<1>4. ThreadInv'
  BY <1>2, <1>3 DEF ThreadInv, Steps
<1> QED
  BY <1>2, <1>3, <1>4 DEF KmInv

LEMMA GetPageStep ==
  ASSUME KmInv, ~raced, NEW t \in Thread, GetPage(t)
  PROVE  KmInv'
<1> DEFINE a == alloc_addr(mem, 1)
           m == alloc_ppages(mem, 1)
           U == ToSet(mem.used_blks)
<1>1. ~mem.down /\ step[t] = "walk" /\ want[t] < LARGEST_SUBPAGE_SIZE
  BY DEF GetPage, At
<1>2. /\ MemInv(mem) /\ ThreadInv /\ RefsInv(pagerefs, sizebases, allbase)
      /\ LiveInv(pagerefs, live) /\ OwnInv(U, pagerefs, live, page)
      /\ page \in [Thread -> Nat] /\ \A u \in U : u.addr # 0
  BY <1>1, Running
<1>3. /\ mem' = m /\ page' = [page EXCEPT ![t] = a] /\ step' = [step EXCEPT ![t] = "newpage"]
      /\ pagerefs' = pagerefs /\ sizebases' = sizebases /\ allbase' = allbase
      /\ want' = want /\ live' = live
  <2>1. Allocated(t, 1) = {[addr |-> a, mem |-> m]}
    BY DEF Allocated
  <2> HIDE DEF a, m
  <2>2. PICK got \in Allocated(t, 1) : mem' = got.mem /\ page' = [page EXCEPT ![t] = got.addr]
    BY DEF GetPage
  <2>3. got.mem = m /\ got.addr = a
    BY <2>1, <2>2
  <2> QED
    BY <2>2, <2>3 DEF GetPage, Goto, refVars
<1>4. /\ MemInv(m)
      /\ a = 0 => m = mem
      /\ a # 0 =>
           /\ a \in Page
           /\ \A u \in U : u.addr # a
           /\ \/ m.down
              \/ ToSet(m.used_blks) = U \cup {Block(a, 1)} /\ m.down = mem.down
  BY <1>2, AllocFacts
<1> HIDE DEF m, a, U
<1>5. page[t] = 0
  BY <1>1, <1>2 DEF ThreadInv
<1>6. a \in Nat
  BY <1>4, PageFacts
<1>7. ASSUME ~m.down
      PROVE  /\ ThreadInv' /\ OwnInv(ToSet(m.used_blks), pagerefs, live, page')
  <2>1. page' \in [Thread -> Nat] /\ page'[t] = a /\ \A x \in Thread : x # t => page'[x] = page[x]
    BY <1>2, <1>3, <1>6
  <2>2. U \subseteq ToSet(m.used_blks) /\ (a # 0 => Block(a, 1) \in ToSet(m.used_blks))
    BY <1>4, <1>7 DEF U
  <2>3. ThreadInv'
    <3>1. /\ step' \in [Thread -> Steps]
          /\ step'[t] = "newpage" /\ \A x \in Thread : x # t => step'[x] = step[x]
      BY <1>2, <1>3 DEF ThreadInv, Steps
    <3>2. \A x \in Thread : /\ step'[x] \in {"outside", "getpage", "walk"} => page'[x] = 0
                            /\ step'[x] = "walk" => want[x] \in Requests
                            /\ step'[x] \in {"getpage", "newpage"} => want[x] \in Requests /\ want[x] < LARGEST_SUBPAGE_SIZE
                            /\ step'[x] = "newpage" /\ page'[x] # 0 => Block(page'[x], 1) \in ToSet(m.used_blks)
      BY <1>1, <1>2, <2>1, <2>2, <3>1 DEF ThreadInv, U
    <3> QED
      BY <1>2, <1>3, <2>1, <3>1, <3>2 DEF ThreadInv
  <2>4. OwnInv(ToSet(m.used_blks), pagerefs, live, page')
    <3>1. CASE a = 0
      <4>1. page' = page
        BY <1>2, <1>3, <1>5, <3>1
      <4> QED
        BY <1>2, <1>4, <3>1, <4>1 DEF U
    <3>2. CASE a # 0
      <4>1. ToSet(m.used_blks) = U \cup {Block(a, 1)} /\ \A u \in U : u.addr # a /\ u.addr # 0
        BY <1>2, <1>4, <1>7, <3>2
      <4> QED
        BY <1>2, <1>5, <1>6, <2>1, <3>2, <4>1, OwnGot
    <3> QED
      BY <3>1, <3>2
  <2> QED
    BY <2>3, <2>4
<1> QED
  BY <1>2, <1>3, <1>4, <1>7 DEF KmInv

LEMMA NewPageStep ==
  ASSUME KmInv, NEW t \in Thread, NewPage(t)
  PROVE  KmInv'
<1> DEFINE U == ToSet(mem.used_blks)
           p == page[t]
           w == want[t]
           s == blocktype(w)
           r == Min(FreeRefs)
           F == FreshPage(p, s)
           P == [pagerefs EXCEPT ![r] = F]
<1>1. ~mem.down /\ step[t] = "newpage"
  BY DEF NewPage, At
<1>2. /\ MemInv(mem) /\ ThreadInv /\ RefsInv(pagerefs, sizebases, allbase)
      /\ LiveInv(pagerefs, live) /\ OwnInv(U, pagerefs, live, page)
      /\ page \in [Thread -> Nat] /\ \A u \in U : u.addr # 0
  BY <1>1, Running
<1>3. /\ FreeRefs # {} /\ DoAlloc(P, r, w)
      /\ sizebases' = [sizebases EXCEPT ![s] = <<r>> \o @] /\ allbase' = <<r>> \o allbase
      /\ mem' = Handed(mem, p) /\ step' = [step EXCEPT ![t] = "outside"]
      /\ want' = [want EXCEPT ![t] = 0] /\ page' = [page EXCEPT ![t] = 0]
  BY DEF NewPage, Goto
<1>4. MemInv(mem') /\ mem'.used_blks = mem.used_blks /\ (p = 0 => mem'.down)
  BY <1>2, <1>3, HandedFacts
<1> SUFFICES ASSUME p # 0
             PROVE  /\ ThreadInv' /\ RefsInv(pagerefs, sizebases, allbase)'
                    /\ LiveInv(pagerefs, live)' /\ OwnInv(ToSet(mem.used_blks), pagerefs, live, page)'
  BY <1>4 DEF KmInv
<1>5. p \in Nat /\ w \in Nat \ {0} /\ w \in Nat /\ w < LARGEST_SUBPAGE_SIZE /\ Block(p, 1) \in U
  BY <1>1, <1>2, KmallocAssumption DEF ThreadInv
<1>6. s \in Sizes /\ w <= s
  BY <1>5, BlocktypeFacts
<1>7. r \in Ref /\ pagerefs[r] = NONE
  <2>1. FreeRefs \in SUBSET Nat
    BY KmallocAssumption DEF FreeRefs, Ref
  <2>2. r \in FreeRefs
    BY <1>3, <2>1, MinOfNats
  <2> QED
    BY <2>2 DEF FreeRefs
<1> HIDE DEF s, r, F
<1>8. RefList(F) /\ F.page = p /\ F.blktype = s /\ F.nfree > 0 /\ ToSet(F.freelist) = Offsets(s)
  BY <1>5, <1>6, FreshFacts DEF F
<1> HIDE DEF p, w
<1>9. F \in Rec
  BY <1>8 DEF RefList
<1>10. pagerefs \in [Ref -> Rec \cup {NONE}]
  BY <1>2 DEF RefsInv
<1>11. P \in [Ref -> Rec \cup {NONE}] /\ P[r] = F /\ \A q \in Ref : q # r => P[q] = pagerefs[q]
  BY <1>7, <1>9, <1>10
<1> HIDE DEF P
<1> DEFINE e == NewFree(F, F.nfree - 1, Tail(F.freelist))
           b == [addr |-> F.page * PAGE_SIZE + Head(F.freelist), size |-> w]
<1>12. /\ pagerefs' \in [Ref -> Rec \cup {NONE}] /\ pagerefs'[r] = e
       /\ \A q \in Ref : q # r => pagerefs'[q] = pagerefs[q]
       /\ live' = live \cup {b}
  <2>1. RefList(P[r]) /\ P[r].nfree > 0
    BY <1>8, <1>11
  <2>2. /\ pagerefs' \in [Ref -> Rec \cup {NONE}]
        /\ \A q \in Ref : q # r => pagerefs'[q] = P[q]
        /\ pagerefs'[r] = NewFree(P[r], P[r].nfree - 1, Tail(P[r].freelist))
        /\ live' = live \cup {[addr |-> P[r].page * PAGE_SIZE + Head(P[r].freelist), size |-> w]}
    BY <1>3, <1>7, <1>11, <2>1, DoAllocFacts
  <2> QED
    BY <1>11, <2>2
<1>13. \A c \in live : Pg(c.addr) # p
  BY <1>2 DEF OwnInv, p
<1>14. OnPage(F, live) /\ live \subseteq LiveRec
  BY <1>2, <1>8, <1>13 DEF OnPage, LiveInv
<1>15. b = [addr |-> F.page * PAGE_SIZE + Head(F.freelist), size |-> w] /\ e = NewFree(F, F.nfree - 1, Tail(F.freelist))
  OBVIOUS
<1> HIDE DEF e, b
<1>16. w <= F.blktype /\ w \in Nat \ {0}
  BY <1>5, <1>6, <1>8
<1>17. /\ RefOK(e) /\ e.page = F.page /\ e.blktype = F.blktype
       /\ b \in LiveRec /\ Pg(b.addr) = F.page /\ \A c \in live : c.addr # b.addr
       /\ OnPage(e, live \cup {b})
  BY ONLY <1>8, <1>14, <1>15, <1>16, TakeOne
<1>18. \A q \in Used(pagerefs) : pagerefs[q].page # p
  BY <1>2 DEF OwnInv, p
<1> DEFINE R == pagerefs
           Q == pagerefs'
           S == sizebases
           T == sizebases'
           A == allbase
           L == live
           M == live \cup {b}
<1>19. T \in [Sizes -> Seq(Ref)] /\ T[s] = <<r>> \o S[s] /\ \A x \in Sizes : x # s => T[x] = S[x]
  <2>1. S \in [Sizes -> Seq(Ref)]
    BY <1>2 DEF RefsInv
  <2>2. <<r>> \o S[s] \in Seq(Ref)
    BY <1>6, <1>7, <2>1
  <2> QED
    BY <1>3, <1>6, <2>1, <2>2
<1>20. /\ RefsInv(Q, T, <<r>> \o A) /\ Used(Q) = Used(R) \cup {r}
       /\ Q[r] = e /\ \A q \in Used(R) : Q[q] = R[q] /\ q # r
  <2>1. RefsInv(R, S, A) /\ R[r] = NONE /\ s = e.blktype /\ NoRef(R, e.page)
    BY <1>2, <1>7, <1>8, <1>17, <1>18 DEF NoRef
  <2>2. Q \in [Ref -> Rec \cup {NONE}] /\ Changed(Ref, R, Q, r, e)
    BY <1>12 DEF Changed
  <2>3. RefOK(e) /\ r \in Ref
    BY <1>7, <1>17
  <2>4. T \in [Sizes -> Seq(Ref)] /\ Changed(Sizes, S, T, s, <<r>> \o S[s])
    BY <1>19 DEF Changed
  <2> HIDE DEF R, Q, S, T, A
  <2> QED
    BY ONLY <2>1, <2>2, <2>3, <2>4, RefAdded
<1>21. LiveInv(Q, M)
  <2>1. SameRefs(R, Q, r, e)
    BY <1>8, <1>17, <1>18, <1>20 DEF SameRefs
  <2>2. Distinct(M)
    BY <1>2, <1>17 DEF LiveInv, Distinct
  <2>3. SameBlocks(L, M, e.page)
    BY <1>17 DEF SameBlocks
  <2>4. OnPage(e, M) /\ LiveInv(R, L)
    BY <1>2, <1>17
  <2> HIDE DEF R, Q, M, L
  <2> QED
    BY <2>1, <2>2, <2>3, <2>4, LiveChanged
<1> DEFINE K == page'
           H == page
<1>22. K \in [Thread -> Nat] /\ K[t] = 0 /\ \A x \in Thread : x # t => K[x] = H[x]
  BY <1>2, <1>3
<1>23. OwnInv(U, Q, M, K)
  <2>1. /\ OwnInv(U, R, L, H) /\ H \in [Thread -> Nat] /\ H[t] = p /\ p # 0
        /\ Block(p, 1) \in U /\ \A u \in U : u.addr # 0
    BY <1>2, <1>5 DEF p
  <2>2. Used(Q) = Used(R) \cup {r} /\ Q[r].page = p /\ (\A q \in Used(R) : Q[q] = R[q]) /\ Pg(b.addr) = p
    BY <1>8, <1>17, <1>20
  <2>3. M = L \cup {b}
    OBVIOUS
  <2> HIDE DEF U, R, Q, M, L, H, K
  <2> QED
    BY <1>22, <2>1, <2>2, <2>3, OwnEntered
<1>24. ThreadInv'
  <2>1. /\ step' \in [Thread -> Steps]
        /\ step'[t] = "outside" /\ \A x \in Thread : x # t => step'[x] = step[x]
    BY <1>2, <1>3 DEF ThreadInv, Steps
  <2>2. want' \in [Thread -> Requests \cup {0}] /\ \A x \in Thread : x # t => want'[x] = want[x]
    BY <1>2, <1>3 DEF ThreadInv
  <2> QED
    BY <1>2, <1>4, <1>22, <2>1, <2>2 DEF ThreadInv
<1> QED
  BY <1>3, <1>4, <1>12, <1>20, <1>21, <1>23, <1>24

\* The page reference subpage_kfree finds.
LEMMA HolderFacts ==
  ASSUME RefsInv(pagerefs, sizebases, allbase), NEW b
  PROVE  /\ Holders(b.addr) = {} <=> ~Small(pagerefs, b)
         /\ Holders(b.addr) # {} =>
              /\ allbase[Min(Holders(b.addr))] \in Used(pagerefs)
              /\ pagerefs[allbase[Min(Holders(b.addr))]].page = Pg(b.addr)
<1>1. /\ allbase \in Seq(Ref) /\ ToSet(allbase) = Used(pagerefs)
      /\ \A x : x \in ToSet(allbase) <=> \E i \in 1 .. Len(allbase) : allbase[i] = x
  <2>1. allbase \in Seq(Ref) /\ ToSet(allbase) = Used(pagerefs)
    BY DEF RefsInv
  <2> QED
    BY <2>1, Elements
<1>2. \A i : i \in Holders(b.addr) <=> i \in 1 .. Len(allbase) /\ pagerefs[allbase[i]].page = Pg(b.addr)
  BY <1>1 DEF Holders, Pg
<1>3. Holders(b.addr) # {} => Min(Holders(b.addr)) \in Holders(b.addr)
  <2>1. Holders(b.addr) \in SUBSET Nat
    BY <1>1, <1>2
  <2> QED
    BY <2>1, MinOfNats
<1>4. Small(pagerefs, b) <=> \E i \in 1 .. Len(allbase) : pagerefs[allbase[i]].page = Pg(b.addr)
  BY <1>1 DEF Small
<1> QED
  BY <1>1, <1>2, <1>3, <1>4

LEMMA SubpageKfreeStep ==
  ASSUME KmInv, NEW t \in Thread, NEW b \in live, SubpageKfree(t, b)
  PROVE  KmInv'
<1> DEFINE U == ToSet(mem.used_blks)
           r == allbase[Min(Holders(b.addr))]
           pr == pagerefs[r]
           e == NewFree(pr, pr.nfree + 1, <<Off(b.addr)>> \o pr.freelist)
           P == pagerefs
           S == sizebases
           A == allbase
           L == live
           M == live \ {b}
           H == page
<1>1. ~mem.down /\ step[t] = "outside"
  BY DEF SubpageKfree, At
<1>2. /\ MemInv(mem) /\ ThreadInv /\ RefsInv(P, S, A)
      /\ LiveInv(P, L) /\ OwnInv(U, P, L, H)
      /\ H \in [Thread -> Nat] /\ \A u \in U : u.addr # 0
  BY <1>1, Running
<1>3. /\ Holders(b.addr) # {} /\ live' = M /\ mem' = mem /\ want' = want
      /\ \/ /\ WholePageFree(e)
            /\ pagerefs' = [P EXCEPT ![r] = NONE]
            /\ sizebases' = [S EXCEPT ![e.blktype] = Drop(@, r)]
            /\ allbase' = Drop(A, r)
            /\ page' = [H EXCEPT ![t] = e.page]
            /\ step' = [step EXCEPT ![t] = "giveback"]
         \/ /\ ~WholePageFree(e)
            /\ pagerefs' = [P EXCEPT ![r] = e]
            /\ sizebases' = S /\ allbase' = A /\ page' = H /\ step' = step
  BY DEF SubpageKfree, Goto, NewFree, Off
<1>4. r \in Used(P) /\ pr.page = Pg(b.addr)
  BY <1>2, <1>3, HolderFacts
<1>5. /\ RefOK(pr) /\ OnPage(pr, L) /\ L \subseteq LiveRec /\ b \in L
      /\ \A c, d \in L : c.addr = d.addr => c = d
  BY <1>2, <1>4 DEF RefsInv, LiveInv
<1>6. e = NewFree(pr, pr.nfree + 1, <<Off(b.addr)>> \o pr.freelist) /\ pr = P[r]
  OBVIOUS
<1>7. /\ P \in [Ref -> Rec \cup {NONE}] /\ r \in Ref
      /\ \A q \in Used(P) : P[q].page = P[r].page => q = r
  BY <1>2, <1>4 DEF RefsInv, Used
<1> HIDE DEF r, pr, e, U
<1>8. RefList(e) /\ e.page = pr.page /\ e.blktype = pr.blktype /\ OnPage(e, L \ {b})
  BY <1>4, <1>5, <1>6, GiveOne
<1>9. Distinct(M)
  BY <1>5 DEF Distinct
<1>10. SameBlocks(L, M, e.page)
  BY <1>4, <1>8 DEF SameBlocks
<1>11. e \in Rec /\ e # NONE /\ e.page \in Nat /\ e.blktype \in Sizes
  BY <1>8, RefFields DEF RefList
<1>12. Small(P, b)
  BY <1>4, <1>6 DEF Small
<1>13. CASE ~WholePageFree(e)
  <2> DEFINE Q == pagerefs'
  <2>1. Q = [P EXCEPT ![r] = e] /\ sizebases' = S /\ allbase' = A /\ page' = H /\ step' = step
    BY <1>3, <1>13
  <2>2. Q \in [Ref -> Rec \cup {NONE}] /\ Q[r] = e /\ \A q \in Ref : q # r => Q[q] = P[q]
    BY <1>7, <1>11, <2>1
  <2>3. RefOK(e)
    BY <1>8, <1>13, WholePage DEF RefOK
  <2> HIDE DEF Q
  <2>4. e.page = P[r].page /\ e.blktype = P[r].blktype
    BY <1>6, <1>8
  <2>5. /\ RefsInv(Q, S, A) /\ Used(Q) = Used(P)
        /\ \A q \in Used(P) : Q[q].page = P[q].page
    <3>1. Q \in [Ref -> Rec \cup {NONE}] /\ Changed(Ref, P, Q, r, e)
      BY <2>2 DEF Changed
    <3> QED
      BY ONLY <1>2, <1>4, <2>3, <2>4, <3>1, RefChanged
  <2>6. OwnInv(U, Q, M, H)
    <3>1. /\ \A c \in M : c \in L \/ Small(P, c)
          /\ \A c \in L : c \in M \/ Small(P, c)
      BY <1>12
    <3> QED
      BY <1>2, <2>5, <3>1, OwnSame
  <2>7. SameRefs(P, Q, r, e)
    <3>1. Used(P) \subseteq Ref
      BY DEF Used
    <3> QED
      BY <1>7, <2>2, <2>4, <2>5, <3>1 DEF SameRefs
  <2>8. LiveInv(Q, M)
    BY <1>2, <1>8, <1>9, <1>10, <2>7, LiveChanged
  <2>9. ThreadInv'
    BY <1>2, <1>3, <2>1 DEF ThreadInv
  <2> QED
    BY <1>2, <1>3, <2>1, <2>5, <2>6, <2>8, <2>9 DEF KmInv, Q, U
<1>14. CASE WholePageFree(e)
  <2> DEFINE Q == pagerefs'
             T == sizebases'
             K == page'
             s == e.blktype
             p == e.page
  <2>1. /\ Q = [P EXCEPT ![r] = NONE] /\ T = [S EXCEPT ![s] = Drop(@, r)] /\ allbase' = Drop(A, r)
        /\ K = [H EXCEPT ![t] = p] /\ step' = [step EXCEPT ![t] = "giveback"]
    BY <1>3, <1>14
  <2>2. Q \in [Ref -> Rec \cup {NONE}] /\ Q[r] = NONE /\ \A q \in Ref : q # r => Q[q] = P[q]
    BY <1>7, <2>1
  <2>3. T \in [Sizes -> Seq(Ref)] /\ T[s] = Drop(S[s], r) /\ \A x \in Sizes : x # s => T[x] = S[x]
    <3>1. S \in [Sizes -> Seq(Ref)] /\ IsInjective(S[s])
      BY <1>2, <1>11 DEF RefsInv
    <3>2. Drop(S[s], r) \in Seq(Ref)
      BY <1>11, <3>1, DropFacts
    <3> QED
      BY <1>11, <2>1, <3>1, <3>2
  <2>4. s = P[r].blktype /\ p = P[r].page /\ p \in Nat /\ p = Pg(b.addr)
    BY <1>4, <1>6, <1>8, <1>11
  <2>5. K \in [Thread -> Nat] /\ K[t] = p /\ \A x \in Thread : x # t => K[x] = H[x]
    BY <1>2, <2>1, <2>4
  <2> HIDE DEF Q, T, K, s
  <2>6. /\ RefsInv(Q, T, Drop(A, r)) /\ Used(Q) = Used(P) \ {r}
        /\ \A q \in Used(Q) : Q[q] = P[q] /\ q # r
    <3>1. Q \in [Ref -> Rec \cup {NONE}] /\ Changed(Ref, P, Q, r, NONE)
      BY <2>2 DEF Changed
    <3>2. T \in [Sizes -> Seq(Ref)] /\ Changed(Sizes, S, T, s, Drop(S[s], r))
      BY <2>3 DEF Changed
    <3> QED
      BY ONLY <1>2, <1>4, <2>4, <3>1, <3>2, RefRemoved
  <2>7. \A c \in M : Pg(c.addr) # p
    <3>1. ToSet(e.freelist) = Offsets(e.blktype)
      BY <1>8, <1>14, WholePage
    <3> QED
      BY <1>8, <3>1 DEF OnPage
  <2> HIDE DEF p
  <2>8. SameRefs(P, Q, r, e)
    <3>1. r \notin Used(Q) /\ Used(Q) \subseteq Used(P) /\ \A q \in Used(Q) : q # r /\ Q[q] = P[q]
      BY <2>6
    <3>2. \A q \in Used(Q) : P[q].page # e.page
      BY <1>7, <2>4, <3>1 DEF p
    <3> QED
      BY <3>1, <3>2 DEF SameRefs
  <2>9. LiveInv(Q, M)
    BY <1>2, <1>8, <1>9, <1>10, <2>8, LiveChanged
  <2>10. H[t] = 0
    BY <1>1, <1>2 DEF ThreadInv
  <2>11. OwnInv(U, Q, M, K)
    <3>1. \A q \in Used(P) : P[q].page = p => q = r
      BY <1>7, <2>4
    <3>2. P[r].page = p /\ Pg(b.addr) = p /\ p \in Nat /\ \A c \in L \ {b} : Pg(c.addr) # p
      BY <2>4, <2>7
    <3>3. Used(Q) = Used(P) \ {r} /\ \A q \in Used(Q) : Q[q] = P[q]
      BY <2>6
    <3>4. M = L \ {b}
      OBVIOUS
    <3> HIDE DEF P, L, H, S, A, M
    <3> QED
      BY <1>2, <1>4, <2>5, <2>10, <3>1, <3>2, <3>3, <3>4, OwnLeft
  <2>12. ThreadInv'
    <3>1. /\ step' \in [Thread -> Steps]
          /\ step'[t] = "giveback" /\ \A x \in Thread : x # t => step'[x] = step[x]
      BY <1>2, <2>1 DEF ThreadInv, Steps
    <3>2. \A x \in Thread : x # t => page'[x] = page[x]
      BY <2>5 DEF K
    <3> QED
      BY <1>2, <1>3, <2>5, <3>1, <3>2 DEF ThreadInv, K
  <2> QED
    BY <1>2, <1>3, <2>1, <2>6, <2>9, <2>11, <2>12 DEF KmInv, Q, T, K, U
<1> QED
  BY <1>13, <1>14

LEMMA KfreePagesStep ==
  ASSUME KmInv, NEW t \in Thread, NEW b \in live, KfreePages(t, b)
  PROVE  KmInv'
<1> DEFINE U == ToSet(mem.used_blks)
           P == pagerefs
           L == live
           H == page
           K == page'
           p == Pg(b.addr)
<1>1. ~mem.down /\ step[t] = "outside" /\ Holders(b.addr) = {}
  BY DEF KfreePages, At
<1>2. /\ MemInv(mem) /\ ThreadInv /\ RefsInv(pagerefs, sizebases, allbase)
      /\ LiveInv(P, L) /\ OwnInv(U, P, L, H)
      /\ H \in [Thread -> Nat] /\ \A u \in U : u.addr # 0
  BY <1>1, Running
<1>3. /\ live' = L \ {b} /\ K = [H EXCEPT ![t] = p] /\ step' = [step EXCEPT ![t] = "giveback"]
      /\ mem' = mem /\ pagerefs' = pagerefs /\ sizebases' = sizebases /\ allbase' = allbase
      /\ want' = want
  BY DEF KfreePages, Goto, refVars, Pg
<1>4. ~Small(P, b)
  BY <1>1, <1>2, HolderFacts
<1>5. L \subseteq LiveRec /\ \A c, d \in L : c.addr = d.addr => c = d
  BY <1>2 DEF LiveInv
<1>6. p \in Nat
  BY <1>5, Divided DEF LiveRec
<1>7. K \in [Thread -> Nat] /\ K[t] = p /\ \A x \in Thread : x # t => K[x] = H[x]
  BY <1>2, <1>3, <1>6
<1>8. H[t] = 0
  BY <1>1, <1>2 DEF ThreadInv
<1>9. OwnInv(U, P, L \ {b}, K)
  <2> HIDE DEF U, P, L, H, K
  <2>1. b \in L
    BY DEF L
  <2> QED
    BY <1>2, <1>4, <1>5, <1>7, <1>8, <2>1, OwnFreed
<1>10. LiveInv(P, L \ {b})
  <2>1. \A r \in Used(P) : OnPage(P[r], L \ {b})
    BY <1>2, <1>4, OtherPage DEF LiveInv, Small
  <2> QED
    BY <1>2, <2>1 DEF LiveInv
<1>11. ThreadInv'
  <2>1. /\ step' \in [Thread -> Steps]
        /\ step'[t] = "giveback" /\ \A x \in Thread : x # t => step'[x] = step[x]
    BY <1>2, <1>3 DEF ThreadInv, Steps
  <2> QED
    BY <1>2, <1>3, <1>7, <2>1 DEF ThreadInv
<1> QED
  BY <1>2, <1>3, <1>9, <1>10, <1>11 DEF KmInv

LEMMA GiveBackStep ==
  ASSUME KmInv, ~raced, NEW t \in Thread, GiveBack(t)
  PROVE  KmInv'
<1> DEFINE U == ToSet(mem.used_blks)
           m == free_ppages(mem, page[t])
           V == ToSet(m.used_blks)
           H == page
           K == page'
<1>1. ~mem.down /\ step[t] = "relink"
  BY DEF GiveBack, At
<1>2. /\ MemInv(mem) /\ ThreadInv /\ RefsInv(pagerefs, sizebases, allbase)
      /\ LiveInv(pagerefs, live) /\ OwnInv(U, pagerefs, live, H)
      /\ H \in [Thread -> Nat] /\ \A u \in U : u.addr # 0
  BY <1>1, Running
<1>3. /\ mem' = m /\ K = [H EXCEPT ![t] = 0] /\ step' = [step EXCEPT ![t] = "outside"]
      /\ pagerefs' = pagerefs /\ sizebases' = sizebases /\ allbase' = allbase
      /\ want' = want /\ live' = live
  BY DEF GiveBack, Freed, Goto, refVars
<1>4. MemInv(m) /\ \A u : u \in V <=> u \in U /\ u.addr # H[t]
  BY <1>2, FreeFacts
<1> HIDE DEF m
<1>5. K \in [Thread -> Nat] /\ K[t] = 0 /\ \A x \in Thread : x # t => K[x] = H[x]
  BY <1>2, <1>3
<1>6. OwnInv(V, pagerefs, live, K)
  <2> HIDE DEF U, V, H, K
  <2> QED
    BY <1>2, <1>4, <1>5, OwnBack
<1>7. ThreadInv'
  <2>1. /\ step' \in [Thread -> Steps]
        /\ step'[t] = "outside" /\ \A x \in Thread : x # t => step'[x] = step[x]
    BY <1>2, <1>3 DEF ThreadInv, Steps
  <2>2. ASSUME NEW x \in Thread, step'[x] = "newpage", page'[x] # 0
        PROVE  Block(page'[x], 1) \in V
    <3>1. x # t /\ page'[x] = H[x] /\ step[x] = "newpage"
      BY <1>5, <2>1, <2>2
    <3>2. Block(H[x], 1) \in U /\ H[x] # 0
      BY <1>2, <2>2, <3>1 DEF ThreadInv
    <3>3. H[x] # H[t]
      BY <1>2, <3>1, <3>2 DEF OwnInv
    <3>4. Block(H[x], 1).addr = H[x]
      BY DEF Block
    <3> QED
      BY <1>4, <3>1, <3>2, <3>3, <3>4
  <2> QED
    BY <1>2, <1>3, <1>5, <2>1, <2>2 DEF ThreadInv
<1> QED
  BY <1>2, <1>3, <1>4, <1>6, <1>7 DEF KmInv

-----------------------------------------------------------------------------
(* The invariant and what it says *)

LEMMA KmInit == Init => UntilRaced
<1> SUFFICES ASSUME Init PROVE KmInv
  BY DEF Init, UntilRaced
<1>1. MemInv(mem) /\ ToSet(mem.used_blks) = {}
  BY BootFacts DEF Init
<1>2. /\ pagerefs = [r \in Ref |-> NONE] /\ sizebases = [b \in Sizes |-> <<>>] /\ allbase = <<>>
      /\ step = [t \in Thread |-> "outside"] /\ want = [t \in Thread |-> 0]
      /\ page = [t \in Thread |-> 0] /\ live = {}
  BY DEF Init
<1>3. Used(pagerefs) = {}
  BY <1>2 DEF Used
<1>4. ThreadInv
  BY <1>2 DEF ThreadInv, Steps
<1>5. <<>> \in Seq(Ref) /\ ToSet(<<>>) = {} /\ IsInjective(<<>>)
  BY DEF ToSet, IsInjective
<1>6. RefsInv(pagerefs, sizebases, allbase)
  <2>1. /\ pagerefs \in [Ref -> Rec \cup {NONE}] /\ sizebases \in [Sizes -> Seq(Ref)]
        /\ \A s \in Sizes : sizebases[s] = <<>>
    BY <1>2, <1>5
  <2> QED
    BY <1>2, <1>3, <1>5, <2>1 DEF RefsInv
<1>7. LiveInv(pagerefs, live)
  BY <1>2, <1>3 DEF LiveInv
<1>8. OwnInv(ToSet(mem.used_blks), pagerefs, live, page)
  BY <1>1, <1>2, <1>3 DEF OwnInv
<1> QED
  BY <1>1, <1>4, <1>6, <1>7, <1>8 DEF KmInv

\* raced stays as it is, or becomes TRUE when a call enters the page allocator.
LEMMA RacedStays ==
  ASSUME raced \in BOOLEAN, [Next]_vars
  PROVE  raced' \in BOOLEAN /\ (raced => raced')
<1>1. raced' = raced \/ \E t \in Thread : raced' = (raced \/ \E u \in Thread \ {t} : InPager(u))
  BY DEF vars, Next, kmalloc, kfree, KmallocPages, SubpageHit, SubpageMiss, TakePages, AskPage, GetPage, NewPage,
         NoPageref, SubpageKfree, KfreePages, CallFree, GiveBack, FindPages, Enter
<1> QED
  BY <1>1

LEMMA KmStep == UntilRaced /\ [Next]_vars => UntilRaced'
<1> SUFFICES ASSUME UntilRaced, [Next]_vars, ~raced' PROVE KmInv'
  BY RacedStays DEF UntilRaced
<1>0. KmInv /\ ~raced
  BY RacedStays DEF UntilRaced
<1>1. CASE Next
  <2>1. PICK t \in Thread :
           \/ \E sz \in Requests : kmalloc(t, sz)
           \/ \E b \in live : kfree(t, b)
           \/ TakePages(t) \/ AskPage(t) \/ GetPage(t) \/ NewPage(t) \/ NoPageref(t)
           \/ CallFree(t) \/ GiveBack(t)
    BY <1>1 DEF Next
  <2>2. CASE \E sz \in Requests : kmalloc(t, sz)
    BY <1>0, <2>2, KmallocPagesStep, SubpageHitStep, SubpageMissStep DEF kmalloc
  <2>3. CASE \E b \in live : kfree(t, b)
    BY <1>0, <2>3, SubpageKfreeStep, KfreePagesStep DEF kfree
  <2>4. CASE TakePages(t) \/ AskPage(t) \/ GetPage(t)
    BY <1>0, <2>4, TakePagesStep, AskPageStep, GetPageStep
  <2>5. CASE NewPage(t) \/ NoPageref(t)
    BY <1>0, <2>5, NewPageStep, NoPagerefStep
  <2>6. CASE CallFree(t) \/ GiveBack(t)
    BY <1>0, <2>6, CallFreeStep, GiveBackStep
  <2> QED
    BY <2>1, <2>2, <2>3, <2>4, <2>5, <2>6
<1>2. CASE UNCHANGED vars
  <2>1. /\ mem' = mem /\ pagerefs' = pagerefs /\ sizebases' = sizebases /\ allbase' = allbase
        /\ step' = step /\ want' = want /\ page' = page /\ live' = live
    BY <1>2 DEF vars
  <2> QED
    BY <1>0, <2>1 DEF KmInv, ThreadInv
<1> QED
  BY <1>1, <1>2

\* The bytes of a block in use are on the pages of one used block.
LEMMA BlockPages ==
  ASSUME KmInv, ~mem.down, NEW b \in live
  PROVE  /\ b.addr \in Nat /\ b.size \in Nat /\ b.size >= 1
         /\ \E u \in ToSet(mem.used_blks) : u.addr = Pg(b.addr) /\ \A x \in BytesOf(b) : Pg(x) \in PagesOf(u)
<1> DEFINE U == ToSet(mem.used_blks)
           p == Pg(b.addr)
           o == Off(b.addr)
<1>1. /\ RefsInv(pagerefs, sizebases, allbase)
      /\ LiveInv(pagerefs, live) /\ OwnInv(U, pagerefs, live, page)
  BY Running
<1>2. b.addr \in Nat /\ b.size \in Nat \ {0} /\ b.size \in Nat /\ b.size >= 1
  BY <1>1 DEF LiveInv, LiveRec
<1>3. p \in Nat /\ o \in Nat /\ b.addr = p * PAGE_SIZE + o /\ p * PAGE_SIZE \in Nat
  BY <1>2, Divided, PageSize, Times
<1>4. ASSUME NEW n \in Nat, Block(p, n) \in U, n >= 1, o + b.size <= n * PAGE_SIZE
      PROVE  \E u \in U : u.addr = p /\ \A x \in BytesOf(b) : Pg(x) \in PagesOf(u)
  <2>1. Block(p, n).addr = p /\ PagesOf(Block(p, n)) = p .. p + n - 1
    BY DEF Block, PagesOf
  <2>2. (p + n) * PAGE_SIZE = p * PAGE_SIZE + n * PAGE_SIZE /\ n * PAGE_SIZE \in Nat
    BY <1>3, PageSize, Times
  <2>3. ASSUME NEW x \in BytesOf(b) PROVE Pg(x) \in p .. p + n - 1
    <3>1. x \in Nat /\ b.addr <= x /\ x < b.addr + b.size
      BY <1>2 DEF BytesOf
    <3> DEFINE pp == p * PAGE_SIZE
               nn == n * PAGE_SIZE
               ee == (p + n) * PAGE_SIZE
    <3>2. pp \in Nat /\ nn \in Nat /\ ee = pp + nn /\ b.addr = pp + o /\ o + b.size <= nn
      BY <1>3, <1>4, <2>2
    <3> HIDE DEF pp, nn, ee, p, o
    <3>3. pp <= x /\ x < ee
      BY <1>2, <1>3, <3>1, <3>2
    <3> QED
      BY <1>3, <3>1, <3>3, OnPages DEF pp, ee
  <2> QED
    BY <1>4, <2>1, <2>3
<1> HIDE DEF p, o
<1>5. CASE Small(pagerefs, b)
  <2>1. PICK r \in Used(pagerefs) : pagerefs[r].page = p
    BY <1>5 DEF Small, p
  <2>2. RefOK(pagerefs[r]) /\ OnPage(pagerefs[r], live) /\ Block(p, 1) \in U
    BY <1>1, <2>1 DEF RefsInv, LiveInv, OwnInv
  <2> DEFINE pr == pagerefs[r]
  <2>3. RefOK(pr) /\ OnPage(pr, live) /\ pr.page = p
    BY <2>1, <2>2
  <2> HIDE DEF pr
  <2>4. pr.blktype \in Sizes /\ o \in Offsets(pr.blktype) /\ b.size <= pr.blktype
    BY <2>3, RefFields DEF RefOK, RefList, OnPage, p, o
  <2>5. o + pr.blktype <= PAGE_SIZE /\ pr.blktype \in Nat
    BY <2>4, OffsetsFacts, SizesFacts
  <2>6. o + b.size <= 1 * PAGE_SIZE
    BY <1>2, <1>3, <2>4, <2>5, PageSize
  <2> QED
    BY <1>2, <1>4, <2>2, <2>6 DEF p
<1>6. CASE ~Small(pagerefs, b)
  <2>1. o = 0 /\ Block(p, NPages(b.size)) \in U
    BY <1>1, <1>6 DEF OwnInv, p, o
  <2>2. NPages(b.size) \in Nat /\ NPages(b.size) >= 1 /\ b.size <= NPages(b.size) * PAGE_SIZE
    BY <1>2, RoundedUp
  <2>3. o + b.size <= NPages(b.size) * PAGE_SIZE
    BY <1>2, <2>1, <2>2
  <2> QED
    BY <1>2, <1>4, <2>1, <2>2, <2>3 DEF p
<1> QED
  BY <1>5, <1>6

\* A page is in one used block, which is the one that starts there if any does.
LEMMA OneBlock ==
  ASSUME NEW m, MemInv(m), NEW u \in ToSet(m.used_blks), NEW v \in ToSet(m.used_blks)
  PROVE  /\ \A x : x \in PagesOf(u) /\ x \in PagesOf(v) => u = v
         /\ u.addr \in PagesOf(u) /\ PagesOf(u) \subseteq PagesIn(m.used_blks)
         /\ PagesOf(u) \cap PagesIn(m.free_blks) = {}
<1> DEFINE s == m.used_blks
<1>1. s \in Seq(Blk) /\ Sorted(s) /\ PagesIn(m.free_blks) = Page \ PagesIn(s)
  BY MemFacts
<1>2. PICK i \in 1 .. Len(s), j \in 1 .. Len(s) : u = s[i] /\ v = s[j]
  BY <1>1, InSet
<1>3. u \in Blk /\ v \in Blk
  BY <1>1, <1>2, ListFacts
<1>4. i # j => Apart(u, v)
  BY <1>1, <1>2, Below
<1>5. \A x : x \in PagesOf(u) /\ x \in PagesOf(v) => u = v
  BY <1>2, <1>3, <1>4, ApartPages
<1>6. u.addr \in PagesOf(u)
  BY <1>3, BlkFacts
<1>7. PagesOf(u) \subseteq PagesIn(s)
  BY PagesOfSet
<1> QED
  BY <1>1, <1>5, <1>6, <1>7

LEMMA Overlap == UntilRaced => BlocksDontOverlap
<1> SUFFICES ASSUME KmInv, ~mem.down
             PROVE  /\ \A a, b \in live : a # b => BytesOf(a) \cap BytesOf(b) = {}
                    /\ \A b \in live : PagesUnder(b) \cap PagesIn(mem.free_blks) = {}
  BY DEF BlocksDontOverlap, Sound, UntilRaced
<1> DEFINE U == ToSet(mem.used_blks)
<1>1. /\ MemInv(mem) /\ RefsInv(pagerefs, sizebases, allbase)
      /\ LiveInv(pagerefs, live) /\ OwnInv(U, pagerefs, live, page)
  BY Running
<1>2. ASSUME NEW a \in live, NEW b \in live, a # b, NEW x, x \in BytesOf(a), x \in BytesOf(b)
      PROVE  FALSE
  <2>1. /\ a.addr \in Nat /\ a.size \in Nat /\ a.size >= 1
        /\ b.addr \in Nat /\ b.size \in Nat /\ b.size >= 1
    BY BlockPages
  <2>2. PICK u \in U : u.addr = Pg(a.addr) /\ \A y \in BytesOf(a) : Pg(y) \in PagesOf(u)
    BY BlockPages
  <2>3. PICK v \in U : v.addr = Pg(b.addr) /\ \A y \in BytesOf(b) : Pg(y) \in PagesOf(v)
    BY BlockPages
  <2>4. u = v
    <3>1. Pg(x) \in PagesOf(u) /\ Pg(x) \in PagesOf(v)
      BY <1>2, <2>2, <2>3
    <3> QED
      BY <1>1, <3>1, OneBlock
  <2>5. Pg(a.addr) = Pg(b.addr)
    BY <2>2, <2>3, <2>4
  <2>6. a.addr # b.addr
    BY <1>1, <1>2 DEF LiveInv
  <2> DEFINE pp == Pg(a.addr) * PAGE_SIZE
  <2>7. /\ a.addr = pp + Off(a.addr) /\ b.addr = pp + Off(b.addr)
        /\ Off(a.addr) \in Nat /\ Off(b.addr) \in Nat
    BY <2>1, <2>5, Divided
  <2>8. pp \in Nat
    BY <2>1, Divided, PageSize, Times
  <2> HIDE DEF pp
  <2>9. CASE Small(pagerefs, a)
    <3>1. PICK r \in Used(pagerefs) : pagerefs[r].page = Pg(a.addr)
      BY <2>9 DEF Small
    <3> DEFINE pr == pagerefs[r]
    <3>2. RefOK(pr) /\ OnPage(pr, live) /\ pr.page = Pg(a.addr) /\ pr.page = Pg(b.addr)
      BY <1>1, <2>5, <3>1 DEF RefsInv, LiveInv
    <3> HIDE DEF pr
    <3>3. /\ pr.blktype \in Sizes /\ Off(a.addr) \in Offsets(pr.blktype) /\ a.size <= pr.blktype
          /\ Off(b.addr) \in Offsets(pr.blktype) /\ b.size <= pr.blktype
      BY <3>2, RefFields DEF RefOK, RefList, OnPage
    <3>4. /\ Off(a.addr) < Off(b.addr) => Off(a.addr) + pr.blktype <= Off(b.addr)
          /\ Off(b.addr) < Off(a.addr) => Off(b.addr) + pr.blktype <= Off(a.addr)
          /\ pr.blktype \in Nat
      BY <3>3, OffsetsFacts, SizesFacts
    <3>5. x \in Nat /\ a.addr <= x /\ x < a.addr + a.size /\ b.addr <= x /\ x < b.addr + b.size
      BY <1>2, <2>1 DEF BytesOf
    <3>6. Off(a.addr) # Off(b.addr)
      BY <2>6, <2>7
    <3> QED
      BY <2>1, <2>7, <2>8, <3>3, <3>4, <3>5, <3>6
  <2>10. CASE ~Small(pagerefs, a)
    <3>1. ~Small(pagerefs, b)
      BY <2>5, <2>10 DEF Small
    <3>2. Off(a.addr) = 0 /\ Off(b.addr) = 0
      BY <1>1, <2>10, <3>1 DEF OwnInv
    <3> QED
      BY <2>6, <2>7, <3>2
  <2> QED
    BY <2>9, <2>10
<1>3. ASSUME NEW b \in live, NEW x \in BytesOf(b) PROVE x \div PAGE_SIZE \notin PagesIn(mem.free_blks)
  <2>1. PICK u \in U : u.addr = Pg(b.addr) /\ \A y \in BytesOf(b) : Pg(y) \in PagesOf(u)
    BY BlockPages
  <2>2. Pg(x) \in PagesOf(u)
    BY <2>1
  <2>3. PagesOf(u) \cap PagesIn(mem.free_blks) = {}
    BY <1>1, OneBlock
  <2> QED
    BY <2>2, <2>3 DEF Pg
<1> QED
  BY <1>2, <1>3 DEF PagesUnder

LEMMA Agree == UntilRaced => ListsAgree
<1> SUFFICES ASSUME KmInv, ~mem.down PROVE ListsAgree
  BY DEF ListsAgree, Sound, UntilRaced
<1>1. /\ RefsInv(pagerefs, sizebases, allbase) /\ LiveInv(pagerefs, live)
  BY Running
<1>2. InUse = Used(pagerefs)
  BY DEF InUse, Used
<1>3. ASSUME NEW r \in InUse
      PROVE  LET pr == pagerefs[r]
                 used == {b.addr % PAGE_SIZE : b \in {x \in live : x.addr \div PAGE_SIZE = pr.page}}
             IN  /\ pr.nfree = Len(pr.freelist) /\ IsInjective(pr.freelist)
                 /\ used # {} /\ used \cap ToSet(pr.freelist) = {}
                 /\ used \cup ToSet(pr.freelist) = {i * pr.blktype : i \in 0 .. PerPage(pr.blktype) - 1}
  <2> DEFINE pr == pagerefs[r]
             used == {b.addr % PAGE_SIZE : b \in {x \in live : x.addr \div PAGE_SIZE = pr.page}}
             O == Offsets(pr.blktype)
             F == ToSet(pr.freelist)
  <2>1. RefOK(pr) /\ OnPage(pr, live)
    BY <1>1, <1>2 DEF RefsInv, LiveInv
  <2>2. pr.nfree = Len(pr.freelist) /\ IsInjective(pr.freelist) /\ F \subseteq O /\ F # O
    BY <2>1 DEF RefOK, RefList
  <2>3. \A x : x \in used <=> \E b \in live : Pg(b.addr) = pr.page /\ Off(b.addr) = x
    BY DEF Pg, Off
  <2>4. \A x : x \in used <=> x \in O /\ x \notin F
    BY <2>1, <2>3 DEF OnPage
  <2>5. O = {i * pr.blktype : i \in 0 .. PerPage(pr.blktype) - 1}
    BY DEF Offsets
  <2> HIDE DEF pr, used, O, F
  <2>6. used # {} /\ used \cap F = {} /\ used \cup F = O
    BY <2>2, <2>4
  <2> QED
    BY <2>2, <2>5, <2>6 DEF pr, used, O, F
<1>4. /\ ToSet(allbase) = InUse /\ IsInjective(allbase)
      /\ \A s \in Sizes : /\ IsInjective(sizebases[s])
                          /\ ToSet(sizebases[s]) = {r \in InUse : pagerefs[r].blktype = s}
  BY <1>1, <1>2 DEF RefsInv
<1> QED
  BY <1>3, <1>4 DEF ListsAgree

LEMMA NoneLost == UntilRaced => NoPageIsLost
<1> SUFFICES ASSUME UntilRaced, KmInv, ~mem.down PROVE NoPageIsLost
  BY DEF NoPageIsLost, Sound, UntilRaced
<1> DEFINE U == ToSet(mem.used_blks)
           P == pagerefs
           subpages == {pagerefs[r].page : r \in InUse}
           hands == {page[t] : t \in Thread} \ {0}
           large == UNION {PagesUnder(b) : b \in {x \in live : Holders(x.addr) = {}}}
<1>1. /\ MemInv(mem) /\ RefsInv(P, sizebases, allbase)
      /\ LiveInv(P, live) /\ OwnInv(U, P, live, page)
  BY Running
<1>2. InUse = Used(P)
  BY DEF InUse, Used
<1>3. \A b \in live : Holders(b.addr) = {} <=> ~Small(P, b)
  BY <1>1, HolderFacts
<1>4. \A x : x \in subpages <=> \E r \in Used(P) : x = P[r].page
  BY <1>2
<1>5. \A x : x \in hands <=> x # 0 /\ \E t \in Thread : x = page[t]
  OBVIOUS
<1>6. \A x : x \in large <=> \E b \in live : ~Small(P, b) /\ \E y \in BytesOf(b) : x = Pg(y)
  BY <1>3 DEF PagesUnder, Pg
<1> HIDE DEF subpages, hands, large
<1>7. ASSUME NEW x \in subpages \cup hands PROVE \E u \in U : u.addr = x /\ x \in PagesOf(u)
  <2>1. \E u \in U : u.addr = x
    <3>1. CASE x \in subpages
      BY <1>1, <1>4, <3>1, PgUsed
    <3>2. CASE x \in hands
      BY <1>1, <1>5, <3>2 DEF OwnInv
    <3> QED
      BY <3>1, <3>2
  <2> QED
    BY <1>1, <2>1, OneBlock
<1>8. ASSUME NEW x \in large
      PROVE  \E b \in live, u \in U : ~Small(P, b) /\ u.addr = Pg(b.addr) /\ x \in PagesOf(u)
  <2>1. PICK b \in live : ~Small(P, b) /\ \E y \in BytesOf(b) : x = Pg(y)
    BY <1>6
  <2>2. PICK u \in U : u.addr = Pg(b.addr) /\ \A y \in BytesOf(b) : Pg(y) \in PagesOf(u)
    BY BlockPages
  <2> QED
    BY <2>1, <2>2
<1>9. hands \cup large \cup subpages \subseteq PagesIn(mem.used_blks)
  <2>1. \A u \in U : PagesOf(u) \subseteq PagesIn(mem.used_blks)
    BY <1>1, OneBlock
  <2> QED
    BY <1>7, <1>8, <2>1
<1>10. {b.addr : b \in U} \subseteq hands \cup large \cup subpages
  <2> SUFFICES ASSUME NEW u \in U PROVE u.addr \in hands \cup large \cup subpages
    OBVIOUS
  <2>1. u.addr # 0
    BY <1>1, UsedFacts
  <2>2. CASE \E b \in live : ~Small(P, b) /\ Pg(b.addr) = u.addr
    <3>1. PICK b \in live : ~Small(P, b) /\ Pg(b.addr) = u.addr
      BY <2>2
    <3>2. b.addr \in BytesOf(b)
      <4>1. b.addr \in Nat /\ b.size \in Nat /\ b.size >= 1
        BY BlockPages
      <4> QED
        BY <4>1 DEF BytesOf
    <3> QED
      BY <1>6, <3>1, <3>2
  <2> QED
    BY <1>1, <1>4, <1>5, <2>1, <2>2 DEF OwnInv
<1>11. hands \cap subpages = {}
  BY <1>1, <1>4, <1>5 DEF OwnInv
<1>12. large \cap (hands \cup subpages) = {}
  <2> SUFFICES ASSUME NEW x \in large, x \in hands \cup subpages PROVE FALSE
    OBVIOUS
  <2>1. PICK u \in U : u.addr = x /\ x \in PagesOf(u)
    BY <1>7
  <2>2. PICK b \in live, v \in U : ~Small(P, b) /\ v.addr = Pg(b.addr) /\ x \in PagesOf(v)
    BY <1>8
  <2>3. u = v
    BY <1>1, <2>1, <2>2, OneBlock
  <2>4. x = Pg(b.addr)
    BY <2>1, <2>2, <2>3
  <2>5. CASE x \in hands
    BY <1>1, <1>5, <2>4, <2>5 DEF OwnInv
  <2>6. CASE x \in subpages
    BY <1>4, <2>2, <2>4, <2>6 DEF Small
  <2> QED
    BY <2>5, <2>6
<1>13. \A q, r \in InUse : pagerefs[q].page = pagerefs[r].page => q = r
  BY <1>1, <1>2 DEF RefsInv
<1>14. ListsAgree
  BY Agree
<1> QED
  BY <1>9, <1>10, <1>11, <1>12, <1>13, <1>14 DEF NoPageIsLost, hands, large, subpages

\* kmalloc and kfree, called by any number of threads, with the page allocator's
\* calls between the critical sections: as long as the kernel runs and no two calls
\* of the page allocator, which has no lock, have overlapped, blocks in use never
\* overlap and never lie on free pages, every page in use belongs to one page
\* reference, call or large block, and the lists agree with the blocks.
THEOREM KernelHeapStaysWhole == Spec => []KernelHeapIsWhole
<1>1. UntilRaced => KernelHeapIsWhole
  BY Overlap, NoneLost DEF KernelHeapIsWhole
<1> QED
  BY <1>1, KmInit, KmStep, PTL DEF Spec

-----------------------------------------------------------------------------
(* The user's heap: the invariant *)

HdrRec == [prev : Nat, next : Nat \ {0}, inuse : BOOLEAN]
GivenRec == [at : Nat \ {0}, bytes : Nat]

\* The headers h lead from 0 to top, without gaps, and each has the size of the block below.
Chain(h, top) ==
  /\ h \in [DOMAIN h -> HdrRec]
  /\ \A i \in DOMAIN h : i \in Nat /\ i < top
  /\ top # 0 => 0 \in DOMAIN h
  /\ \A i \in DOMAIN h : i + h[i].next = top \/ i + h[i].next \in DOMAIN h
  /\ \A i, k \in DOMAIN h : i < k => i + h[i].next <= k
  /\ \A i, k \in DOMAIN h : i + h[i].next = k => h[k].prev = h[i].next
  /\ \A k \in DOMAIN h : k # 0 => \E i \in DOMAIN h : i + h[i].next = k
  /\ 0 \in DOMAIN h => h[0].prev = 0

\* Two free blocks are neighbours only at the addresses S of the upper one.
FreeBut(h, S) ==
  \A i, k \in DOMAIN h : i + h[i].next = k /\ k \notin S => h[i].inuse = TRUE \/ h[k].inuse = TRUE

\* The blocks in use are those the program has, each large enough.
GivenInv(h, g) ==
  /\ g \subseteq GivenRec
  /\ \A b \in g : /\ b.at - 1 \in DOMAIN h /\ h[b.at - 1].inuse = TRUE
                  /\ (h[b.at - 1].next - 1) * MBLOCKSIZE >= b.bytes
  /\ \A i \in DOMAIN h : h[i].inuse = TRUE => \E b \in g : b.at = i + 1
  /\ \A b, c \in g : b.at = c.at => b = c

MalInv ==
  /\ errxed = FALSE
  /\ heaptop \in Nat /\ heaptop <= HeapLimit
  /\ Chain(hdr, heaptop)
  /\ FreeBut(hdr, {})
  /\ GivenInv(hdr, given)

-----------------------------------------------------------------------------
(* Walking over the headers *)

LEMMA HdrFacts ==
  ASSUME NEW h, NEW top \in Nat, Chain(h, top), NEW i \in DOMAIN h
  PROVE  /\ i \in Nat /\ i < top /\ h[i].next \in Nat /\ h[i].next >= 1 /\ h[i].prev \in Nat
         /\ h[i].inuse \in BOOLEAN /\ h[i] \in HdrRec
         /\ i + h[i].next \in Nat /\ i + h[i].next <= top
         /\ i + h[i].next = top \/ i + h[i].next \in DOMAIN h
<1>1. h[i] \in HdrRec /\ i \in Nat /\ i < top
  BY DEF Chain
<1>2. h[i].next \in Nat /\ h[i].next >= 1 /\ h[i].prev \in Nat /\ h[i].inuse \in BOOLEAN
  BY <1>1 DEF HdrRec
<1>3. i + h[i].next = top \/ i + h[i].next \in DOMAIN h
  BY DEF Chain
<1>4. i + h[i].next \in DOMAIN h => i + h[i].next < top
  BY DEF Chain
<1> QED
  BY <1>1, <1>2, <1>3, <1>4

\* The addresses from i on: i itself and those from the next one on.
From(h, top, i) == {k \in DOMAIN h \cup {top} : k >= i}

LEMMA FromFacts ==
  ASSUME NEW h, NEW top \in Nat, Chain(h, top)
  PROVE  /\ \A i \in DOMAIN h : From(h, top, i) = {i} \cup From(h, top, i + h[i].next)
         /\ From(h, top, top) = {top}
         /\ From(h, top, 0) = DOMAIN h \cup {top} /\ 0 \in DOMAIN h \cup {top}
<1>1. \A i \in DOMAIN h : i \in Nat /\ i < top
  BY DEF Chain
<1>2. ASSUME NEW i \in DOMAIN h, NEW x PROVE x \in From(h, top, i) <=> x \in {i} \cup From(h, top, i + h[i].next)
  <2>1. i \in Nat /\ i < top /\ h[i].next \in Nat /\ h[i].next >= 1 /\ i + h[i].next <= top
    BY HdrFacts
  <2>2. \A k \in DOMAIN h : i < k => i + h[i].next <= k
    BY DEF Chain
  <2> DEFINE j == i + h[i].next
  <2>3. j \in Nat /\ i < j /\ j <= top /\ \A k \in DOMAIN h : i < k => j <= k
    BY <2>1, <2>2
  <2> HIDE DEF j
  <2>4. x \in From(h, top, i) <=> x \in {i} \cup From(h, top, j)
    BY <1>1, <2>1, <2>3 DEF From
  <2> QED
    BY <2>4 DEF j
<1>3. From(h, top, top) = {top}
  BY <1>1 DEF From
<1>4. From(h, top, 0) = DOMAIN h \cup {top}
  BY <1>1 DEF From
<1>5. 0 \in DOMAIN h \cup {top}
  BY DEF Chain
<1> QED
  BY <1>2, <1>3, <1>4, <1>5

LEMMA WalkEquation ==
  ASSUME heaptop \in Nat, heaptop <= HeapLimit, Chain(hdr, heaptop)
  PROVE  \A i \in 0 .. 2 * HeapLimit :
           Walk[i] = IF i >= heaptop \/ i \notin DOMAIN hdr THEN {i} ELSE {i} \cup Walk[i + hdr[i].next]
<1> DEFINE S == 0 .. 2 * HeapLimit
           Stop(i) == i >= heaptop \/ i \notin DOMAIN hdr
           Eq(f) == f = [i \in S |-> IF i >= heaptop \/ i \notin DOMAIN hdr THEN {i} ELSE {i} \cup f[i + hdr[i].next]]
           g == [i \in S |-> IF i >= heaptop \/ i \notin DOMAIN hdr THEN {i} ELSE From(hdr, heaptop, i)]
<1>1. Walk = CHOOSE f : Eq(f)
  BY DEF Walk
<1>2. Eq(g)
  <2>1. ASSUME NEW i \in S
        PROVE  g[i] = IF i >= heaptop \/ i \notin DOMAIN hdr THEN {i} ELSE {i} \cup g[i + hdr[i].next]
    <3>1. CASE i >= heaptop \/ i \notin DOMAIN hdr
      BY <3>1
    <3>2. CASE ~(i >= heaptop \/ i \notin DOMAIN hdr)
      <4> DEFINE j == i + hdr[i].next
      <4>1. i \in DOMAIN hdr /\ j \in Nat /\ j <= heaptop /\ (j = heaptop \/ j \in DOMAIN hdr)
        BY <3>2, HdrFacts
      <4>2. g[i] = From(hdr, heaptop, i)
        BY <3>2
      <4>3. g[i] = {i} \cup From(hdr, heaptop, j)
        BY <4>1, <4>2, FromFacts
      <4> HIDE DEF j
      <4>4. j \in S
        BY <4>1, MallocAssumption
      <4>5. g[j] = From(hdr, heaptop, j)
        <5>1. CASE j = heaptop
          <6>1. g[j] = {j}
            BY <4>1, <4>4, <5>1
          <6> QED
            BY <5>1, <6>1, FromFacts
        <5>2. CASE j # heaptop
          <6>1. ~(j >= heaptop \/ j \notin DOMAIN hdr)
            BY <4>1, <5>2
          <6> QED
            BY <4>4, <6>1
        <5> QED
          BY <5>1, <5>2
      <4> QED
        BY <3>2, <4>3, <4>5 DEF j
    <3> QED
      BY <3>1, <3>2
  <2> HIDE DEF S
  <2>2. g = [i \in S |-> g[i]]
    OBVIOUS
  <2> HIDE DEF g
  <2>3. [i \in S |-> g[i]] = [i \in S |-> IF i >= heaptop \/ i \notin DOMAIN hdr THEN {i} ELSE {i} \cup g[i + hdr[i].next]]
    BY <2>1
  <2> QED
    BY <2>2, <2>3
<1> HIDE DEF g
<1>3. Eq(Walk)
  <2> HIDE DEF Eq
  <2> QED
    BY <1>1, <1>2, Zenon
<1>4. Walk = [i \in S |-> IF i >= heaptop \/ i \notin DOMAIN hdr THEN {i} ELSE {i} \cup Walk[i + hdr[i].next]]
  BY <1>3
<1> DEFINE w == Walk
<1>5. w = [i \in S |-> IF i >= heaptop \/ i \notin DOMAIN hdr THEN {i} ELSE {i} \cup w[i + hdr[i].next]]
  BY <1>4
<1> HIDE DEF w, S
<1>6. \A i \in S : w[i] = IF i >= heaptop \/ i \notin DOMAIN hdr THEN {i} ELSE {i} \cup w[i + hdr[i].next]
  BY <1>5
<1> QED
  BY <1>6 DEF w, S

\* The loop of malloc looks at every block and ends at the top.
LEMMA WalkFacts ==
  ASSUME heaptop \in Nat, heaptop <= HeapLimit, Chain(hdr, heaptop)
  PROVE  Walk[0] = DOMAIN hdr \cup {heaptop} /\ Blocks = DOMAIN hdr
<1> DEFINE B == DOMAIN hdr \cup {heaptop}
           Bad == {n \in Nat : \E i \in B : n = heaptop - i /\ Walk[i] # From(hdr, heaptop, i)}
<1>1. \A i \in B : i \in Nat /\ i <= heaptop /\ i \in 0 .. 2 * HeapLimit
  BY MallocAssumption DEF Chain
<1>2. Bad = {}
  <2> SUFFICES ASSUME Bad # {} PROVE FALSE
    OBVIOUS
  <2> DEFINE n == Min(Bad)
  <2>1. n \in Bad /\ \A m \in Bad : n <= m
    <3>1. Bad \in SUBSET Nat
      OBVIOUS
    <3> HIDE DEF Bad
    <3> QED
      BY <3>1, MinOfNats
  <2> HIDE DEF n
  <2>2. PICK i \in B : n = heaptop - i /\ Walk[i] # From(hdr, heaptop, i)
    BY <2>1
  <2>3. n \in Nat
    BY <2>1
  <2>4. i # heaptop
    <3> SUFFICES ASSUME i = heaptop PROVE FALSE
      OBVIOUS
    <3>1. Walk[i] = {i}
      BY <1>1, WalkEquation
    <3> QED
      BY <2>2, <3>1, FromFacts
  <2>5. i \in DOMAIN hdr /\ i \in Nat /\ i < heaptop
    BY <1>1, <2>4
  <2> DEFINE j == i + hdr[i].next
  <2>6. j \in B /\ j \in Nat /\ i < j /\ j <= heaptop
    BY <2>5, HdrFacts
  <2>7. Walk[i] = {i} \cup Walk[j]
    <3>1. Walk[i] = IF i >= heaptop \/ i \notin DOMAIN hdr THEN {i} ELSE {i} \cup Walk[i + hdr[i].next]
      BY <1>1, WalkEquation
    <3> QED
      BY <2>5, <3>1
  <2>8. From(hdr, heaptop, i) = {i} \cup From(hdr, heaptop, j)
    BY <2>5, FromFacts
  <2> HIDE DEF j
  <2>9. Walk[j] # From(hdr, heaptop, j)
    BY <2>2, <2>7, <2>8
  <2>10. heaptop - j \in Nat /\ heaptop - j < n
    BY <2>2, <2>5, <2>6
  <2>11. heaptop - j \in Bad
    BY <2>6, <2>9, <2>10
  <2> QED
    BY <2>1, <2>3, <2>10, <2>11
<1>3. Walk[0] = From(hdr, heaptop, 0)
  <2>1. 0 \in B
    BY FromFacts
  <2>2. heaptop - 0 \in Nat
    OBVIOUS
  <2> SUFFICES ASSUME Walk[0] # From(hdr, heaptop, 0) PROVE FALSE
    OBVIOUS
  <2>3. heaptop - 0 \in Bad
    BY <2>1, <2>2
  <2> QED
    BY <1>2, <2>3
<1>4. Walk[0] = B
  BY <1>3, FromFacts
<1>5. heaptop \notin DOMAIN hdr
  BY DEF Chain
<1> QED
  BY <1>4, <1>5 DEF Blocks

\* The block below an address is the one that ends there.
LEMMA BelowFacts ==
  ASSUME heaptop \in Nat, heaptop <= HeapLimit, Chain(hdr, heaptop),
         NEW k \in DOMAIN hdr \cup {heaptop}, k # 0
  PROVE  \E i \in DOMAIN hdr : i + hdr[i].next = k /\ rightprevblock(k) = hdr[i].next
<1>1. \A i \in DOMAIN hdr : i \in Nat /\ i < heaptop
  BY DEF Chain
<1>2. k \in Nat /\ k <= heaptop
  BY <1>1
<1>3. \E i \in DOMAIN hdr : i + hdr[i].next = k
  <2>1. CASE k \in DOMAIN hdr
    BY <2>1 DEF Chain
  <2>2. CASE k = heaptop
    <3> DEFINE N == {heaptop - i : i \in DOMAIN hdr}
               n == Min(N)
    <3>1. N \in SUBSET Nat /\ 0 \in DOMAIN hdr
      BY <1>1, <2>2 DEF Chain
    <3>2. n \in N /\ \A m \in N : n <= m
      <4>1. heaptop - 0 \in N
        BY <3>1
      <4> HIDE DEF N
      <4> QED
        BY <3>1, <4>1, MinOfNats
    <3> HIDE DEF n
    <3>3. PICK i \in DOMAIN hdr : n = heaptop - i
      BY <3>2
    <3>4. \A j \in DOMAIN hdr : j <= i
      <4> SUFFICES ASSUME NEW j \in DOMAIN hdr PROVE j <= i
        OBVIOUS
      <4>1. heaptop - j \in N
        OBVIOUS
      <4>2. n <= heaptop - j
        BY <3>2, <4>1
      <4> QED
        BY <1>1, <3>3, <4>2
    <3>5. i + hdr[i].next > i
      BY HdrFacts
    <3>6. i + hdr[i].next = heaptop \/ i + hdr[i].next \in DOMAIN hdr
      BY HdrFacts
    <3>7. i + hdr[i].next \in Nat /\ i \in Nat
      BY HdrFacts
    <3> QED
      BY <2>2, <3>4, <3>5, <3>6, <3>7
  <2> QED
    BY <2>1, <2>2
<1>4. PICK i \in DOMAIN hdr : i + hdr[i].next = k
  BY <1>3
<1>5. i \in Nat /\ i < k /\ hdr[i].next \in Nat
  BY <1>2, <1>4, HdrFacts
<1> DEFINE W == {x \in Walk[0] : x < k}
<1>6. \A x : x \in W <=> x \in DOMAIN hdr /\ x < k
  BY <1>1, <1>2, WalkFacts
<1> HIDE DEF W
<1>7. \A x \in W : x <= i
  <2> SUFFICES ASSUME NEW x \in W, x > i PROVE FALSE
    BY <1>1, <1>5, <1>6
  <2>1. x \in DOMAIN hdr /\ x < k /\ x \in Nat
    BY <1>1, <1>6
  <2>2. i + hdr[i].next <= x
    BY <2>1 DEF Chain
  <2> QED
    BY <1>2, <1>4, <2>1, <2>2
<1>8. Max(W) = i
  <2>1. i \in W
    BY <1>5, <1>6
  <2>2. \A x \in W : x \in Nat
    BY <1>1, <1>6
  <2>3. \E x \in W : \A y \in W : x >= y
    BY <1>5, <1>7, <2>1, <2>2
  <2>4. Max(W) \in W /\ \A y \in W : Max(W) >= y
    BY <2>3 DEF Max
  <2> QED
    BY <1>5, <1>7, <2>1, <2>2, <2>4
<1>9. rightprevblock(k) = hdr[Max(W)].next
  BY DEF rightprevblock, W
<1> QED
  BY <1>4, <1>8, <1>9

\* No check of malloc fails.
LEMMA ChecksPass ==
  ASSUME heaptop \in Nat, heaptop <= HeapLimit, Chain(hdr, heaptop)
  PROVE  \A i \in DOMAIN hdr : BlockOK(i)
<1> SUFFICES ASSUME NEW k \in DOMAIN hdr PROVE hdr[k].prev = rightprevblock(k)
  BY DEF BlockOK
<1>1. CASE k = 0
  BY <1>1 DEF rightprevblock, Chain
<1>2. CASE k # 0
  <2>1. PICK i \in DOMAIN hdr : i + hdr[i].next = k /\ rightprevblock(k) = hdr[i].next
    BY <1>2, BelowFacts
  <2> QED
    BY <2>1 DEF Chain
<1> QED
  BY <1>1, <1>2

-----------------------------------------------------------------------------
(* A block is split, two are merged, the heap grows *)

\* No two blocks end at the same address.
LEMMA EndsOnce ==
  ASSUME NEW h, NEW top \in Nat, Chain(h, top), NEW i \in DOMAIN h, NEW j \in DOMAIN h,
         i + h[i].next = j + h[j].next
  PROVE  i = j
<1>1. i \in Nat /\ j \in Nat /\ h[i].next \in Nat /\ h[j].next \in Nat /\ h[i].next >= 1 /\ h[j].next >= 1
  BY HdrFacts
<1>2. i < j => i + h[i].next <= j
  BY DEF Chain
<1>3. j < i => j + h[j].next <= i
  BY DEF Chain
<1> QED
  BY <1>1, <1>2, <1>3

\* The chain in terms of where blocks start (D), how long they are (n) and what they
\* say of the block below (p).
Links(D, n, p, top) ==
  /\ \A i \in D : i \in Nat /\ i < top /\ n[i] \in Nat /\ n[i] >= 1 /\ p[i] \in Nat
  /\ top # 0 => 0 \in D
  /\ \A i \in D : i + n[i] = top \/ i + n[i] \in D
  /\ \A i, k \in D : i < k => i + n[i] <= k
  /\ \A i, k \in D : i + n[i] = k => p[k] = n[i]
  /\ \A k \in D : k # 0 => \E i \in D : i + n[i] = k
  /\ 0 \in D => p[0] = 0

Nexts(h) == [i \in DOMAIN h |-> h[i].next]
Prevs(h) == [i \in DOMAIN h |-> h[i].prev]

LEMMA ChainLinks ==
  ASSUME NEW h, NEW top \in Nat, h \in [DOMAIN h -> HdrRec]
  PROVE  Chain(h, top) <=> Links(DOMAIN h, Nexts(h), Prevs(h), top)
<1>1. \A i \in DOMAIN h : Nexts(h)[i] = h[i].next /\ Prevs(h)[i] = h[i].prev
  BY DEF Nexts, Prevs
<1>2. \A i \in DOMAIN h : h[i] \in HdrRec
  OBVIOUS
<1>3. \A i \in DOMAIN h : h[i].next \in Nat /\ h[i].next >= 1 /\ h[i].prev \in Nat
  BY <1>2 DEF HdrRec
<1>4. ASSUME Chain(h, top) PROVE Links(DOMAIN h, Nexts(h), Prevs(h), top)
  BY <1>1, <1>3, <1>4 DEF Chain, Links
<1>5. ASSUME Links(DOMAIN h, Nexts(h), Prevs(h), top) PROVE Chain(h, top)
  BY <1>1, <1>3, <1>5 DEF Chain, Links
<1> QED
  BY <1>4, <1>5

LEMMA LinksSplit ==
  ASSUME NEW D, NEW n, NEW p, NEW top \in Nat, Links(D, n, p, top),
         NEW i \in D, NEW m \in Nat, 0 < m, m < n[i],
         NEW E, NEW u, NEW q,
         \A x : x \in E <=> x \in D \/ x = i + m,
         u[i] = m, q[i] = p[i], u[i + m] = n[i] - m, q[i + m] = m,
         \A k \in D : k # i => u[k] = n[k],
         \A k \in D : k # i => q[k] = IF k = i + n[i] THEN n[i] - m ELSE p[k]
  PROVE  Links(E, u, q, top)
<1>1. \A k \in D : k \in Nat /\ k < top /\ n[k] \in Nat /\ n[k] >= 1 /\ p[k] \in Nat
  BY DEF Links
<1>2. \A k \in D : i < k => i + n[i] <= k
  BY DEF Links
<1>3. \A k \in D : k < i => k + n[k] <= i
  BY DEF Links
<1>4. i + n[i] = top \/ i + n[i] \in D
  BY DEF Links
<1> DEFINE a == i + m
           e == i + n[i]
           r == n[i] - m
<1>5. /\ a \in Nat /\ e \in Nat /\ r \in Nat /\ i < a /\ a < e /\ r >= 1 /\ a + r = e /\ i + m = a
      /\ e <= top /\ m >= 1
  BY <1>1, <1>4
<1>6. a \notin D
  BY <1>1, <1>2, <1>5
<1>7. u[a] = r /\ q[a] = m /\ (\A x : x \in E <=> x \in D \/ x = a)
      /\ (\A k \in D : k # i => q[k] = IF k = e THEN r ELSE p[k])
  OBVIOUS
<1>8. \A k \in D : i < k => e <= k
  BY <1>2
<1>9. e = top \/ e \in D
  BY <1>4
<1> HIDE DEF a, r
<1>10. \A k \in D : k # i /\ k + n[k] = e => FALSE
  <2> SUFFICES ASSUME NEW k \in D, k # i, k + n[k] = e PROVE FALSE
    OBVIOUS
  <2>1. k < i => k + n[k] <= i
    BY <1>3
  <2>2. i < k => e <= k
    BY <1>8
  <2> QED
    BY <1>1, <1>5, <2>1, <2>2
<1> HIDE DEF e
<1>a. \A k \in E : k \in Nat /\ k < top /\ u[k] \in Nat /\ u[k] >= 1 /\ q[k] \in Nat
  <2> SUFFICES ASSUME NEW k \in E PROVE k \in Nat /\ k < top /\ u[k] \in Nat /\ u[k] >= 1 /\ q[k] \in Nat
    OBVIOUS
  <2>1. CASE k = i
    BY <1>1, <1>5, <2>1
  <2>2. CASE k = a
    BY <1>1, <1>5, <1>7, <2>2
  <2>3. CASE k \in D /\ k # i
    BY <1>1, <1>5, <1>7, <2>3
  <2> QED
    BY <1>7, <2>1, <2>2, <2>3
<1>b. top # 0 => 0 \in E
  BY <1>7 DEF Links
<1>c. \A k \in E : k + u[k] = top \/ k + u[k] \in E
  <2> SUFFICES ASSUME NEW k \in E PROVE k + u[k] = top \/ k + u[k] \in E
    OBVIOUS
  <2>1. CASE k = i
    BY <1>5, <1>7, <2>1
  <2>2. CASE k = a
    BY <1>5, <1>7, <1>9, <2>2
  <2>3. CASE k \in D /\ k # i
    <3>1. k + n[k] = top \/ k + n[k] \in D
      BY <2>3 DEF Links
    <3> QED
      BY <1>7, <2>3, <3>1
  <2> QED
    BY <1>7, <2>1, <2>2, <2>3
<1>d. \A j, k \in E : j < k => j + u[j] <= k
  <2> SUFFICES ASSUME NEW j \in E, NEW k \in E, j < k PROVE j + u[j] <= k
    OBVIOUS
  <2>1. CASE j = i
    <3>1. k = a \/ e <= k
      BY <1>7, <1>8, <2>1
    <3> QED
      BY <1>1, <1>5, <1>7, <2>1, <3>1
  <2>2. CASE j = a
    <3>1. k \in D /\ i < k
      BY <1>1, <1>5, <1>7, <2>2
    <3> QED
      BY <1>5, <1>7, <1>8, <2>2, <3>1
  <2>3. CASE j \in D /\ j # i
    <3>1. CASE k = a
      <4>1. j < i
        BY <1>1, <1>5, <1>8, <2>3, <3>1
      <4>2. j + n[j] <= i
        BY <1>3, <2>3, <4>1
      <4> QED
        BY <1>1, <1>5, <2>3, <3>1, <4>2
    <3>2. CASE k \in D
      <4>1. j + n[j] <= k
        BY <2>3, <3>2 DEF Links
      <4> QED
        BY <2>3, <4>1
    <3> QED
      BY <1>7, <3>1, <3>2
  <2> QED
    BY <1>7, <2>1, <2>2, <2>3
<1>e. \A j, k \in E : j + u[j] = k => q[k] = u[j]
  <2> SUFFICES ASSUME NEW j \in E, NEW k \in E, j + u[j] = k PROVE q[k] = u[j]
    OBVIOUS
  <2>1. CASE j = i
    BY <1>5, <1>7, <2>1
  <2>2. CASE j = a
    <3>1. k = e
      BY <1>5, <1>7, <2>2
    <3>2. k \in D /\ k # i
      BY <1>5, <1>7, <3>1, <1>1
    <3> QED
      BY <1>7, <2>2, <3>1, <3>2
  <2>3. CASE j \in D /\ j # i
    <3>1. j + n[j] = k
      BY <2>3
    <3>2. k \in D
      <4> SUFFICES ASSUME k = a PROVE FALSE
        BY <1>7
      <4>1. j < i => j + n[j] <= i
        BY <1>3, <2>3
      <4>2. i < j => e <= j
        BY <1>8, <2>3
      <4> QED
        BY <1>1, <1>5, <2>3, <3>1, <4>1, <4>2
    <3>3. k # e
      BY <1>10, <2>3, <3>1
    <3>4. p[k] = n[j]
      BY <2>3, <3>1, <3>2 DEF Links
    <3>5. q[k] = p[k]
      BY <1>7, <3>2, <3>3
    <3> QED
      BY <2>3, <3>4, <3>5
  <2> QED
    BY <1>7, <2>1, <2>2, <2>3
<1>f. \A k \in E : k # 0 => \E j \in E : j + u[j] = k
  <2> SUFFICES ASSUME NEW k \in E, k # 0 PROVE \E j \in E : j + u[j] = k
    OBVIOUS
  <2>1. CASE k = a
    BY <1>5, <1>7, <2>1
  <2>2. CASE k = e
    BY <1>5, <1>7, <2>2
  <2>3. CASE k \in D /\ k # e
    <3>1. PICK j \in D : j + n[j] = k
      BY <2>3 DEF Links
    <3>2. j # i
      BY <2>3, <3>1 DEF e
    <3> QED
      BY <1>7, <3>1, <3>2
  <2> QED
    BY <1>7, <2>1, <2>2, <2>3
<1>g. 0 \in E => q[0] = 0
  <2> SUFFICES ASSUME 0 \in E PROVE q[0] = 0
    OBVIOUS
  <2>1. 0 \in D /\ 0 # e
    BY <1>1, <1>5, <1>7
  <2>2. p[0] = 0
    BY <2>1 DEF Links
  <2>3. CASE i = 0
    BY <2>2, <2>3
  <2>4. CASE i # 0
    BY <1>7, <2>1, <2>2, <2>4
  <2> QED
    BY <2>3, <2>4
<1> QED
  BY <1>a, <1>b, <1>c, <1>d, <1>e, <1>f, <1>g DEF Links

LEMMA LinksMerge ==
  ASSUME NEW D, NEW n, NEW p, NEW top \in Nat, Links(D, n, p, top),
         NEW i \in D, NEW k \in D, i + n[i] = k,
         NEW E, NEW u, NEW q,
         \A x : x \in E <=> x \in D /\ x # k,
         u[i] = n[i] + n[k], q[i] = p[i],
         \A j \in D : j # i /\ j # k => u[j] = n[j],
         \A j \in D : j # i /\ j # k => q[j] = IF j = k + n[k] THEN n[i] + n[k] ELSE p[j]
  PROVE  Links(E, u, q, top)
<1>1. \A j \in D : j \in Nat /\ j < top /\ n[j] \in Nat /\ n[j] >= 1 /\ p[j] \in Nat
  BY DEF Links
<1>2. \A j \in D : i < j => k <= j
  BY DEF Links
<1>3. \A j \in D : j < i => j + n[j] <= i
  BY DEF Links
<1>4. \A j \in D : k < j => k + n[k] <= j
  BY DEF Links
<1>5. k + n[k] = top \/ k + n[k] \in D
  BY DEF Links
<1>6. \A j \in D : j < k => j + n[j] <= k
  BY DEF Links
<1> DEFINE e == k + n[k]
           s == n[i] + n[k]
<1>7. e \in Nat /\ s \in Nat /\ i < k /\ k < e /\ i + s = e /\ s >= 1 /\ i # k
  BY <1>1
<1>8. /\ u[i] = s /\ (e = top \/ e \in D) /\ (\A j \in D : k < j => e <= j)
      /\ (\A j \in D : j # i /\ j # k => q[j] = IF j = e THEN s ELSE p[j])
  BY <1>4, <1>5
<1> HIDE DEF e, s
<1>9. i \in E
  BY <1>7
<1>10. \A j \in D : j # i /\ j # k => j + n[j] # k /\ j + n[j] # e
  <2> SUFFICES ASSUME NEW j \in D, j # i, j # k PROVE j + n[j] # k /\ j + n[j] # e
    OBVIOUS
  <2>1. j < i => j + n[j] <= i
    BY <1>3
  <2>2. i < j => k < j
    BY <1>1, <1>2
  <2>3. k < j => e <= j
    BY <1>8
  <2> QED
    BY <1>1, <1>7, <2>1, <2>2, <2>3
<1>a. \A j \in E : j \in Nat /\ j < top /\ u[j] \in Nat /\ u[j] >= 1 /\ q[j] \in Nat
  <2> SUFFICES ASSUME NEW j \in E PROVE j \in Nat /\ j < top /\ u[j] \in Nat /\ u[j] >= 1 /\ q[j] \in Nat
    OBVIOUS
  <2>1. CASE j = i
    BY <1>1, <1>7, <1>8, <2>1
  <2>2. CASE j # i
    <3>1. j \in D /\ j # k
      OBVIOUS
    <3> QED
      BY <1>1, <1>7, <1>8, <2>2, <3>1
  <2> QED
    BY <2>1, <2>2
<1>b. top # 0 => 0 \in E
  <2>1. top # 0 => 0 \in D
    BY DEF Links
  <2>2. k # 0
    BY <1>1, <1>7
  <2> QED
    BY <2>1, <2>2
<1>c. \A j \in E : j + u[j] = top \/ j + u[j] \in E
  <2> SUFFICES ASSUME NEW j \in E PROVE j + u[j] = top \/ j + u[j] \in E
    OBVIOUS
  <2>1. CASE j = i
    <3>1. e # k
      BY <1>1, <1>7
    <3> QED
      BY <1>7, <1>8, <2>1, <3>1
  <2>2. CASE j # i
    <3>1. j \in D /\ j # k
      OBVIOUS
    <3>2. j + n[j] = top \/ j + n[j] \in D
      BY <3>1 DEF Links
    <3> QED
      BY <1>10, <2>2, <3>1, <3>2
  <2> QED
    BY <2>1, <2>2
<1>d. \A j, l \in E : j < l => j + u[j] <= l
  <2> SUFFICES ASSUME NEW j \in E, NEW l \in E, j < l PROVE j + u[j] <= l
    OBVIOUS
  <2>0. j \in D /\ l \in D /\ j # k /\ l # k
    OBVIOUS
  <2>1. CASE j = i
    <3>1. k < l
      BY <1>1, <1>2, <2>0, <2>1
    <3> QED
      BY <1>7, <1>8, <2>0, <2>1, <3>1
  <2>2. CASE j # i
    <3>1. j + n[j] <= l
      BY <2>0 DEF Links
    <3> QED
      BY <2>0, <2>2, <3>1
  <2> QED
    BY <2>1, <2>2
<1>e. \A j, l \in E : j + u[j] = l => q[l] = u[j]
  <2> SUFFICES ASSUME NEW j \in E, NEW l \in E, j + u[j] = l PROVE q[l] = u[j]
    OBVIOUS
  <2>0. j \in D /\ l \in D /\ j # k /\ l # k
    OBVIOUS
  <2>1. CASE j = i
    <3>1. l = e /\ l # i
      BY <1>1, <1>7, <1>8, <2>1
    <3> QED
      BY <1>8, <2>0, <2>1, <3>1
  <2>2. CASE j # i
    <3>1. j + n[j] = l
      BY <2>0, <2>2
    <3>2. p[l] = n[j]
      BY <2>0, <3>1 DEF Links
    <3>3. l # e
      BY <1>10, <2>0, <2>2, <3>1
    <3>4. q[l] = p[l]
      BY <1>8, <2>0, <3>3
    <3> QED
      BY <2>0, <2>2, <3>2, <3>4
  <2> QED
    BY <2>1, <2>2
<1>f. \A l \in E : l # 0 => \E j \in E : j + u[j] = l
  <2> SUFFICES ASSUME NEW l \in E, l # 0 PROVE \E j \in E : j + u[j] = l
    OBVIOUS
  <2>0. l \in D /\ l # k
    OBVIOUS
  <2>1. PICK j \in D : j + n[j] = l
    BY <2>0 DEF Links
  <2>2. CASE j = k
    <3>1. l = e
      BY <2>1, <2>2 DEF e
    <3> QED
      BY <1>7, <1>8, <1>9, <3>1
  <2>3. CASE j # k
    <3>1. j # i
      BY <2>0, <2>1
    <3> QED
      BY <2>1, <2>3, <3>1
  <2> QED
    BY <2>2, <2>3
<1>g. 0 \in E => q[0] = 0
  <2> SUFFICES ASSUME 0 \in E PROVE q[0] = 0
    OBVIOUS
  <2>1. 0 \in D /\ 0 # e /\ 0 # k
    BY <1>1, <1>7
  <2>2. p[0] = 0
    BY <2>1 DEF Links
  <2> QED
    BY <1>8, <2>1, <2>2
<1> QED
  BY <1>a, <1>b, <1>c, <1>d, <1>e, <1>f, <1>g DEF Links

LEMMA LinksGrow ==
  ASSUME NEW D, NEW n, NEW p, NEW top \in Nat, Links(D, n, p, top),
         NEW m \in Nat, m >= 1,
         NEW E, NEW u, NEW q,
         \A x : x \in E <=> x \in D \/ x = top,
         u[top] = m, q[top] \in Nat,
         \A j \in D : u[j] = n[j] /\ q[j] = p[j],
         top = 0 => q[top] = 0,
         top # 0 => \E i \in D : i + n[i] = top /\ q[top] = n[i]
  PROVE  Links(E, u, q, top + m)
<1>1. \A j \in D : j \in Nat /\ j < top /\ n[j] \in Nat /\ n[j] >= 1 /\ p[j] \in Nat
  BY DEF Links
<1>2. top \notin D
  BY <1>1
<1>a. \A j \in E : j \in Nat /\ j < top + m /\ u[j] \in Nat /\ u[j] >= 1 /\ q[j] \in Nat
  BY <1>1
<1>b. 0 \in E
  BY DEF Links
<1>c. \A j \in E : j + u[j] = top + m \/ j + u[j] \in E
  <2> SUFFICES ASSUME NEW j \in D PROVE j + n[j] \in E
    OBVIOUS
  <2> QED
    BY DEF Links
<1>d. \A j, l \in E : j < l => j + u[j] <= l
  <2> SUFFICES ASSUME NEW j \in E, NEW l \in E, j < l PROVE j + u[j] <= l
    OBVIOUS
  <2>1. j \in D
    BY <1>1
  <2>2. CASE l = top
    <3>1. j + n[j] = top \/ j + n[j] \in D
      BY <2>1 DEF Links
    <3> QED
      BY <1>1, <2>1, <2>2, <3>1
  <2>3. CASE l \in D
    <3>1. j + n[j] <= l
      BY <2>1, <2>3 DEF Links
    <3> QED
      BY <2>1, <3>1
  <2> QED
    BY <2>2, <2>3
<1>e. \A j, l \in E : j + u[j] = l => q[l] = u[j]
  <2> SUFFICES ASSUME NEW j \in E, NEW l \in E, j + u[j] = l PROVE q[l] = u[j]
    OBVIOUS
  <2>1. j \in D
    BY <1>1
  <2>2. CASE l \in D
    <3>1. p[l] = n[j]
      BY <2>1, <2>2 DEF Links
    <3> QED
      BY <2>1, <2>2, <3>1
  <2>3. CASE l = top
    <3>1. top # 0
      BY <1>1, <2>1
    <3>2. PICK i \in D : i + n[i] = top /\ q[top] = n[i]
      BY <3>1
    <3>3. j + n[j] = top
      BY <2>1, <2>3
    <3>4. j < i => j + n[j] <= i
      BY <2>1 DEF Links
    <3>5. i < j => i + n[i] <= j
      BY <2>1 DEF Links
    <3>6. i = j
      BY <1>1, <2>1, <3>2, <3>3, <3>4, <3>5
    <3> QED
      BY <2>1, <2>3, <3>2, <3>6
  <2> QED
    BY <2>2, <2>3
<1>f. \A l \in E : l # 0 => \E j \in E : j + u[j] = l
  <2> SUFFICES ASSUME NEW l \in E, l # 0 PROVE \E j \in E : j + u[j] = l
    OBVIOUS
  <2>1. \E j \in D : j + n[j] = l
    BY DEF Links
  <2> QED
    BY <2>1
<1>g. 0 \in E => q[0] = 0
  <2>1. 0 \in D => p[0] = 0
    BY DEF Links
  <2> QED
    BY <2>1
<1> QED
  BY <1>a, <1>b, <1>c, <1>d, <1>e, <1>f, <1>g DEF Links

-----------------------------------------------------------------------------
(* What the helpers of malloc and free do to the headers *)

LEMMA HeaderFacts ==
  ASSUME NEW p \in Nat, NEW n \in Nat, n >= 1, NEW b \in BOOLEAN
  PROVE  /\ Header(p, n, b) \in HdrRec
         /\ Header(p, n, b).prev = p /\ Header(p, n, b).next = n /\ Header(p, n, b).inuse = b
  BY DEF Header, HdrRec

LEMMA RecExcept ==
  ASSUME NEW r \in HdrRec
  PROVE  /\ \A n \in Nat : n >= 1 => /\ [r EXCEPT !.next = n] \in HdrRec
                                     /\ [r EXCEPT !.next = n].next = n
                                     /\ [r EXCEPT !.next = n].prev = r.prev
                                     /\ [r EXCEPT !.next = n].inuse = r.inuse
         /\ \A p \in Nat : /\ [r EXCEPT !.prev = p] \in HdrRec
                           /\ [r EXCEPT !.prev = p].prev = p
                           /\ [r EXCEPT !.prev = p].next = r.next
                           /\ [r EXCEPT !.prev = p].inuse = r.inuse
         /\ \A b \in BOOLEAN : /\ [r EXCEPT !.inuse = b] \in HdrRec
                               /\ [r EXCEPT !.inuse = b].inuse = b
                               /\ [r EXCEPT !.inuse = b].next = r.next
                               /\ [r EXCEPT !.inuse = b].prev = r.prev
  BY DEF HdrRec

\* g has the headers h, with another next at i; another mh_inuse at i.
NextSet(h, g, i, n) ==
  /\ g \in [DOMAIN h -> HdrRec]
  /\ \A k \in DOMAIN h : /\ g[k].prev = h[k].prev /\ g[k].inuse = h[k].inuse
                         /\ g[k].next = IF k = i THEN n ELSE h[k].next
UseSet(h, g, i, b) ==
  /\ g \in [DOMAIN h -> HdrRec]
  /\ \A k \in DOMAIN h : /\ g[k].prev = h[k].prev /\ g[k].next = h[k].next
                         /\ g[k].inuse = IF k = i THEN b ELSE h[k].inuse
PrevSet(h, g, i, p) ==
  /\ g \in [DOMAIN h -> HdrRec]
  /\ \A k \in DOMAIN h : /\ g[k].next = h[k].next /\ g[k].inuse = h[k].inuse
                         /\ g[k].prev = IF k = i THEN p ELSE h[k].prev

LEMMA NextSetFacts ==
  ASSUME NEW h, h \in [DOMAIN h -> HdrRec], NEW i \in DOMAIN h, NEW n \in Nat, n >= 1
  PROVE  NextSet(h, [h EXCEPT ![i].next = n], i, n)
<1> DEFINE r == [h[i] EXCEPT !.next = n]
           g == [h EXCEPT ![i].next = n]
<1>1. h[i] \in HdrRec
  OBVIOUS
<1>2. r \in HdrRec /\ r.next = n /\ r.prev = h[i].prev /\ r.inuse = h[i].inuse
  BY <1>1, RecExcept
<1>3. g = [h EXCEPT ![i] = r]
  OBVIOUS
<1> HIDE DEF r, g
<1>4. g \in [DOMAIN h -> HdrRec] /\ g[i] = r /\ \A k \in DOMAIN h : k # i => g[k] = h[k]
  BY <1>2, <1>3
<1>5. NextSet(h, g, i, n)
  BY <1>2, <1>4 DEF NextSet
<1> QED
  BY <1>5 DEF g

LEMMA UseSetFacts ==
  ASSUME NEW h, h \in [DOMAIN h -> HdrRec], NEW i \in DOMAIN h, NEW b \in BOOLEAN
  PROVE  UseSet(h, [h EXCEPT ![i].inuse = b], i, b)
<1> DEFINE r == [h[i] EXCEPT !.inuse = b]
           g == [h EXCEPT ![i].inuse = b]
<1>1. h[i] \in HdrRec
  OBVIOUS
<1>2. r \in HdrRec /\ r.inuse = b /\ r.prev = h[i].prev /\ r.next = h[i].next
  BY <1>1, RecExcept
<1>3. g = [h EXCEPT ![i] = r]
  OBVIOUS
<1> HIDE DEF r, g
<1>4. g \in [DOMAIN h -> HdrRec] /\ g[i] = r /\ \A k \in DOMAIN h : k # i => g[k] = h[k]
  BY <1>2, <1>3
<1>5. UseSet(h, g, i, b)
  BY <1>2, <1>4 DEF UseSet
<1> QED
  BY <1>5 DEF g

LEMMA PrevSetFacts ==
  ASSUME NEW h, h \in [DOMAIN h -> HdrRec], heaptop \notin DOMAIN h,
         NEW i \in DOMAIN h \cup {heaptop}, NEW p \in Nat
  PROVE  PrevSet(h, SetPrev(h, i, p), i, p)
<1>1. CASE i = heaptop
  BY <1>1 DEF SetPrev, PrevSet
<1>2. CASE i # heaptop
  <2> DEFINE r == [h[i] EXCEPT !.prev = p]
             g == SetPrev(h, i, p)
  <2>1. i \in DOMAIN h /\ h[i] \in HdrRec
    BY <1>2
  <2>2. r \in HdrRec /\ r.prev = p /\ r.next = h[i].next /\ r.inuse = h[i].inuse
    BY <2>1, RecExcept
  <2>3. g = [h EXCEPT ![i] = r]
    BY <1>2 DEF SetPrev
  <2> HIDE DEF r, g
  <2>4. g \in [DOMAIN h -> HdrRec] /\ g[i] = r /\ \A k \in DOMAIN h : k # i => g[k] = h[k]
    BY <2>1, <2>2, <2>3
  <2>5. PrevSet(h, g, i, p)
    BY <2>2, <2>4 DEF PrevSet
  <2> QED
    BY <2>5 DEF g
<1> QED
  BY <1>1, <1>2

LEMMA DroppedFacts ==
  ASSUME NEW h, h \in [DOMAIN h -> HdrRec], NEW A
  PROVE  /\ Dropped(h, A) \in [DOMAIN h \ A -> HdrRec]
         /\ \A k \in DOMAIN h \ A : Dropped(h, A)[k] = h[k]
         /\ A \cap DOMAIN h = {} => Dropped(h, A) = h
<1>1. Dropped(h, A) \in [DOMAIN h \ A -> HdrRec] /\ \A k \in DOMAIN h \ A : Dropped(h, A)[k] = h[k]
  BY DEF Dropped
<1>2. A \cap DOMAIN h = {} => Dropped(h, A) = h
  <2> SUFFICES ASSUME A \cap DOMAIN h = {} PROVE Dropped(h, A) = h
    OBVIOUS
  <2>1. DOMAIN h \ A = DOMAIN h
    OBVIOUS
  <2> QED
    BY <2>1 DEF Dropped
<1> QED
  BY <1>1, <1>2

\* Marking a block changes no length.
LEMMA UseKeepsChain ==
  ASSUME NEW h, NEW top \in Nat, Chain(h, top), NEW g, NEW i, NEW b, UseSet(h, g, i, b)
  PROVE  Chain(g, top)
<1>1. DOMAIN g = DOMAIN h /\ g \in [DOMAIN g -> HdrRec]
  BY DEF UseSet
<1>2. \A k \in DOMAIN h : g[k].prev = h[k].prev /\ g[k].next = h[k].next
  BY DEF UseSet
<1>3. h \in [DOMAIN h -> HdrRec]
  BY DEF Chain
<1>4. Nexts(g) = Nexts(h) /\ Prevs(g) = Prevs(h)
  BY <1>1, <1>2 DEF Nexts, Prevs
<1> QED
  BY <1>1, <1>3, <1>4, ChainLinks

-----------------------------------------------------------------------------
(* malloc_split *)

\* g is h with block i cut after n blocks of data, or whole if the rest is too small;
\* the rest is free.
Cut(h, g, i, n) ==
  /\ i \in DOMAIN g /\ g[i].inuse = h[i].inuse
  /\ DOMAIN h \subseteq DOMAIN g
  /\ g[i].next >= n + 1
  /\ \A k \in DOMAIN h : k # i => g[k].inuse = h[k].inuse /\ g[k].next = h[k].next
  /\ \A k \in DOMAIN g : k \notin DOMAIN h =>
       k = i + g[i].next /\ g[k].inuse = FALSE /\ k + g[k].next = i + h[i].next
  /\ DOMAIN g = DOMAIN h => g[i].next = h[i].next

LEMMA SplitFacts ==
  ASSUME NEW h, heaptop \in Nat, Chain(h, heaptop), NEW i \in DOMAIN h, NEW n \in Nat, h[i].next - 1 >= n
  PROVE  Chain(malloc_split(h, i, n), heaptop) /\ Cut(h, malloc_split(h, i, n), i, n)
<1>0. i \in Nat /\ i < heaptop /\ h[i].next \in Nat /\ h[i].next >= 1 /\ h[i] \in HdrRec /\ h[i].prev \in Nat
      /\ h[i].inuse \in BOOLEAN
  BY HdrFacts
<1>1. CASE M_SIZE(h, i) - n < 2
  <2>1. malloc_split(h, i, n) = h
    BY <1>1 DEF malloc_split
  <2>2. Cut(h, h, i, n)
    BY <1>0 DEF Cut
  <2> QED
    BY <2>1, <2>2
<1>2. CASE ~(M_SIZE(h, i) - n < 2)
  <2> DEFINE m == n + 1
             a == i + n + 1
             e == i + h[i].next
             r == M_SIZE(h, i) - n
             v == Header(m, r, FALSE)
             h1 == [h EXCEPT ![i].next = m]
             h2 == Put(h1, a, v)
             g == SetPrev(h2, e, r)
  <2>1. malloc_split(h, i, n) = g
    BY <1>2 DEF malloc_split
  <2>2. /\ m \in Nat /\ m >= 1 /\ a \in Nat /\ e \in Nat /\ r \in Nat /\ r >= 1 /\ a = i + m /\ r = h[i].next - m
        /\ i < a /\ a < e /\ m < h[i].next /\ a + r = e /\ i + h[i].next = e /\ m >= n + 1
    BY <1>0, <1>2 DEF M_SIZE
  <2>3. NextSet(h, h1, i, m)
    BY <2>2, NextSetFacts DEF Chain
  <2>4. v \in HdrRec /\ v.prev = m /\ v.next = r /\ v.inuse = FALSE
    <3> HIDE DEF m, r
    <3>1. m \in Nat /\ r \in Nat /\ r >= 1 /\ FALSE \in BOOLEAN
      BY <2>2
    <3> QED
      BY <3>1, HeaderFacts
  <2>5. a \notin DOMAIN h /\ a < heaptop
    <3>1. \A k \in DOMAIN h : i < k => e <= k
      BY DEF Chain
    <3>2. e <= heaptop
      BY HdrFacts
    <3> QED
      BY <1>0, <2>2, <3>1, <3>2
  <2>6. e = heaptop \/ e \in DOMAIN h
    BY HdrFacts
  <2>7. heaptop \notin DOMAIN h
    BY DEF Chain
  <2> HIDE DEF m, a, e, r, v, h1
  <2>8. h1 \in [DOMAIN h -> HdrRec] /\ DOMAIN h1 = DOMAIN h
    BY <2>3 DEF NextSet
  <2>9. h2 \in [DOMAIN h \cup {a} -> HdrRec] /\ h2[a] = v /\ \A k \in DOMAIN h : k # a => h2[k] = h1[k]
    <3>1. h1 \in [DOMAIN h1 -> HdrRec]
      BY <2>8
    <3>2. h2 \in [DOMAIN h1 \cup {a} -> HdrRec] /\ h2[a] = v /\ \A k \in DOMAIN h1 : k # a => h2[k] = h1[k]
      <4>1. v \in HdrRec
        BY <2>4
      <4> QED
        BY ONLY <3>1, <4>1 DEF Put
    <3> QED
      BY <2>8, <3>2
  <2> HIDE DEF h2
  <2>10. PrevSet(h2, g, e, r)
    <3>1. heaptop \notin DOMAIN h2 /\ e \in DOMAIN h2 \cup {heaptop} /\ DOMAIN h2 = DOMAIN h \cup {a}
      BY <2>2, <2>5, <2>6, <2>7, <2>9
    <3> QED
      BY <2>2, <2>9, <3>1, PrevSetFacts
  <2> HIDE DEF g
  <2>11. DOMAIN g = DOMAIN h \cup {a} /\ g \in [DOMAIN g -> HdrRec]
    BY <2>9, <2>10 DEF PrevSet
  <2>12. i \in Nat /\ i # a /\ i # e /\ a # e
    BY <1>0, <2>2
  <2>13. \A k \in DOMAIN h : /\ g[k].next = (IF k = i THEN m ELSE h[k].next) /\ g[k].inuse = h[k].inuse
                             /\ g[k].prev = IF k = e THEN r ELSE h[k].prev
    BY <2>3, <2>5, <2>9, <2>10 DEF NextSet, PrevSet
  <2>14. g[a].next = r /\ g[a].prev = m /\ g[a].inuse = FALSE
    BY <2>4, <2>9, <2>10, <2>12 DEF PrevSet
  <2>15. Links(DOMAIN g, Nexts(g), Prevs(g), heaptop)
    <3> DEFINE D == DOMAIN h
               N == Nexts(h)
               P == Prevs(h)
               E == DOMAIN g
               U == Nexts(g)
               Q == Prevs(g)
    <3>1. Links(D, N, P, heaptop)
      BY ChainLinks DEF Chain
    <3>2. \A x : x \in E <=> x \in D \/ x = i + m
      BY <2>2, <2>11
    <3>3. N[i] = h[i].next /\ P[i] = h[i].prev /\ U[i] = m /\ Q[i] = h[i].prev
      BY <2>11, <2>12, <2>13 DEF Nexts, Prevs
    <3>4. U[a] = r /\ Q[a] = m
      BY <2>11, <2>14 DEF Nexts, Prevs
    <3>5. \A k \in D : k # i => U[k] = N[k]
      BY <2>11, <2>13 DEF Nexts
    <3>6. \A k \in D : k # i => Q[k] = IF k = e THEN r ELSE P[k]
      BY <2>11, <2>13 DEF Prevs
    <3>7. i \in D
      OBVIOUS
    <3> HIDE DEF D, N, P, E, U, Q
    <3>8. U[i + m] = N[i] - m /\ Q[i + m] = m /\ m < N[i] /\ 0 < m /\ Q[i] = P[i]
      BY <2>2, <3>3, <3>4
    <3>9. \A k \in D : k # i => Q[k] = IF k = i + N[i] THEN N[i] - m ELSE P[k]
      BY <2>2, <3>3, <3>6
    <3>10. m \in Nat
      BY <2>2
    <3>11. Links(E, U, Q, heaptop)
      BY ONLY heaptop \in Nat, <3>1, <3>2, <3>3, <3>5, <3>7, <3>8, <3>9, <3>10, LinksSplit
    <3> QED
      BY <3>11 DEF E, U, Q
  <2>16. Chain(g, heaptop)
    BY <2>11, <2>15, ChainLinks
  <2>17. Cut(h, g, i, n)
    <3>1. g[i].next = m /\ g[i].inuse = h[i].inuse
      BY <2>13
    <3>2. \A k \in DOMAIN g : k \notin DOMAIN h => k = a
      BY <2>11
    <3>3. a = i + g[i].next /\ a + g[a].next = i + h[i].next
      BY <2>2, <2>14, <3>1
    <3>4. DOMAIN g # DOMAIN h
      BY <2>5, <2>11
    <3> QED
      BY <2>2, <2>11, <2>13, <2>14, <3>1, <3>2, <3>3, <3>4 DEF Cut
  <2> QED
    BY <2>1, <2>16, <2>17
<1> QED
  BY <1>1, <1>2

-----------------------------------------------------------------------------
(* malloc_trymerge *)

\* g has the blocks of h that are in use as they were, and no other is in use.
Kept(h, g) ==
  /\ \A j \in DOMAIN h : h[j].inuse = TRUE => j \in DOMAIN g /\ g[j].next = h[j].next
  /\ \A j \in DOMAIN g : j \in DOMAIN h /\ g[j].inuse = h[j].inuse

\* g is h with the blocks i and k as one.
MadeOne(h, g, i, k) ==
  /\ \A j : j \in DOMAIN g <=> j \in DOMAIN h /\ j # k
  /\ g[i].next = h[i].next + h[k].next
  /\ \A j \in DOMAIN g : g[j].inuse = h[j].inuse /\ (j # i => g[j].next = h[j].next)

LEMMA MergeFacts ==
  ASSUME NEW h, heaptop \in Nat, Chain(h, heaptop), NEW i \in DOMAIN h, NEW k \in DOMAIN h,
         i + h[i].next = k, h[i].inuse = FALSE, h[k].inuse = FALSE
  PROVE  Chain(malloc_trymerge(h, i, k), heaptop) /\ MadeOne(h, malloc_trymerge(h, i, k), i, k)
<1>0. /\ i \in Nat /\ i < heaptop /\ h[i].next \in Nat /\ h[i].next >= 1
      /\ k \in Nat /\ k < heaptop /\ h[k].next \in Nat /\ h[k].next >= 1
  BY HdrFacts
<1> DEFINE s == h[i].next + h[k].next
           e == k + h[k].next
           h1 == [h EXCEPT ![i].next = s]
           h2 == SetPrev(h1, e, s)
           g == Dropped(h2, {k})
<1>1. malloc_trymerge(h, i, k) = g
  BY DEF malloc_trymerge
<1>2. s \in Nat /\ s >= 1 /\ e \in Nat /\ i < k /\ k < e /\ s = h[i].next + h[k].next
  BY <1>0
<1>3. h \in [DOMAIN h -> HdrRec] /\ heaptop \notin DOMAIN h
  BY DEF Chain
<1>4. e \in DOMAIN h \cup {heaptop}
  BY HdrFacts
<1> HIDE DEF s
<1>5. NextSet(h, h1, i, s)
  BY <1>2, <1>3, NextSetFacts
<1> HIDE DEF h1, e
<1>6. DOMAIN h1 = DOMAIN h /\ h1 \in [DOMAIN h1 -> HdrRec]
  BY <1>5 DEF NextSet
<1>7. PrevSet(h1, h2, e, s)
  <2>1. heaptop \notin DOMAIN h1 /\ e \in DOMAIN h1 \cup {heaptop} /\ s \in Nat
    BY <1>2, <1>3, <1>4, <1>6
  <2> QED
    BY <1>6, <2>1, PrevSetFacts
<1> HIDE DEF h2
<1>8. DOMAIN h2 = DOMAIN h /\ h2 \in [DOMAIN h2 -> HdrRec]
  BY <1>6, <1>7 DEF PrevSet
<1>9. DOMAIN g = DOMAIN h \ {k} /\ g \in [DOMAIN g -> HdrRec] /\ \A j \in DOMAIN g : g[j] = h2[j]
  BY <1>8 DEF Dropped
<1> HIDE DEF g
<1>10. \A j \in DOMAIN h : j # k =>
          /\ g[j].inuse = h[j].inuse /\ g[j].next = (IF j = i THEN s ELSE h[j].next)
          /\ g[j].prev = IF j = e THEN s ELSE h[j].prev
  BY <1>5, <1>6, <1>7, <1>8, <1>9 DEF NextSet, PrevSet
<1>11. i \in Nat /\ k \in Nat /\ e \in Nat /\ i # k /\ i # e
  BY <1>0, <1>2
<1>12. Links(DOMAIN g, Nexts(g), Prevs(g), heaptop)
  <2> DEFINE D == DOMAIN h
             N == Nexts(h)
             P == Prevs(h)
             E == DOMAIN g
             U == Nexts(g)
             Q == Prevs(g)
  <2>1. Links(D, N, P, heaptop)
    BY ChainLinks DEF Chain
  <2>2. \A x : x \in E <=> x \in D /\ x # k
    BY <1>9
  <2>3. N[i] = h[i].next /\ N[k] = h[k].next /\ P[i] = h[i].prev /\ U[i] = s /\ Q[i] = h[i].prev
    BY <1>9, <1>10, <1>11 DEF Nexts, Prevs
  <2>4. \A j \in D : j # i /\ j # k => U[j] = N[j]
    BY <1>9, <1>10 DEF Nexts
  <2>5. \A j \in D : j # i /\ j # k => Q[j] = IF j = e THEN s ELSE P[j]
    BY <1>9, <1>10 DEF Prevs
  <2>6. i \in D /\ k \in D /\ i + h[i].next = k
    OBVIOUS
  <2> HIDE DEF D, N, P, E, U, Q
  <2>7. U[i] = N[i] + N[k] /\ Q[i] = P[i] /\ i + N[i] = k
    BY <1>2, <2>3, <2>6
  <2>8. \A j \in D : j # i /\ j # k => Q[j] = IF j = k + N[k] THEN N[i] + N[k] ELSE P[j]
    BY <1>2, <2>3, <2>5 DEF e
  <2>9. Links(E, U, Q, heaptop)
    BY ONLY heaptop \in Nat, <2>1, <2>2, <2>4, <2>6, <2>7, <2>8, LinksMerge
  <2> QED
    BY <2>9 DEF E, U, Q
<1>13. Chain(g, heaptop)
  BY <1>9, <1>12, ChainLinks
<1>14. MadeOne(h, g, i, k)
  BY <1>2, <1>9, <1>10, <1>11 DEF MadeOne
<1> QED
  BY <1>1, <1>13, <1>14

\* Whether it merges or not, i and the block above it are no longer both free.
LEMMA TryMergeFacts ==
  ASSUME NEW h, heaptop \in Nat, Chain(h, heaptop), NEW i \in DOMAIN h, NEW k \in DOMAIN h,
         i + h[i].next = k, NEW S, FreeBut(h, S), k + h[k].next \notin S
  PROVE  LET g == malloc_trymerge(h, i, k)
         IN  Chain(g, heaptop) /\ FreeBut(g, S \ {k}) /\ Kept(h, g) /\ i \in DOMAIN g
<1> DEFINE g == malloc_trymerge(h, i, k)
<1>0. h[i].inuse \in BOOLEAN /\ h[k].inuse \in BOOLEAN
  BY HdrFacts
<1>1. CASE h[i].inuse = TRUE \/ h[k].inuse = TRUE
  <2>1. g = h
    BY <1>1 DEF malloc_trymerge
  <2>2. FreeBut(h, S \ {k})
    <3> SUFFICES ASSUME NEW j \in DOMAIN h, NEW l \in DOMAIN h, j + h[j].next = l, l \notin S \ {k}
                 PROVE  h[j].inuse = TRUE \/ h[l].inuse = TRUE
      BY DEF FreeBut
    <3>1. CASE l # k
      BY <3>1 DEF FreeBut
    <3>2. CASE l = k
      <4>1. j = i
        BY <3>2, EndsOnce
      <4> QED
        BY <1>1, <3>2, <4>1
    <3> QED
      BY <3>1, <3>2
  <2>3. Kept(h, h)
    BY DEF Kept
  <2> QED
    BY <2>1, <2>2, <2>3
<1>2. CASE h[i].inuse = FALSE /\ h[k].inuse = FALSE
  <2>0. /\ i \in Nat /\ h[i].next \in Nat /\ h[i].next >= 1 /\ k \in Nat /\ h[k].next \in Nat /\ h[k].next >= 1
    BY HdrFacts
  <2>1. Chain(g, heaptop) /\ MadeOne(h, g, i, k)
    BY <1>2, MergeFacts
  <2> HIDE DEF g
  <2>2. i # k /\ i \in DOMAIN g
    BY <2>0, <2>1 DEF MadeOne
  <2>3. Kept(h, g)
    <3>1. ASSUME NEW j \in DOMAIN h, h[j].inuse = TRUE PROVE j \in DOMAIN g /\ g[j].next = h[j].next
      <4>1. j # i /\ j # k
        BY <1>2, <3>1
      <4> QED
        BY <2>1, <4>1 DEF MadeOne
    <3> QED
      BY <2>1, <3>1 DEF Kept, MadeOne
  <2>4. FreeBut(g, S \ {k})
    <3> SUFFICES ASSUME NEW j \in DOMAIN g, NEW l \in DOMAIN g, j + g[j].next = l, l \notin S \ {k}
                 PROVE  g[j].inuse = TRUE \/ g[l].inuse = TRUE
      BY DEF FreeBut
    <3>1. j \in DOMAIN h /\ l \in DOMAIN h /\ j # k /\ l # k /\ g[j].inuse = h[j].inuse /\ g[l].inuse = h[l].inuse
      BY <2>1 DEF MadeOne
    <3>2. l \notin S
      BY <3>1
    <3>3. CASE j = i
      <4>1. l = i + (h[i].next + h[k].next)
        BY <2>1, <3>3 DEF MadeOne
      <4>2. k + h[k].next = l
        BY <2>0, <4>1
      <4>3. h[l].inuse = TRUE
        BY <1>2, <3>1, <3>2, <4>2 DEF FreeBut
      <4> QED
        BY <3>1, <4>3
    <3>4. CASE j # i
      <4>1. j + h[j].next = l
        BY <2>1, <3>1, <3>4 DEF MadeOne
      <4> QED
        BY <3>1, <3>2, <4>1 DEF FreeBut
    <3> QED
      BY <3>3, <3>4
  <2> QED
    BY <2>1, <2>2, <2>3, <2>4 DEF g
<1> QED
  BY <1>0, <1>1, <1>2

LEMMA KeptTrans ==
  ASSUME NEW f, NEW g, NEW h, Kept(f, g), Kept(g, h)
  PROVE  Kept(f, h)
<1>1. ASSUME NEW j \in DOMAIN f, f[j].inuse = TRUE PROVE j \in DOMAIN h /\ h[j].next = f[j].next
  <2>1. j \in DOMAIN g /\ g[j].next = f[j].next
    BY <1>1 DEF Kept
  <2>2. g[j].inuse = TRUE
    BY <1>1, <2>1 DEF Kept
  <2> QED
    BY <2>1, <2>2 DEF Kept
<1>2. ASSUME NEW j \in DOMAIN h PROVE j \in DOMAIN f /\ h[j].inuse = f[j].inuse
  BY DEF Kept
<1> QED
  BY <1>1, <1>2 DEF Kept

LEMMA MergeUpFacts ==
  ASSUME NEW h, heaptop \in Nat, Chain(h, heaptop), NEW i \in DOMAIN h,
         FreeBut(h, {i, i + h[i].next})
  PROVE  LET g == MergeUp(h, i)
         IN  Chain(g, heaptop) /\ FreeBut(g, {i}) /\ Kept(h, g) /\ i \in DOMAIN g
<1>0. i \in Nat /\ h[i].next \in Nat /\ h[i].next >= 1
  BY HdrFacts
<1> DEFINE k == i + h[i].next
<1>1. CASE k = heaptop
  <2>1. MergeUp(h, i) = h
    BY <1>1 DEF MergeUp
  <2>2. heaptop \notin DOMAIN h
    BY DEF Chain
  <2>3. FreeBut(h, {i})
    BY <1>1, <2>2 DEF FreeBut
  <2>4. Kept(h, h)
    BY DEF Kept
  <2> QED
    BY <2>1, <2>3, <2>4
<1>2. CASE k # heaptop
  <2>1. MergeUp(h, i) = malloc_trymerge(h, i, k)
    BY <1>2 DEF MergeUp
  <2>2. k \in DOMAIN h
    BY <1>2, HdrFacts
  <2>3. k \in Nat /\ h[k].next \in Nat /\ h[k].next >= 1
    BY <2>2, HdrFacts
  <2>4. k + h[k].next \notin {i, k} /\ i # k
    BY <1>0, <2>3
  <2>5. i + h[i].next = k /\ FreeBut(h, {i, k})
    OBVIOUS
  <2> HIDE DEF k
  <2>6. {i, k} \ {k} = {i}
    BY <2>4
  <2> DEFINE g == malloc_trymerge(h, i, k)
  <2>7. Chain(g, heaptop) /\ FreeBut(g, {i, k} \ {k}) /\ Kept(h, g) /\ i \in DOMAIN g
    BY <2>2, <2>4, <2>5, TryMergeFacts
  <2> QED
    BY <2>1, <2>6, <2>7
<1> QED
  BY <1>1, <1>2

LEMMA MergeDownFacts ==
  ASSUME NEW h, heaptop \in Nat, Chain(h, heaptop), NEW i \in DOMAIN h, FreeBut(h, {i})
  PROVE  LET g == MergeDown(h, i)
         IN  Chain(g, heaptop) /\ FreeBut(g, {}) /\ Kept(h, g)
<1>0. i \in Nat /\ h[i].next \in Nat /\ h[i].next >= 1
  BY HdrFacts
<1>1. CASE i = 0
  <2>1. MergeDown(h, i) = h
    BY <1>1 DEF MergeDown
  <2>2. FreeBut(h, {})
    <3> SUFFICES ASSUME NEW j \in DOMAIN h, NEW k \in DOMAIN h, j + h[j].next = k
                 PROVE  h[j].inuse = TRUE \/ h[k].inuse = TRUE
      BY DEF FreeBut
    <3>1. j \in Nat /\ h[j].next \in Nat /\ h[j].next >= 1
      BY HdrFacts
    <3>2. k # i
      BY <1>1, <3>1
    <3> QED
      BY <3>2 DEF FreeBut
  <2>3. Kept(h, h)
    BY DEF Kept
  <2> QED
    BY <2>1, <2>2, <2>3
<1>2. CASE i # 0
  <2>1. PICK j \in DOMAIN h : j + h[j].next = i
    BY <1>2 DEF Chain
  <2>2. h[i].prev = h[j].next
    BY <2>1 DEF Chain
  <2>3. j \in Nat /\ h[j].next \in Nat
    BY HdrFacts
  <2>4. i - h[i].prev = j
    BY <1>0, <2>1, <2>2, <2>3
  <2> DEFINE g == malloc_trymerge(h, j, i)
  <2>5. MergeDown(h, i) = g
    BY <1>2, <2>4 DEF MergeDown
  <2>6. i + h[i].next \notin {i}
    BY <1>0
  <2>7. Chain(g, heaptop) /\ FreeBut(g, {i} \ {i}) /\ Kept(h, g) /\ j \in DOMAIN g
    BY <2>1, <2>6, TryMergeFacts
  <2>8. {i} \ {i} = {}
    OBVIOUS
  <2> QED
    BY <2>5, <2>7, <2>8
<1> QED
  BY <1>1, <1>2

-----------------------------------------------------------------------------
(* The steps *)

\* Rounding up gives room for all the bytes.
LEMMA RoundUpFacts ==
  ASSUME NEW size \in Nat
  PROVE  RoundUp(size) \in Nat /\ RoundUp(size) * MBLOCKSIZE >= size
<1> DEFINE B == MBLOCKSIZE
           x == size + B - 1
           q == x \div B
           r == x % B
<1>1. B \in Nat /\ B >= 1
  BY MallocAssumption
<1>2. x \in Nat /\ x = size + B - 1
  BY <1>1
<1> HIDE DEF B, x
<1>3. q \in Nat /\ r \in Nat /\ r < B /\ x = B * q + r
  BY <1>1, <1>2
<1> HIDE DEF q, r
<1> DEFINE p == B * q
<1>4. p \in Nat /\ q * B = p
  BY <1>1, <1>3
<1>5. x = p + r
  BY <1>3
<1> HIDE DEF p
<1>6. p >= size
  BY <1>1, <1>2, <1>3, <1>4, <1>5
<1>7. q * B >= size
  BY <1>4, <1>6
<1> QED
  BY <1>3, <1>7 DEF RoundUp, q, x, B

LEMMA MoreRoom ==
  ASSUME NEW m \in Nat, NEW n \in Nat, m >= n, NEW B \in Nat, NEW size \in Nat, n * B >= size
  PROVE  m * B >= size
<1>1. PICK d \in Nat : m = n + d
  <2>1. m - n \in Nat /\ m = n + (m - n)
    OBVIOUS
  <2> QED
    BY <2>1
<1>2. m * B = n * B + d * B
  BY <1>1
<1>3. d * B \in Nat /\ n * B \in Nat
  OBVIOUS
<1> DEFINE x == n * B
           y == d * B
<1> HIDE DEF x, y
<1>4. x \in Nat /\ y \in Nat /\ x >= size /\ m * B = x + y
  BY <1>2, <1>3 DEF x, y
<1> QED
  BY <1>4

\* The block of a caller's data is in use and no other's.
LEMMA GiveKeepsGiven ==
  ASSUME NEW h, NEW g, GivenInv(h, g), NEW i \in Nat, NEW t, NEW size \in Nat,
         i \in DOMAIN h => h[i].inuse # TRUE,
         i \in DOMAIN t, t[i].inuse = TRUE, (t[i].next - 1) * MBLOCKSIZE >= size,
         \A j \in DOMAIN h : h[j].inuse = TRUE =>
            j \in DOMAIN t /\ t[j].inuse = TRUE /\ t[j].next = h[j].next,
         \A j \in DOMAIN t : t[j].inuse = TRUE => j = i \/ (j \in DOMAIN h /\ h[j].inuse = TRUE)
  PROVE  GivenInv(t, g \cup {[at |-> i + 1, bytes |-> size]})
<1> DEFINE c == [at |-> i + 1, bytes |-> size]
<1>1. c \in GivenRec /\ c.at = i + 1 /\ c.bytes = size /\ c.at - 1 = i
  BY DEF GivenRec
<1>2. \A b \in g : b \in GivenRec
  BY DEF GivenInv
<1>3. \A b \in g : b.at \in Nat
  BY <1>2 DEF GivenRec
<1> HIDE DEF c
<1>4. \A b \in g : b.at # i + 1
  <2> SUFFICES ASSUME NEW b \in g, b.at = i + 1 PROVE FALSE
    OBVIOUS
  <2>1. b.at - 1 = i
    OBVIOUS
  <2> QED
    BY <2>1 DEF GivenInv
<1>5. \A b \in g \cup {c} : /\ b.at - 1 \in DOMAIN t /\ t[b.at - 1].inuse = TRUE
                            /\ (t[b.at - 1].next - 1) * MBLOCKSIZE >= b.bytes
  <2>1. ASSUME NEW b \in g
        PROVE  /\ b.at - 1 \in DOMAIN t /\ t[b.at - 1].inuse = TRUE
               /\ (t[b.at - 1].next - 1) * MBLOCKSIZE >= b.bytes
    <3> DEFINE j == b.at - 1
    <3>1. j \in DOMAIN h /\ h[j].inuse = TRUE /\ (h[j].next - 1) * MBLOCKSIZE >= b.bytes
      BY DEF GivenInv
    <3> HIDE DEF j
    <3>2. j \in DOMAIN t /\ t[j].inuse = TRUE /\ t[j].next = h[j].next
      BY <3>1
    <3>3. (t[j].next - 1) * MBLOCKSIZE >= b.bytes
      BY <3>1, <3>2
    <3> QED
      BY <3>2, <3>3 DEF j
  <2> QED
    BY <1>1, <2>1
<1>6. \A j \in DOMAIN t : t[j].inuse = TRUE => \E b \in g \cup {c} : b.at = j + 1
  <2> SUFFICES ASSUME NEW j \in DOMAIN t, t[j].inuse = TRUE PROVE \E b \in g \cup {c} : b.at = j + 1
    OBVIOUS
  <2>1. CASE j = i
    BY <1>1, <2>1
  <2>2. CASE j \in DOMAIN h /\ h[j].inuse = TRUE
    BY <2>2 DEF GivenInv
  <2> QED
    BY <2>1, <2>2
<1>7. \A b, d \in g \cup {c} : b.at = d.at => b = d
  BY <1>1, <1>4 DEF GivenInv
<1>8. GivenInv(t, g \cup {c})
  BY <1>1, <1>2, <1>5, <1>6, <1>7 DEF GivenInv
<1> QED
  BY <1>8 DEF c

\* What a caller fills holds no header.
LEMMA FillsNoHeader ==
  ASSUME NEW t, NEW top \in Nat, Chain(t, top), NEW i \in DOMAIN t, NEW n \in Nat, t[i].next >= n + 1
  PROVE  Dropped(t, i + 1 .. i + n) = t
<1>1. i \in Nat /\ t[i].next \in Nat
  BY HdrFacts
<1>2. \A k \in DOMAIN t : k \in Nat /\ (i < k => i + t[i].next <= k)
  BY DEF Chain
<1>3. (i + 1 .. i + n) \cap DOMAIN t = {}
  BY <1>1, <1>2
<1>4. t \in [DOMAIN t -> HdrRec]
  BY DEF Chain
<1> QED
  BY <1>3, <1>4, DroppedFacts

\* malloc finds a block and marks what it needs of it.
LEMMA FoundStep ==
  ASSUME MalInv, NEW size \in Nat, NEW i \in DOMAIN hdr, Fits(i, RoundUp(size)),
         Give([malloc_split(hdr, i, RoundUp(size)) EXCEPT ![i].inuse = TRUE], i, size)
  PROVE  Chain(hdr', heaptop) /\ FreeBut(hdr', {}) /\ GivenInv(hdr', given')
<1> DEFINE n == RoundUp(size)
           s == malloc_split(hdr, i, n)
           t == [s EXCEPT ![i].inuse = TRUE]
<1>1. n \in Nat /\ n * MBLOCKSIZE >= size
  BY RoundUpFacts
<1>2. heaptop \in Nat /\ Chain(hdr, heaptop) /\ FreeBut(hdr, {}) /\ GivenInv(hdr, given)
  BY DEF MalInv
<1>3. i \in Nat /\ hdr[i].next \in Nat /\ hdr[i].inuse \in BOOLEAN
  BY <1>2, HdrFacts
<1>4. hdr[i].next - 1 >= n /\ hdr[i].inuse = FALSE
  BY <1>3 DEF Fits, M_SIZE
<1>5. hdr' = Dropped(t, i + 1 .. i + n) /\ given' = given \cup {[at |-> i + 1, bytes |-> size]}
  BY DEF Give
<1> HIDE DEF n
<1>6. Chain(s, heaptop) /\ Cut(hdr, s, i, n)
  BY <1>1, <1>2, <1>4, SplitFacts
<1> HIDE DEF s
<1>7. i \in DOMAIN s /\ s \in [DOMAIN s -> HdrRec]
  BY <1>6 DEF Cut, Chain
<1>8. UseSet(s, t, i, TRUE)
  BY <1>7, UseSetFacts
<1> HIDE DEF t
<1>9. Chain(t, heaptop)
  BY <1>2, <1>6, <1>8, UseKeepsChain
<1>10. DOMAIN t = DOMAIN s /\ t[i].inuse = TRUE /\ \A k \in DOMAIN s : t[k].next = s[k].next /\ (k # i => t[k].inuse = s[k].inuse)
  BY <1>7, <1>8 DEF UseSet
<1>11. i \in DOMAIN t /\ t[i].next \in Nat /\ t[i].next >= n + 1
  BY <1>2, <1>6, <1>7, <1>9, <1>10, HdrFacts DEF Cut
<1>12. hdr' = t
  BY <1>1, <1>2, <1>5, <1>9, <1>11, FillsNoHeader
<1>13. \A k \in DOMAIN hdr : k # i => k \in DOMAIN t /\ t[k].inuse = hdr[k].inuse /\ t[k].next = hdr[k].next
  BY <1>6, <1>10 DEF Cut
<1>14. \A k \in DOMAIN t : k \notin DOMAIN hdr =>
         k = i + t[i].next /\ t[k].inuse = FALSE /\ k + t[k].next = i + hdr[i].next
  BY <1>6, <1>7, <1>10 DEF Cut
<1>15. DOMAIN t = DOMAIN hdr => t[i].next = hdr[i].next
  BY <1>6, <1>7, <1>10 DEF Cut
<1>16. FreeBut(t, {})
  <2> SUFFICES ASSUME NEW j \in DOMAIN t, NEW k \in DOMAIN t, j + t[j].next = k
               PROVE  t[j].inuse = TRUE \/ t[k].inuse = TRUE
    BY DEF FreeBut
  <2>1. CASE j = i \/ k = i
    BY <1>10, <2>1
  <2>2. CASE j # i /\ k # i /\ j \in DOMAIN hdr
    <3>1. k \in DOMAIN hdr
      <4> SUFFICES ASSUME k \notin DOMAIN hdr PROVE FALSE
        OBVIOUS
      <4>1. k = i + t[i].next
        BY <1>14
      <4>2. j = i
        BY <1>2, <1>9, <1>11, <4>1, EndsOnce
      <4> QED
        BY <2>2, <4>2
    <3>2. j + hdr[j].next = k
      BY <1>13, <2>2
    <3>3. hdr[j].inuse = TRUE \/ hdr[k].inuse = TRUE
      BY <1>2, <2>2, <3>1, <3>2 DEF FreeBut
    <3> QED
      BY <1>13, <2>2, <3>1, <3>3
  <2>3. CASE j \notin DOMAIN hdr
    <3>1. k = i + hdr[i].next
      BY <1>14, <2>3
    <3>2. j = i + t[i].next
      BY <1>14, <2>3
    <3>3. k \in DOMAIN hdr
      <4> SUFFICES ASSUME k \notin DOMAIN hdr PROVE FALSE
        OBVIOUS
      <4>1. k = j
        BY <1>14, <3>2
      <4>2. t[j].next \in Nat /\ t[j].next >= 1 /\ j \in Nat
        BY <1>2, <1>9, HdrFacts
      <4> QED
        BY <4>1, <4>2
    <3>4. hdr[k].inuse = TRUE
      BY <1>2, <1>4, <3>1, <3>3 DEF FreeBut
    <3>5. k # i
      BY <1>4, <3>4
    <3> QED
      BY <1>13, <3>3, <3>4, <3>5
  <2> QED
    BY <2>1, <2>2, <2>3
<1>17. GivenInv(t, given')
  <2>1. i \in DOMAIN hdr => hdr[i].inuse # TRUE
    BY <1>4
  <2>2. (t[i].next - 1) * MBLOCKSIZE >= size
    <3> DEFINE m == t[i].next - 1
    <3>1. m \in Nat /\ m >= n
      BY <1>1, <1>11
    <3> HIDE DEF m
    <3>2. MBLOCKSIZE \in Nat
      BY MallocAssumption
    <3>3. m * MBLOCKSIZE >= size
      BY <1>1, <3>1, <3>2, MoreRoom
    <3> QED
      BY <3>3 DEF m
  <2>3. \A j \in DOMAIN hdr : hdr[j].inuse = TRUE =>
            j \in DOMAIN t /\ t[j].inuse = TRUE /\ t[j].next = hdr[j].next
    BY <1>4, <1>13
  <2>4. \A j \in DOMAIN t : t[j].inuse = TRUE => j = i \/ (j \in DOMAIN hdr /\ hdr[j].inuse = TRUE)
    BY <1>13, <1>14
  <2>5. GivenInv(t, given \cup {[at |-> i + 1, bytes |-> size]})
    BY <1>2, <1>3, <1>10, <1>11, <2>1, <2>2, <2>3, <2>4, GiveKeepsGiven
  <2> QED
    BY <1>5, <2>5
<1> QED
  BY <1>9, <1>12, <1>16, <1>17

\* malloc finds none and the heap grows by a block in use.
LEMMA SbrkStep ==
  ASSUME MalInv, NEW size \in Nat, heaptop + RoundUp(size) + 1 <= HeapLimit,
         heaptop' = heaptop + RoundUp(size) + 1,
         Give(Put(hdr, heaptop, Header(rightprevblock(heaptop), RoundUp(size) + 1, TRUE)), heaptop, size)
  PROVE  /\ heaptop' \in Nat /\ heaptop' <= HeapLimit
         /\ Chain(hdr', heaptop') /\ FreeBut(hdr', {}) /\ GivenInv(hdr', given')
<1> DEFINE n == RoundUp(size)
           m == n + 1
           i == heaptop
           p == rightprevblock(heaptop)
           v == Header(p, m, TRUE)
           t == Put(hdr, i, v)
<1>1. n \in Nat /\ n * MBLOCKSIZE >= size
  BY RoundUpFacts
<1>2. i \in Nat /\ i <= HeapLimit /\ Chain(hdr, i) /\ FreeBut(hdr, {}) /\ GivenInv(hdr, given)
  BY DEF MalInv
<1>3. hdr' = Dropped(t, i + 1 .. i + n) /\ given' = given \cup {[at |-> i + 1, bytes |-> size]}
  BY DEF Give
<1>4. /\ p \in Nat
      /\ i = 0 => p = 0
      /\ i # 0 => \E j \in DOMAIN hdr : j + hdr[j].next = i /\ p = hdr[j].next
  <2>1. CASE i = 0
    BY <2>1 DEF rightprevblock
  <2>2. CASE i # 0
    <3>1. \E j \in DOMAIN hdr : j + hdr[j].next = i /\ p = hdr[j].next
      BY <1>2, <2>2, BelowFacts
    <3>2. \A j \in DOMAIN hdr : hdr[j].next \in Nat
      BY <1>2, HdrFacts
    <3> QED
      BY <2>2, <3>1, <3>2
  <2> QED
    BY <2>1, <2>2
<1>5. heaptop' = i + m /\ i + m \in Nat /\ i + m <= HeapLimit /\ m \in Nat /\ m >= 1 /\ m - 1 = n
  BY <1>1, <1>2
<1> HIDE DEF p, n, m
<1>6. v \in HdrRec /\ v.prev = p /\ v.next = m /\ v.inuse = TRUE
  <2>1. p \in Nat /\ m \in Nat /\ m >= 1
    BY <1>4, <1>5
  <2> QED
    BY ONLY <2>1 DEF Header, HdrRec
<1> HIDE DEF v
<1>7. hdr \in [DOMAIN hdr -> HdrRec] /\ i \notin DOMAIN hdr
  BY <1>2 DEF Chain
<1>8. t \in [DOMAIN hdr \cup {i} -> HdrRec] /\ t[i] = v /\ \A k \in DOMAIN hdr : t[k] = hdr[k]
  BY ONLY <1>6, <1>7 DEF Put
<1> HIDE DEF t
<1>9. DOMAIN t = DOMAIN hdr \cup {i} /\ t \in [DOMAIN t -> HdrRec]
  BY <1>8
<1>10. Chain(t, i + m)
  <2> DEFINE D == DOMAIN hdr
             N == Nexts(hdr)
             P == Prevs(hdr)
             E == DOMAIN t
             U == Nexts(t)
             Q == Prevs(t)
  <2>1. Links(D, N, P, i)
    BY <1>2, <1>7, ChainLinks
  <2>2. \A x : x \in E <=> x \in D \/ x = i
    BY <1>9
  <2>3. U[i] = m /\ Q[i] = p
    BY <1>6, <1>8, <1>9 DEF Nexts, Prevs
  <2>4. \A j \in D : U[j] = N[j] /\ Q[j] = P[j]
    BY <1>8, <1>9 DEF Nexts, Prevs
  <2>5. i # 0 => \E j \in D : j + N[j] = i /\ p = N[j]
    BY <1>4 DEF Nexts
  <2>6. i \in Nat /\ m \in Nat /\ m >= 1
    BY <1>2, <1>5
  <2> HIDE DEF D, N, P, E, U, Q
  <2>7. Q[i] \in Nat /\ (i = 0 => Q[i] = 0) /\ (i # 0 => \E j \in D : j + N[j] = i /\ Q[i] = N[j])
    BY <1>4, <2>3, <2>5
  <2> HIDE DEF i
  <2>8. Links(E, U, Q, i + m)
    BY ONLY <2>1, <2>2, <2>3, <2>4, <2>6, <2>7, LinksGrow
  <2> QED
    BY <1>5, <1>9, <2>8, ChainLinks DEF E, U, Q
<1>11. hdr' = t
  <2>1. i \in DOMAIN t /\ t[i].next >= n + 1
    BY <1>1, <1>5, <1>6, <1>8, <1>9
  <2> QED
    BY <1>1, <1>3, <1>5, <1>10, <2>1, FillsNoHeader
<1>12. FreeBut(t, {})
  <2> SUFFICES ASSUME NEW j \in DOMAIN t, NEW k \in DOMAIN t, j + t[j].next = k
               PROVE  t[j].inuse = TRUE \/ t[k].inuse = TRUE
    BY DEF FreeBut
  <2>1. CASE j = i \/ k = i
    BY <1>6, <1>8, <2>1
  <2>2. CASE j # i /\ k # i
    <3>1. j \in DOMAIN hdr /\ k \in DOMAIN hdr /\ t[j] = hdr[j] /\ t[k] = hdr[k]
      BY <1>8, <1>9, <2>2
    <3>2. hdr[j].inuse = TRUE \/ hdr[k].inuse = TRUE
      BY <1>2, <3>1 DEF FreeBut
    <3> QED
      BY <3>1, <3>2
  <2> QED
    BY <2>1, <2>2
<1>13. GivenInv(t, given \cup {[at |-> i + 1, bytes |-> size]})
  <2>1. i \in DOMAIN t /\ t[i].inuse = TRUE /\ t[i].next - 1 = n
    BY <1>5, <1>6, <1>8, <1>9
  <2>2. (t[i].next - 1) * MBLOCKSIZE >= size
    BY <1>1, <2>1
  <2>3. \A j \in DOMAIN hdr : hdr[j].inuse = TRUE =>
            j \in DOMAIN t /\ t[j].inuse = TRUE /\ t[j].next = hdr[j].next
    BY <1>8, <1>9
  <2>4. \A j \in DOMAIN t : t[j].inuse = TRUE => j = i \/ (j \in DOMAIN hdr /\ hdr[j].inuse = TRUE)
    BY <1>8, <1>9
  <2>5. i \in DOMAIN hdr => hdr[i].inuse # TRUE
    BY <1>7
  <2> QED
    BY <1>2, <2>1, <2>2, <2>3, <2>4, <2>5, GiveKeepsGiven
<1>14. GivenInv(t, given')
  BY <1>3, <1>13
<1> QED
  BY <1>5, <1>10, <1>11, <1>12, <1>14

LEMMA MallocStep ==
  ASSUME MalInv, NEW size \in MallocSizes, malloc(size)
  PROVE  MalInv'
<1>1. size \in Nat
  BY MallocAssumption
<1>2. heaptop \in Nat /\ heaptop <= HeapLimit /\ Chain(hdr, heaptop) /\ errxed = FALSE
  BY DEF MalInv
<1>3. Blocks = DOMAIN hdr
  BY <1>2, WalkFacts
<1>4. \A i \in DOMAIN hdr : BlockOK(i)
  BY <1>2, ChecksPass
<1> DEFINE n == RoundUp(size)
           found == {i \in Blocks : Fits(i, n)}
           seen == IF found = {} THEN Blocks ELSE {i \in Blocks : i <= Min(found)}
<1>5. \A i \in seen : i \in DOMAIN hdr
  BY <1>3
<1>6. CASE (\E i \in seen : ~BlockOK(i))
  BY <1>4, <1>5, <1>6
<1>7. CASE /\ found # {}
           /\ Give([malloc_split(hdr, Min(found), n) EXCEPT ![Min(found)].inuse = TRUE], Min(found), size)
           /\ UNCHANGED <<heaptop, errxed>>
  <2> DEFINE i == Min(found)
  <2>1. i \in found
    <3>1. \A x \in found : x \in Nat
      BY <1>2, <1>3, HdrFacts
    <3>2. found \in SUBSET Nat
      BY <3>1
    <3> HIDE DEF found
    <3>3. PICK x \in found : TRUE
      BY <1>7
    <3> QED
      BY <3>2, MinOfNats
  <2>2. i \in DOMAIN hdr /\ Fits(i, n)
    BY <1>3, <2>1
  <2>3. Give([malloc_split(hdr, i, n) EXCEPT ![i].inuse = TRUE], i, size)
    BY <1>7
  <2> HIDE DEF i
  <2>4. Chain(hdr', heaptop) /\ FreeBut(hdr', {}) /\ GivenInv(hdr', given')
    BY <1>1, <2>2, <2>3, FoundStep
  <2> QED
    BY <1>2, <1>7, <2>4 DEF MalInv
<1>8. CASE /\ heaptop + n + 1 <= HeapLimit
           /\ heaptop' = heaptop + n + 1
           /\ Give(Put(hdr, heaptop, Header(rightprevblock(heaptop), n + 1, TRUE)), heaptop, size)
           /\ UNCHANGED errxed
  <2>1. /\ heaptop' \in Nat /\ heaptop' <= HeapLimit
        /\ Chain(hdr', heaptop') /\ FreeBut(hdr', {}) /\ GivenInv(hdr', given')
    BY <1>1, <1>8, SbrkStep
  <2> QED
    BY <1>2, <1>8, <2>1 DEF MalInv
<1> QED
  BY <1>6, <1>7, <1>8 DEF malloc

\* What is left of the blocks when b is given back.
LEMMA FreeKeepsGiven ==
  ASSUME NEW h, NEW g, GivenInv(h, g), \A k \in DOMAIN h : k \in Nat, NEW b \in g, NEW f,
         UseSet(h, f, b.at - 1, FALSE), NEW t, Kept(f, t)
  PROVE  GivenInv(t, g \ {b})
<1>0. \A c \in g : c \in GivenRec
  BY DEF GivenInv
<1>1. \A c \in g : c.at \in Nat /\ c.at >= 1
  BY <1>0 DEF GivenRec
<1> DEFINE i == b.at - 1
<1>2. i \in DOMAIN h /\ DOMAIN f = DOMAIN h
  BY DEF GivenInv, UseSet
<1>3. f[i].inuse = FALSE /\ \A k \in DOMAIN h : f[k].next = h[k].next /\ (k # i => f[k].inuse = h[k].inuse)
  BY <1>2 DEF UseSet
<1>4. ASSUME NEW c \in g \ {b}
      PROVE  /\ c.at - 1 \in DOMAIN t /\ t[c.at - 1].inuse = TRUE
             /\ (t[c.at - 1].next - 1) * MBLOCKSIZE >= c.bytes
  <2> DEFINE j == c.at - 1
  <2>1. j \in DOMAIN h /\ h[j].inuse = TRUE /\ (h[j].next - 1) * MBLOCKSIZE >= c.bytes
    BY DEF GivenInv
  <2>2. c.at # b.at
    BY DEF GivenInv
  <2>3. j # i
    BY <1>1, <2>2
  <2> HIDE DEF j, i
  <2>4. f[j].inuse = TRUE /\ f[j].next = h[j].next /\ j \in DOMAIN f
    BY <1>2, <1>3, <2>1, <2>3
  <2>5. j \in DOMAIN t /\ t[j].next = f[j].next
    BY <2>4 DEF Kept
  <2>6. t[j].inuse = TRUE
    BY <2>4, <2>5 DEF Kept
  <2>7. (t[j].next - 1) * MBLOCKSIZE >= c.bytes
    BY <2>1, <2>4, <2>5
  <2> QED
    BY <2>5, <2>6, <2>7 DEF j
<1>5. ASSUME NEW j \in DOMAIN t, t[j].inuse = TRUE PROVE \E c \in g \ {b} : c.at = j + 1
  <2> HIDE DEF i
  <2>1. j \in DOMAIN f /\ f[j].inuse = TRUE
    BY <1>5 DEF Kept
  <2>2. j # i
    BY <1>3, <2>1
  <2>3. h[j].inuse = TRUE /\ j \in DOMAIN h
    BY <1>2, <1>3, <2>1, <2>2
  <2>4. PICK c \in g : c.at = j + 1
    BY <2>3 DEF GivenInv
  <2>5. c # b
    <3> SUFFICES ASSUME c = b PROVE FALSE
      OBVIOUS
    <3>1. b.at = j + 1 /\ b.at \in Nat
      BY <1>1, <2>4
    <3> QED
      BY <2>2, <2>3, <3>1 DEF i
  <2> QED
    BY <2>4, <2>5
<1>6. \A c, d \in g \ {b} : c.at = d.at => c = d
  BY DEF GivenInv
<1> QED
  BY <1>0, <1>4, <1>5, <1>6 DEF GivenInv

LEMMA FreeStep ==
  ASSUME MalInv, NEW b \in given, free(b)
  PROVE  MalInv'
<1> DEFINE i == b.at - 1
           up == i + hdr[i].next
           down == i - hdr[i].prev
           h0 == [hdr EXCEPT ![i].inuse = FALSE]
           h1 == MergeUp(h0, i)
           h2 == MergeDown(h1, i)
<1>1. heaptop \in Nat /\ heaptop <= HeapLimit /\ Chain(hdr, heaptop) /\ errxed = FALSE
      /\ FreeBut(hdr, {}) /\ GivenInv(hdr, given)
  BY DEF MalInv
<1>2. i \in DOMAIN hdr /\ hdr[i].inuse = TRUE
  BY <1>1 DEF GivenInv
<1>3. up # heaptop => up \in DOMAIN hdr /\ hdr[up].prev = hdr[i].next
  <2>1. up = heaptop \/ up \in DOMAIN hdr
    BY <1>1, <1>2, HdrFacts
  <2> QED
    BY <1>1, <1>2, <2>1 DEF Chain
<1>4. i # 0 => down \in DOMAIN hdr /\ hdr[down].next = hdr[i].prev
  <2> SUFFICES ASSUME i # 0 PROVE down \in DOMAIN hdr /\ hdr[down].next = hdr[i].prev
    OBVIOUS
  <2> HIDE DEF i
  <2>1. PICK j \in DOMAIN hdr : j + hdr[j].next = i
    BY <1>1, <1>2 DEF Chain
  <2>2. hdr[i].prev = hdr[j].next
    BY <1>1, <1>2, <2>1 DEF Chain
  <2>3. j \in Nat /\ hdr[j].next \in Nat
    BY <1>1, HdrFacts
  <2>4. down = j
    BY <2>1, <2>2, <2>3
  <2> QED
    BY <2>2, <2>4
<1>5. given' = given \ {b} /\ heaptop' = heaptop
  BY DEF free
<1>6. ~(\/ i \notin DOMAIN hdr \/ ~hdr[i].inuse
        \/ up # heaptop /\ (up \notin DOMAIN hdr \/ hdr[up].prev # hdr[i].next)
        \/ i # 0 /\ (down \notin DOMAIN hdr \/ hdr[down].next # hdr[i].prev))
  <2> HIDE DEF i, up, down
  <2> QED
    BY <1>2, <1>3, <1>4
<1>7. hdr' = h2 /\ errxed' = errxed
  BY <1>6 DEF free
<1> HIDE DEF i
<1>8. hdr \in [DOMAIN hdr -> HdrRec] /\ FALSE \in BOOLEAN
  BY <1>1 DEF Chain
<1>9. UseSet(hdr, h0, i, FALSE)
  BY <1>2, <1>8, UseSetFacts
<1> HIDE DEF h0
<1>10. Chain(h0, heaptop)
  BY <1>1, <1>9, UseKeepsChain
<1>11. DOMAIN h0 = DOMAIN hdr /\ \A k \in DOMAIN hdr : h0[k].next = hdr[k].next /\ (k # i => h0[k].inuse = hdr[k].inuse)
  BY <1>9 DEF UseSet
<1>12. FreeBut(h0, {i, i + h0[i].next})
  <2> SUFFICES ASSUME NEW j \in DOMAIN h0, NEW k \in DOMAIN h0, j + h0[j].next = k, k # i, k # i + h0[i].next
               PROVE  h0[j].inuse = TRUE \/ h0[k].inuse = TRUE
    BY DEF FreeBut
  <2>1. j # i
    OBVIOUS
  <2>2. hdr[j].inuse = TRUE \/ hdr[k].inuse = TRUE
    BY <1>1, <1>11 DEF FreeBut
  <2> QED
    BY <1>11, <2>1, <2>2
<1>13. Chain(h1, heaptop) /\ FreeBut(h1, {i}) /\ Kept(h0, h1) /\ i \in DOMAIN h1
  BY <1>1, <1>2, <1>10, <1>11, <1>12, MergeUpFacts
<1> HIDE DEF h1
<1>14. Chain(h2, heaptop) /\ FreeBut(h2, {}) /\ Kept(h1, h2)
  BY <1>1, <1>13, MergeDownFacts
<1> HIDE DEF h2
<1>15. Kept(h0, h2)
  BY <1>13, <1>14, KeptTrans
<1>16. GivenInv(h2, given \ {b})
  <2>1. \A k \in DOMAIN hdr : k \in Nat
    BY <1>1 DEF Chain
  <2> QED
    BY <1>1, <1>9, <1>15, <2>1, FreeKeepsGiven DEF i
<1> QED
  BY <1>1, <1>5, <1>7, <1>14, <1>16 DEF MalInv

LEMMA MallocInit == mallocInit => MalInv
<1> SUFFICES ASSUME mallocInit PROVE MalInv
  OBVIOUS
<1>1. DOMAIN hdr = {} /\ hdr \in [{} -> HdrRec] /\ heaptop = 0 /\ given = {} /\ errxed = FALSE
  BY DEF mallocInit
<1>2. Chain(hdr, heaptop)
  BY <1>1 DEF Chain
<1>3. FreeBut(hdr, {}) /\ GivenInv(hdr, given)
  BY <1>1 DEF FreeBut, GivenInv
<1> QED
  BY <1>1, <1>2, <1>3, MallocAssumption DEF MalInv

LEMMA MalInvIsWhole == MalInv => HeapIsWhole
<1> SUFFICES ASSUME MalInv PROVE HeapIsWhole
  OBVIOUS
<1>1. heaptop \in Nat /\ heaptop <= HeapLimit /\ Chain(hdr, heaptop) /\ errxed = FALSE
      /\ FreeBut(hdr, {}) /\ GivenInv(hdr, given)
  BY DEF MalInv
<1>2. Walk[0] = DOMAIN hdr \cup {heaptop} /\ Blocks = DOMAIN hdr
  BY <1>1, WalkFacts
<1>3. \A i \in Blocks : BlockOK(i)
  BY <1>1, <1>2, ChecksPass
<1>4. \A i \in DOMAIN hdr : i \in Nat /\ hdr[i].inuse \in BOOLEAN
  BY <1>1, HdrFacts
<1>5. \A b \in given : b \in GivenRec
  BY <1>1 DEF GivenInv
<1>6. \A b \in given : b.at \in Nat
  BY <1>5 DEF GivenRec
<1> DEFINE A == {b.at - 1 : b \in given}
           U == {i \in Blocks : i \in DOMAIN hdr /\ hdr[i].inuse}
<1>7. A = U
  <2>1. ASSUME NEW b \in given PROVE b.at - 1 \in U
    <3>1. b.at - 1 \in DOMAIN hdr /\ hdr[b.at - 1].inuse = TRUE
      BY <1>1 DEF GivenInv
    <3> QED
      BY <1>2, <3>1
  <2>2. ASSUME NEW i \in U PROVE i \in A
    <3>1. i \in DOMAIN hdr /\ hdr[i].inuse = TRUE /\ i \in Nat
      BY <1>4
    <3>2. PICK b \in given : b.at = i + 1
      BY <1>1, <3>1 DEF GivenInv
    <3>3. b.at - 1 = i
      BY <3>1, <3>2
    <3> QED
      BY <3>3
  <2> QED
    BY <2>1, <2>2
<1>8. \A b \in given : M_SIZE(hdr, b.at - 1) * MBLOCKSIZE >= b.bytes
  BY <1>1 DEF GivenInv, M_SIZE
<1>9. \A b, c \in given : b.at = c.at => b = c
  BY <1>1 DEF GivenInv
<1>10. \A i \in Blocks \ {0} : hdr[i].inuse \/ hdr[i - hdr[i].prev].inuse
  <2> SUFFICES ASSUME NEW i \in DOMAIN hdr, i # 0 PROVE hdr[i].inuse \/ hdr[i - hdr[i].prev].inuse
    BY <1>2
  <2>1. PICK j \in DOMAIN hdr : j + hdr[j].next = i
    BY <1>1 DEF Chain
  <2>2. hdr[i].prev = hdr[j].next
    BY <1>1, <2>1 DEF Chain
  <2>3. j \in Nat /\ hdr[j].next \in Nat
    BY <1>1, HdrFacts
  <2>4. i - hdr[i].prev = j
    BY <2>1, <2>2, <2>3
  <2>5. hdr[j].inuse = TRUE \/ hdr[i].inuse = TRUE
    BY <1>1, <2>1 DEF FreeBut
  <2> QED
    BY <2>4, <2>5
<1>11. heaptop \in Walk[0]
  BY <1>2
<1> QED
  BY <1>1, <1>3, <1>7, <1>8, <1>9, <1>10, <1>11 DEF HeapIsWhole

\* malloc and free of the C library, for every block size, every set of sizes asked for and
\* every limit of sbrk: after any sequence of calls no consistency check has ended the
\* program, the headers lead from __heapbase to __heaptop and agree with their neighbours,
\* each block the program has is one block in use that is large enough for it, and no two
\* free blocks are neighbours.
THEOREM UserHeapStaysWhole == mallocSpec => []HeapIsWhole
<1>1. mallocInit => MalInv
  BY MallocInit
<1>2. MalInv /\ [mallocNext]_mallocVars => MalInv'
  <2> SUFFICES ASSUME MalInv, [mallocNext]_mallocVars PROVE MalInv'
    OBVIOUS
  <2>1. CASE UNCHANGED mallocVars
    <3>1. hdr' = hdr /\ heaptop' = heaptop /\ given' = given /\ errxed' = errxed
      BY <2>1 DEF mallocVars
    <3> QED
      BY <3>1 DEF MalInv
  <2>2. CASE \E size \in MallocSizes : malloc(size)
    BY <2>2, MallocStep
  <2>3. CASE \E b \in given : free(b)
    BY <2>3, FreeStep
  <2> QED
    BY <2>1, <2>2, <2>3 DEF mallocNext
<1>3. MalInv => HeapIsWhole
  BY MalInvIsWhole
<1> QED
  BY <1>1, <1>2, <1>3, PTL DEF mallocSpec

-----------------------------------------------------------------------------
(* Programs on dumbvm: the invariant *)

Mult(x) == x \in Nat /\ x % PGSIZE = 0

DumbMarks == {JUNK, ZERO, KERNEL} \cup DumbThread
DumbStages == {"new", "define", "pbase1", "pbase2", "stackpbase", "zero", "load", "run", "failed", "dead"}

\* The three areas of an address space: where in memory, how long, and at which address of
\* the program.
AreaBase(as, k) == IF k = 1 THEN as.pbase1 ELSE IF k = 2 THEN as.pbase2 ELSE as.stackpbase
AreaSize(as, k) == (IF k = 1 THEN as.npages1 ELSE IF k = 2 THEN as.npages2 ELSE DUMBVM_STACKPAGES) * PGSIZE
AreaAt(as, k) == IF k = 1 THEN as.vbase1 ELSE IF k = 2 THEN as.vbase2
                 ELSE USERSTACK - DUMBVM_STACKPAGES * PGSIZE

\* How many of them as_prepare_load has got.
GotAt == [s \in DumbStages |-> IF s = "pbase2" THEN 1 ELSE IF s = "stackpbase" THEN 2
                               ELSE IF s \in {"zero", "load", "run"} THEN 3 ELSE 0]

SpaceRec == [vbase1 : Nat, npages1 : Nat, pbase1 : Nat, vbase2 : Nat, npages2 : Nat, pbase2 : Nat,
             stackpbase : Nat]
SpaceOK(as) ==
  /\ as \in SpaceRec
  /\ Mult(as.vbase1) /\ Mult(as.vbase2)
  /\ AreaSize(as, 1) < ADDRESSES /\ AreaSize(as, 2) < ADDRESSES

InArea(as, k, f) == AreaBase(as, k) <= f /\ f < AreaBase(as, k) + AreaSize(as, k)

\* Thread t with address space as at stage s has got area k with page f.
Owns(as, s, k, f) == k \in 1 .. 3 /\ k <= GotAt[s] /\ InArea(as, k, f)

DumbType ==
  /\ firstpaddr \in Nat /\ Mult(firstpaddr) /\ FirstFree <= firstpaddr /\ firstpaddr <= RamSize
  /\ space \in [DumbThread -> SpaceRec]
  /\ stage \in [DumbThread -> DumbStages]
  /\ prog \in [DumbThread -> Seq(Segments)]
  /\ loadat \in [DumbThread -> Nat \ {0}]
  /\ dcur \in DumbThread
  /\ ram \in [Frames -> DumbMarks]
  /\ wrote \in [DumbThread -> [UserPages -> DumbMarks]]
  /\ \A t \in DumbThread : SpaceOK(space[t])

\* Every area lies in memory that has been handed out; no page is in two of them or the kernel's.
AreasApart(sp, st, kp, first) ==
  /\ \A t \in DumbThread : \A k \in 1 .. 3 : k <= GotAt[st[t]] =>
       /\ Mult(AreaBase(sp[t], k)) /\ FirstFree <= AreaBase(sp[t], k)
       /\ AreaBase(sp[t], k) + AreaSize(sp[t], k) <= first
  /\ \A t, u \in DumbThread : \A k, l \in 1 .. 3 : \A f \in Nat :
       Owns(sp[t], st[t], k, f) /\ Owns(sp[u], st[u], l, f) => t = u /\ k = l
  /\ \A t \in DumbThread : \A k \in 1 .. 3 : \A f \in kp : ~Owns(sp[t], st[t], k, f)
  /\ \A f \in kp : f \in Frames /\ f < first

\* What programs find.
Contents(sp, st, rm, wr, kp) ==
  /\ \A f \in kp : rm[f] = KERNEL
  /\ \A t \in DumbThread : st[t] \in {"load", "run"} =>
       \A v \in UserPages : FrameOf(sp[t], v) # NoFrame => rm[FrameOf(sp[t], v)] = wr[t][v]
  /\ \A t \in DumbThread : st[t] \in {"new", "define", "pbase1", "pbase2", "stackpbase", "zero"} =>
       wr[t] = [v \in UserPages |-> ZERO]

TlbOK ==
  /\ stage[dcur] \in {"define", "pbase1", "pbase2", "stackpbase", "zero"} => dtlb = {}
  /\ HasSpace(dcur) => \A e \in dtlb : e[1] \in UserPages /\ e[2] = FrameOf(space[dcur], e[1])

\* The regions of an ordinary executable have been set, of them all or of those before i.
SetUp(as, i) ==
  /\ as.vbase1 # 0 <=> i > 1
  /\ as.vbase2 # 0 <=> i > 2
  /\ i > 1 => as.npages1 # 0
  /\ i > 2 => as.npages2 # 0
RegionsSet(sp, st, pr, la) ==
  \A t \in DumbThread :
    /\ st[t] = "new" => sp[t] = as_create /\ la[t] = 1
    /\ st[t] = "define" /\ Ordinary(pr[t]) => la[t] \in 1 .. 3 /\ SetUp(sp[t], la[t])
    /\ st[t] \in {"pbase1", "pbase2", "stackpbase", "zero", "load", "run"} /\ Ordinary(pr[t]) =>
         SetUp(sp[t], 3)

DumbCore ==
  /\ DumbType
  /\ AreasApart(space, stage, kpages, firstpaddr)
  /\ Contents(space, stage, ram, wrote, kpages)
  /\ TlbOK
  /\ RegionsSet(space, stage, prog, loadat)
  /\ died = "assertion" => ~Ordinary(prog[dcur])

DumbInv == died = "overrun" \/ DumbCore

-----------------------------------------------------------------------------
(* Whole pages *)

LEMMA DumbConstants ==
  /\ PGSIZE \in Nat /\ PGSIZE >= 1 /\ ADDRESSES \in Nat /\ USERSTACK \in Nat /\ DUMBVM_STACKPAGES \in Nat
  /\ FirstFree \in Nat /\ RamSize \in Nat /\ NUM_TLB \in Nat
  /\ Mult(USERSTACK) /\ Mult(FirstFree) /\ 0 < FirstFree /\ FirstFree <= RamSize
  /\ RamSize + RamSize < ADDRESSES /\ USERSTACK < ADDRESSES /\ ADDRESSES >= 1
  /\ DUMBVM_STACKPAGES * PGSIZE <= USERSTACK /\ DUMBVM_STACKPAGES * PGSIZE \in Nat
  /\ DumbThread # {} /\ DumbPrograms \subseteq Seq(Segments) /\ Touched \subseteq UserPages
<1>1. PGSIZE \in Nat /\ ADDRESSES \in Nat /\ USERSTACK \in Nat /\ DUMBVM_STACKPAGES \in Nat
      /\ FirstFree \in Nat /\ RamSize \in Nat /\ NUM_TLB \in Nat
  BY DumbvmAssumption
<1>2. DUMBVM_STACKPAGES * PGSIZE \in Nat
  BY <1>1
<1> QED
  BY <1>1, <1>2, DumbvmAssumption DEF Mult

LEMMA DivFacts ==
  ASSUME NEW x \in Nat
  PROVE  /\ x \div PGSIZE \in Nat /\ x % PGSIZE \in Nat /\ x % PGSIZE < PGSIZE
         /\ x = (x \div PGSIZE) * PGSIZE + (x % PGSIZE)
<1> DEFINE P == PGSIZE
           q == x \div P
           r == x % P
<1>1. P \in Nat /\ P >= 1
  BY DumbConstants
<1> HIDE DEF P
<1>2. q \in Nat /\ r \in Nat /\ r < P /\ x = P * q + r
  BY <1>1
<1> HIDE DEF q, r
<1>3. P * q = q * P
  BY <1>1, <1>2
<1> QED
  BY <1>2, <1>3 DEF P, q, r

LEMMA MultTimes ==
  ASSUME NEW n \in Nat
  PROVE  Mult(n * PGSIZE) /\ (n * PGSIZE) \div PGSIZE = n
<1> DEFINE P == PGSIZE
           x == n * P
           q == x \div P
           r == x % P
           d == n - q
           y == d * P
<1>1. P \in Nat /\ P >= 1
  BY DumbConstants
<1>2. x \in Nat
  BY <1>1
<1>3. q \in Nat /\ r \in Nat /\ r < P /\ x = q * P + r
  BY <1>2, DivFacts
<1> HIDE DEF q, r, P
<1>4. d \in Int /\ y \in Int /\ y = n * P - q * P
  BY <1>1, <1>3
<1>5. y = r
  <2> DEFINE z == q * P
  <2>1. z \in Nat
    BY <1>1, <1>3
  <2> HIDE DEF z
  <2> QED
    BY <1>2, <1>3, <1>4, <2>1 DEF z
<1>6. d >= 1 => y >= P
  <2> SUFFICES ASSUME d >= 1 PROVE y >= P
    OBVIOUS
  <2> DEFINE c == d - 1
  <2>1. c \in Nat /\ d = c + 1
    BY <1>4
  <2> HIDE DEF d
  <2>2. y = c * P + P
    BY <1>1, <2>1
  <2> HIDE DEF c
  <2>3. c * P \in Nat
    BY <1>1, <2>1
  <2> HIDE DEF y
  <2> QED
    BY <1>1, <2>2, <2>3
<1>7. d <= 0 - 1 => y < 0
  <2> SUFFICES ASSUME d <= 0 - 1 PROVE y < 0
    OBVIOUS
  <2> DEFINE c == 0 - d - 1
  <2>1. c \in Nat /\ d = 0 - c - 1
    BY <1>4
  <2> HIDE DEF d
  <2>2. y = 0 - c * P - P
    BY <1>1, <2>1
  <2> HIDE DEF c
  <2>3. c * P \in Nat
    BY <1>1, <2>1
  <2> HIDE DEF y
  <2> QED
    BY <1>1, <2>2, <2>3
<1> HIDE DEF y
<1>8. d = 0
  BY <1>1, <1>3, <1>4, <1>5, <1>6, <1>7
<1>9. y = 0
  BY <1>1, <1>8 DEF y
<1>10. r = 0 /\ q = n
  BY <1>3, <1>5, <1>8, <1>9
<1> QED
  BY <1>2, <1>10 DEF Mult, P, q, r

LEMMA MultIs ==
  ASSUME NEW x, Mult(x)
  PROVE  x \in Nat /\ x \div PGSIZE \in Nat /\ x = (x \div PGSIZE) * PGSIZE
<1>1. x \in Nat /\ x % PGSIZE = 0
  BY DEF Mult
<1> DEFINE y == (x \div PGSIZE) * PGSIZE
<1>2. x \div PGSIZE \in Nat /\ x = y + 0
  BY <1>1, DivFacts
<1>3. y \in Nat
  BY <1>2, DumbConstants
<1> HIDE DEF y
<1>4. x = y
  BY <1>2, <1>3
<1> QED
  BY <1>1, <1>2, <1>4 DEF y

LEMMA MultSums ==
  ASSUME NEW x, NEW y, Mult(x), Mult(y)
  PROVE  Mult(x + y) /\ (y <= x => Mult(x - y))
<1> DEFINE P == PGSIZE
           a == x \div P
           b == y \div P
<1>1. x \in Nat /\ y \in Nat /\ a \in Nat /\ b \in Nat /\ x = a * P /\ y = b * P
  BY MultIs
<1>2. P \in Nat /\ P >= 1
  BY DumbConstants
<1> HIDE DEF a, b, P
<1>3. x + y = (a + b) * P /\ x - y = (a - b) * P
  BY <1>1, <1>2
<1>4. Mult(x + y)
  <2>1. Mult((a + b) * P)
    BY <1>1, MultTimes DEF P
  <2> QED
    BY <1>3, <2>1
<1>5. ASSUME y <= x PROVE Mult(x - y)
  <2>1. a >= b
    <3> SUFFICES ASSUME b > a PROVE FALSE
      BY <1>1
    <3> DEFINE c == b - a - 1
    <3>1. c \in Nat /\ b = a + c + 1
      BY <1>1
    <3> HIDE DEF c
    <3>2. y = a * P + c * P + P
      BY <1>1, <1>2, <3>1
    <3>3. c * P \in Nat
      BY <1>2, <3>1
    <3> DEFINE u == a * P
               w == c * P
    <3>4. u = x /\ w \in Nat /\ y = u + w + P
      BY <1>1, <3>2, <3>3
    <3> HIDE DEF u, w
    <3> QED
      BY <1>1, <1>2, <1>5, <3>4
  <2>2. a - b \in Nat
    BY <1>1, <2>1
  <2>3. Mult((a - b) * P)
    BY <2>2, MultTimes DEF P
  <2> QED
    BY <1>3, <2>3
<1> QED
  BY <1>4, <1>5

LEMMA PageFrameFacts ==
  ASSUME NEW a \in Nat
  PROVE  Mult(page_frame(a)) /\ page_frame(a) <= a /\ (page_frame(a) \div PGSIZE) * PGSIZE = page_frame(a)
         /\ page_frame(a) \div PGSIZE \in Nat
<1> DEFINE P == PGSIZE
           q == a \div P
           r == a % P
           y == q * P
<1>1. q \in Nat /\ r \in Nat /\ a = y + r
  BY DivFacts
<1>2. Mult(y) /\ y \div P = q
  BY <1>1, MultTimes
<1>3. y \in Nat
  BY <1>2 DEF Mult
<1> HIDE DEF q, r, y
<1>4. a - r = y /\ y <= a
  BY <1>1, <1>3
<1>5. page_frame(a) = y
  BY <1>4 DEF page_frame, r
<1> QED
  BY <1>1, <1>2, <1>4, <1>5 DEF y

\* Addresses wrap at most once.
LEMMA WrapFacts ==
  ASSUME NEW n \in Nat
  PROVE  /\ wrap(n) \in Nat /\ wrap(n) < ADDRESSES
         /\ n < ADDRESSES => wrap(n) = n
         /\ ADDRESSES <= n /\ n < ADDRESSES + ADDRESSES => wrap(n) = n - ADDRESSES
  BY DumbConstants DEF wrap

LEMMA RegionFacts ==
  ASSUME NEW vaddr \in Nat, NEW sz \in Nat
  PROVE  LET r == RegionOf(vaddr, sz)
         IN  Mult(r.vbase) /\ r.npages \in Nat /\ r.npages * PGSIZE < ADDRESSES /\ r.vbase = page_frame(vaddr)
<1> DEFINE x == sz + (vaddr % PGSIZE) + PGSIZE - 1
           w == wrap(x)
<1>1. x \in Nat
  BY DivFacts, DumbConstants
<1> HIDE DEF x
<1>2. w \in Nat /\ w < ADDRESSES
  BY <1>1, WrapFacts
<1> HIDE DEF w
<1> DEFINE f == page_frame(w)
<1>3. Mult(f) /\ f <= w /\ (f \div PGSIZE) * PGSIZE = f /\ f \div PGSIZE \in Nat
  BY <1>2, PageFrameFacts
<1>4. RegionOf(vaddr, sz) = [vbase |-> page_frame(vaddr), npages |-> f \div PGSIZE]
  BY DEF RegionOf, f, w, x
<1> HIDE DEF f
<1>5. f \in Nat
  BY <1>3 DEF Mult
<1>6. (f \div PGSIZE) * PGSIZE < ADDRESSES
  BY <1>2, <1>3, <1>5, DumbConstants
<1>7. Mult(page_frame(vaddr))
  BY PageFrameFacts
<1> QED
  BY <1>3, <1>4, <1>6, <1>7

-----------------------------------------------------------------------------
(* Where vm_fault finds a page *)

\* vm_fault's tests, one for each area; the first that holds counts.
InRegion(as, k, v) ==
  AreaAt(as, k) <= v /\ (k # 3 => v < wrap(AreaAt(as, k) + AreaSize(as, k)))
FirstIn(as, k, v) == InRegion(as, k, v) /\ \A j \in 1 .. 3 : j < k => ~InRegion(as, j, v)

LEMMA AreaIs ==
  ASSUME NEW as
  PROVE  /\ AreaBase(as, 1) = as.pbase1 /\ AreaBase(as, 2) = as.pbase2 /\ AreaBase(as, 3) = as.stackpbase
         /\ AreaSize(as, 1) = as.npages1 * PGSIZE /\ AreaSize(as, 2) = as.npages2 * PGSIZE
         /\ AreaSize(as, 3) = DUMBVM_STACKPAGES * PGSIZE
         /\ AreaAt(as, 1) = as.vbase1 /\ AreaAt(as, 2) = as.vbase2
         /\ AreaAt(as, 3) = USERSTACK - DUMBVM_STACKPAGES * PGSIZE
  BY DEF AreaBase, AreaSize, AreaAt

LEMMA AreaTypes ==
  ASSUME NEW as, SpaceOK(as), NEW k \in 1 .. 3
  PROVE  /\ AreaBase(as, k) \in Nat /\ AreaSize(as, k) \in Nat /\ AreaAt(as, k) \in Nat
         /\ AreaSize(as, k) < ADDRESSES /\ Mult(AreaAt(as, k)) /\ Mult(AreaSize(as, k))
<1>1. as \in SpaceRec /\ Mult(as.vbase1) /\ Mult(as.vbase2) /\ AreaSize(as, 1) < ADDRESSES /\ AreaSize(as, 2) < ADDRESSES
  BY DEF SpaceOK
<1>2. /\ as.pbase1 \in Nat /\ as.pbase2 \in Nat /\ as.stackpbase \in Nat /\ as.npages1 \in Nat /\ as.npages2 \in Nat
      /\ as.vbase1 \in Nat /\ as.vbase2 \in Nat
  BY <1>1 DEF SpaceRec
<1> DEFINE s == DUMBVM_STACKPAGES * PGSIZE
<1>a. Mult(s)
  BY DumbConstants, MultTimes
<1>b. s \in Nat /\ s <= USERSTACK /\ USERSTACK < ADDRESSES /\ USERSTACK \in Nat /\ ADDRESSES \in Nat
  BY DumbConstants
<1> HIDE DEF s
<1>3. Mult(s) /\ s \in Nat /\ s <= USERSTACK /\ s < ADDRESSES /\ USERSTACK \in Nat
  BY <1>a, <1>b
<1>4. Mult(USERSTACK - s) /\ USERSTACK - s \in Nat
  BY <1>3, DumbConstants, MultSums DEF Mult
<1>5. AreaSize(as, 3) = s /\ AreaAt(as, 3) = USERSTACK - s
  BY DEF AreaSize, AreaAt, s
<1>6. AreaSize(as, 1) = as.npages1 * PGSIZE /\ AreaSize(as, 2) = as.npages2 * PGSIZE
  BY DEF AreaSize
<1>7. Mult(AreaSize(as, 1)) /\ Mult(AreaSize(as, 2))
  BY <1>2, <1>6, MultTimes
<1>8. AreaSize(as, 1) \in Nat /\ AreaSize(as, 2) \in Nat
  BY <1>7 DEF Mult
<1>9. k = 1 \/ k = 2 \/ k = 3
  OBVIOUS
<1>10. AreaBase(as, k) \in Nat
  BY <1>2 DEF AreaBase
<1>11. AreaAt(as, 1) = as.vbase1 /\ AreaAt(as, 2) = as.vbase2
  BY DEF AreaAt
<1> QED
  BY <1>1, <1>2, <1>3, <1>4, <1>5, <1>7, <1>8, <1>9, <1>10, <1>11

LEMMA UserPageFacts ==
  ASSUME NEW v \in UserPages
  PROVE  v \in Nat /\ Mult(v) /\ v < USERSTACK
  BY DumbConstants DEF UserPages, Mult

LEMMA InRegionFacts ==
  ASSUME NEW as, SpaceOK(as), NEW k \in 1 .. 3, NEW v \in UserPages, InRegion(as, k, v)
  PROVE  AreaAt(as, k) <= v /\ v < AreaAt(as, k) + AreaSize(as, k)
<1>1. AreaSize(as, k) \in Nat /\ AreaAt(as, k) \in Nat /\ AreaSize(as, k) < ADDRESSES
  BY AreaTypes
<1>2. v \in Nat /\ v < USERSTACK /\ USERSTACK \in Nat /\ AreaAt(as, k) <= v
  BY UserPageFacts, DumbConstants DEF InRegion
<1>3. CASE k # 3
  <2> DEFINE n == AreaAt(as, k) + AreaSize(as, k)
  <2>1. v < wrap(n)
    BY <1>3 DEF InRegion
  <2>a. USERSTACK < ADDRESSES /\ ADDRESSES \in Nat
    BY DumbConstants
  <2>2. n \in Nat /\ n < ADDRESSES + ADDRESSES /\ ADDRESSES \in Nat
    <3> DEFINE a == AreaAt(as, k)
               z == AreaSize(as, k)
    <3>1. a \in Nat /\ z \in Nat /\ z < ADDRESSES /\ a <= v
      BY <1>1, <1>2
    <3>2. n = a + z
      OBVIOUS
    <3> HIDE DEF a, z, n
    <3> QED
      BY ONLY <1>2, <2>a, <3>1, <3>2
  <2> HIDE DEF n
  <2>3. wrap(n) \in Nat /\ wrap(n) <= n
    BY <2>2, WrapFacts
  <2>4. v < n
    BY <1>2, <2>1, <2>2, <2>3
  <2> QED
    BY <1>2, <2>4 DEF n
<1>4. CASE k = 3
  <2> DEFINE s == DUMBVM_STACKPAGES * PGSIZE
  <2>1. s \in Nat
    BY DumbConstants
  <2>2. AreaAt(as, k) = USERSTACK - s /\ AreaSize(as, k) = s
    BY <1>4 DEF AreaAt, AreaSize
  <2> HIDE DEF s
  <2> QED
    BY <1>2, <2>1, <2>2
<1> QED
  BY <1>3, <1>4

LEMMA FrameOfFacts ==
  ASSUME NEW as, SpaceOK(as), NEW v \in UserPages
  PROVE  /\ \A k \in 1 .. 3 : FirstIn(as, k, v) => FrameOf(as, v) = v - AreaAt(as, k) + AreaBase(as, k)
         /\ FrameOf(as, v) # NoFrame => \E k \in 1 .. 3 : FirstIn(as, k, v)
<1> DEFINE stackbase == USERSTACK - DUMBVM_STACKPAGES * PGSIZE
           in1 == InRegion(as, 1, v)
           in2 == InRegion(as, 2, v)
           in3 == InRegion(as, 3, v)
<1>1. in1 <=> as.vbase1 <= v /\ v < wrap(as.vbase1 + as.npages1 * PGSIZE)
  BY DEF InRegion, AreaAt, AreaSize
<1>2. in2 <=> as.vbase2 <= v /\ v < wrap(as.vbase2 + as.npages2 * PGSIZE)
  BY DEF InRegion, AreaAt, AreaSize
<1>3. in3 <=> stackbase <= v
  BY DEF InRegion, AreaAt
<1>4. FrameOf(as, v) = IF in1 THEN v - as.vbase1 + as.pbase1 ELSE IF in2 THEN v - as.vbase2 + as.pbase2
                       ELSE IF in3 THEN v - stackbase + as.stackpbase ELSE NoFrame
  <2> HIDE DEF in1, in2, in3
  <2> QED
    BY <1>1, <1>2, <1>3 DEF FrameOf
<1>5. /\ FirstIn(as, 1, v) <=> in1
      /\ FirstIn(as, 2, v) <=> ~in1 /\ in2
      /\ FirstIn(as, 3, v) <=> ~in1 /\ ~in2 /\ in3
  <2>1. FirstIn(as, 1, v) <=> in1
    BY DEF FirstIn
  <2>2. FirstIn(as, 2, v) <=> ~in1 /\ in2
    <3>1. 1 \in 1 .. 3 /\ 1 < 2
      OBVIOUS
    <3>2. ASSUME FirstIn(as, 2, v) PROVE ~in1 /\ in2
      BY <3>1, <3>2 DEF FirstIn
    <3>3. ASSUME ~in1 /\ in2 PROVE FirstIn(as, 2, v)
      <4> SUFFICES ASSUME NEW j \in 1 .. 3, j < 2 PROVE ~InRegion(as, j, v)
        BY <3>3 DEF FirstIn
      <4>1. j = 1
        OBVIOUS
      <4> QED
        BY <3>3, <4>1
    <3> HIDE DEF in1, in2
    <3> QED
      BY <3>2, <3>3
  <2>3. FirstIn(as, 3, v) <=> ~in1 /\ ~in2 /\ in3
    <3>1. \A j \in 1 .. 3 : j < 3 <=> j = 1 \/ j = 2
      OBVIOUS
    <3>2. 1 \in 1 .. 3 /\ 2 \in 1 .. 3
      OBVIOUS
    <3>3. ASSUME FirstIn(as, 3, v) PROVE ~in1 /\ ~in2 /\ in3
      BY <3>1, <3>2, <3>3 DEF FirstIn
    <3>4. ASSUME ~in1 /\ ~in2 /\ in3 PROVE FirstIn(as, 3, v)
      <4> SUFFICES ASSUME NEW j \in 1 .. 3, j < 3 PROVE ~InRegion(as, j, v)
        BY <3>4 DEF FirstIn
      <4>1. j = 1 \/ j = 2
        OBVIOUS
      <4> QED
        BY <3>4, <4>1
    <3> HIDE DEF in1, in2, in3
    <3> QED
      BY <3>3, <3>4
  <2> QED
    BY <2>1, <2>2, <2>3
<1>6. /\ AreaAt(as, 1) = as.vbase1 /\ AreaBase(as, 1) = as.pbase1
      /\ AreaAt(as, 2) = as.vbase2 /\ AreaBase(as, 2) = as.pbase2
      /\ AreaAt(as, 3) = stackbase /\ AreaBase(as, 3) = as.stackpbase
  BY DEF AreaAt, AreaBase
<1> HIDE DEF in1, in2, in3, stackbase
<1>7. ASSUME NEW k \in 1 .. 3, FirstIn(as, k, v) PROVE FrameOf(as, v) = v - AreaAt(as, k) + AreaBase(as, k)
  <2>1. CASE k = 1
    BY <1>4, <1>5, <1>6, <1>7, <2>1
  <2>2. CASE k = 2
    BY <1>4, <1>5, <1>6, <1>7, <2>2
  <2>3. CASE k = 3
    BY <1>4, <1>5, <1>6, <1>7, <2>3
  <2>4. k = 1 \/ k = 2 \/ k = 3
    OBVIOUS
  <2> QED
    BY <2>1, <2>2, <2>3, <2>4
<1>8. FrameOf(as, v) # NoFrame => \E k \in 1 .. 3 : FirstIn(as, k, v)
  <2>1. 1 \in 1 .. 3 /\ 2 \in 1 .. 3 /\ 3 \in 1 .. 3
    OBVIOUS
  <2>2. FrameOf(as, v) # NoFrame => in1 \/ in2 \/ in3
    BY <1>4
  <2> QED
    BY <1>5, <2>1, <2>2
<1> QED
  BY <1>7, <1>8

\* The area is the program's, if it has all three, and so is the page.
LEMMA FrameIsOwn ==
  ASSUME NEW sp, NEW st, NEW kp, NEW first \in Nat, first <= RamSize, AreasApart(sp, st, kp, first),
         NEW t \in DumbThread, SpaceOK(sp[t]), st[t] \in {"zero", "load", "run"},
         NEW v \in UserPages, FrameOf(sp[t], v) # NoFrame
  PROVE  \E k \in 1 .. 3 : /\ FirstIn(sp[t], k, v)
                           /\ FrameOf(sp[t], v) = v - AreaAt(sp[t], k) + AreaBase(sp[t], k)
                           /\ Owns(sp[t], st[t], k, FrameOf(sp[t], v))
                           /\ InArea(sp[t], k, FrameOf(sp[t], v))
                           /\ FrameOf(sp[t], v) \in Frames
<1> DEFINE as == sp[t]
           f == FrameOf(as, v)
<1>1. PICK k \in 1 .. 3 : FirstIn(as, k, v)
  BY FrameOfFacts
<1>2. f = v - AreaAt(as, k) + AreaBase(as, k)
  BY <1>1, FrameOfFacts
<1>3. AreaAt(as, k) <= v /\ v < AreaAt(as, k) + AreaSize(as, k)
  BY <1>1, InRegionFacts DEF FirstIn
<1>4. AreaBase(as, k) \in Nat /\ AreaSize(as, k) \in Nat /\ AreaAt(as, k) \in Nat /\ Mult(AreaAt(as, k))
  BY AreaTypes
<1>5. v \in Nat /\ Mult(v)
  BY UserPageFacts
<1>6. GotAt[st[t]] = 3
  BY DEF GotAt, DumbStages
<1>7. Mult(AreaBase(as, k)) /\ AreaBase(as, k) + AreaSize(as, k) <= first
  BY <1>6 DEF AreasApart
<1> DEFINE a == AreaAt(as, k)
           b == AreaBase(as, k)
           z == AreaSize(as, k)
<1>8. a \in Nat /\ b \in Nat /\ z \in Nat /\ a <= v /\ v < a + z /\ f = v - a + b /\ b + z <= first
      /\ Mult(a) /\ Mult(b) /\ RamSize \in Nat
  BY <1>2, <1>3, <1>4, <1>7, DumbConstants
<1> HIDE DEF a, b, z, f, as
<1>9. f \in Nat /\ b <= f /\ f < b + z /\ f < RamSize
  BY <1>5, <1>8
<1>10. Mult(f)
  <2>1. Mult(v - a)
    BY <1>5, <1>8, MultSums
  <2> QED
    BY <1>8, <2>1, MultSums
<1>11. f \in Frames
  BY <1>8, <1>9, <1>10 DEF Frames, Mult
<1>12. InArea(as, k, f)
  BY <1>9 DEF InArea, b, z
<1>13. Owns(as, st[t], k, f)
  BY <1>6, <1>12 DEF Owns
<1> QED
  BY <1>1, <1>2, <1>11, <1>12, <1>13 DEF as, f

\* No two pages of programs are one page of memory, and none is the kernel's.
LEMMA FramesApart ==
  ASSUME NEW sp, NEW st, NEW kp, NEW first \in Nat, first <= RamSize, AreasApart(sp, st, kp, first),
         NEW t \in DumbThread, SpaceOK(sp[t]), st[t] \in {"zero", "load", "run"},
         NEW u \in DumbThread, SpaceOK(sp[u]), st[u] \in {"zero", "load", "run"},
         NEW v \in UserPages, FrameOf(sp[t], v) # NoFrame,
         NEW w \in UserPages, FrameOf(sp[u], w) = FrameOf(sp[t], v)
  PROVE  t = u /\ v = w
<1> DEFINE f == FrameOf(sp[t], v)
<1>1. PICK k \in 1 .. 3 : f = v - AreaAt(sp[t], k) + AreaBase(sp[t], k) /\ Owns(sp[t], st[t], k, f) /\ f \in Frames
  BY FrameIsOwn
<1>2. PICK l \in 1 .. 3 : f = w - AreaAt(sp[u], l) + AreaBase(sp[u], l) /\ Owns(sp[u], st[u], l, f)
  BY FrameIsOwn
<1>3. f \in Nat
  BY <1>1, DumbConstants DEF Frames
<1> HIDE DEF f
<1>4. t = u /\ k = l
  BY <1>1, <1>2, <1>3 DEF AreasApart
<1> DEFINE a == AreaAt(sp[t], k)
           b == AreaBase(sp[t], k)
<1>5. a \in Nat /\ b \in Nat /\ v \in Nat /\ w \in Nat
  BY AreaTypes, UserPageFacts
<1>6. f = v - a + b /\ f = w - a + b
  BY <1>1, <1>2, <1>4
<1> HIDE DEF a, b
<1> QED
  BY <1>4, <1>5, <1>6

-----------------------------------------------------------------------------
(* Areas *)

LEMMA GotFacts ==
  /\ \A s \in DumbStages : GotAt[s] \in 0 .. 3
  /\ GotAt["new"] = 0 /\ GotAt["define"] = 0 /\ GotAt["pbase1"] = 0 /\ GotAt["pbase2"] = 1
  /\ GotAt["stackpbase"] = 2 /\ GotAt["zero"] = 3 /\ GotAt["load"] = 3 /\ GotAt["run"] = 3
  /\ GotAt["failed"] = 0 /\ GotAt["dead"] = 0
<1>1. GotAt["new"] = 0 /\ GotAt["define"] = 0 /\ GotAt["pbase1"] = 0 /\ GotAt["pbase2"] = 1
  BY DEF GotAt, DumbStages
<1>2. GotAt["stackpbase"] = 2 /\ GotAt["zero"] = 3 /\ GotAt["load"] = 3 /\ GotAt["run"] = 3
  BY DEF GotAt, DumbStages
<1>3. GotAt["failed"] = 0 /\ GotAt["dead"] = 0
  BY DEF GotAt, DumbStages
<1> QED
  BY <1>1, <1>2, <1>3 DEF DumbStages

\* No thread has areas it did not have.
FewerAreas(sp, st, sq, su) ==
  \A t \in DumbThread : \A k \in 1 .. 3 : k <= GotAt[su[t]] =>
    k <= GotAt[st[t]] /\ AreaBase(sq[t], k) = AreaBase(sp[t], k) /\ AreaSize(sq[t], k) = AreaSize(sp[t], k)

LEMMA FewerApart ==
  ASSUME NEW sp, NEW st, NEW kp, NEW first \in Nat, AreasApart(sp, st, kp, first),
         NEW sq, NEW su, FewerAreas(sp, st, sq, su)
  PROVE  AreasApart(sq, su, kp, first)
<1>1. ASSUME NEW t \in DumbThread, NEW k \in 1 .. 3, NEW f, Owns(sq[t], su[t], k, f)
      PROVE  Owns(sp[t], st[t], k, f)
  BY <1>1 DEF FewerAreas, Owns, InArea
<1>2. ASSUME NEW t \in DumbThread, NEW k \in 1 .. 3, k <= GotAt[su[t]]
      PROVE  /\ Mult(AreaBase(sq[t], k)) /\ FirstFree <= AreaBase(sq[t], k)
             /\ AreaBase(sq[t], k) + AreaSize(sq[t], k) <= first
  <2>1. k <= GotAt[st[t]] /\ AreaBase(sq[t], k) = AreaBase(sp[t], k) /\ AreaSize(sq[t], k) = AreaSize(sp[t], k)
    BY <1>2 DEF FewerAreas
  <2> QED
    BY <2>1 DEF AreasApart
<1>3. \A t, u \in DumbThread : \A k, l \in 1 .. 3 : \A f \in Nat :
        Owns(sq[t], su[t], k, f) /\ Owns(sq[u], su[u], l, f) => t = u /\ k = l
  <2> SUFFICES ASSUME NEW t \in DumbThread, NEW u \in DumbThread, NEW k \in 1 .. 3, NEW l \in 1 .. 3, NEW f \in Nat,
                      Owns(sq[t], su[t], k, f), Owns(sq[u], su[u], l, f)
               PROVE  t = u /\ k = l
    OBVIOUS
  <2>1. Owns(sp[t], st[t], k, f) /\ Owns(sp[u], st[u], l, f)
    BY <1>1
  <2> QED
    BY <2>1 DEF AreasApart
<1>4. \A t \in DumbThread : \A k \in 1 .. 3 : \A f \in kp : ~Owns(sq[t], su[t], k, f)
  BY <1>1 DEF AreasApart
<1>5. \A f \in kp : f \in Frames /\ f < first
  BY DEF AreasApart
<1> QED
  BY <1>2, <1>3, <1>4, <1>5 DEF AreasApart

\* A thread gets its next area, at firstpaddr.
LEMMA AreaGrows ==
  ASSUME NEW sp, NEW st, NEW kp, NEW first \in Nat, AreasApart(sp, st, kp, first),
         Mult(first), FirstFree <= first,
         NEW t \in DumbThread, SpaceOK(sp[t]), NEW n \in 1 .. 3, n = GotAt[st[t]] + 1, GotAt[st[t]] \in Nat,
         AreaBase(sp[t], n) = first, NEW su, GotAt[su[t]] = n,
         \A u \in DumbThread : SpaceOK(sp[u]),
         \A u \in DumbThread : u # t => su[u] = st[u]
  PROVE  AreasApart(sp, su, kp, first + AreaSize(sp[t], n))
<1> DEFINE z == AreaSize(sp[t], n)
           top == first + z
<1>1. z \in Nat
  BY AreaTypes
<1> HIDE DEF z
<1>2. top \in Nat /\ first <= top
  BY <1>1
<1>3. \A u \in DumbThread : \A k \in 1 .. 3 : k <= GotAt[su[u]] => k <= GotAt[st[u]] \/ (u = t /\ k = n)
  OBVIOUS
<1>4. ASSUME NEW u \in DumbThread, NEW k \in 1 .. 3, NEW f \in Nat, Owns(sp[u], su[u], k, f)
      PROVE  Owns(sp[u], st[u], k, f) \/ (u = t /\ k = n /\ first <= f)
  BY <1>3, <1>4 DEF Owns, InArea
<1>5. ASSUME NEW u \in DumbThread, NEW k \in 1 .. 3, NEW f \in Nat, Owns(sp[u], st[u], k, f)
      PROVE  f < first
  <2>1. AreaBase(sp[u], k) \in Nat /\ AreaSize(sp[u], k) \in Nat
    BY AreaTypes
  <2>2. AreaBase(sp[u], k) + AreaSize(sp[u], k) <= first
    BY <1>5 DEF Owns, AreasApart
  <2>3. f < AreaBase(sp[u], k) + AreaSize(sp[u], k)
    BY <1>5 DEF Owns, InArea
  <2> QED
    BY <2>1, <2>2, <2>3
<1>6. ASSUME NEW u \in DumbThread, NEW k \in 1 .. 3, k <= GotAt[su[u]]
      PROVE  /\ Mult(AreaBase(sp[u], k)) /\ FirstFree <= AreaBase(sp[u], k)
             /\ AreaBase(sp[u], k) + AreaSize(sp[u], k) <= top
  <2>1. CASE u = t /\ k = n
    BY <1>1, <2>1 DEF z
  <2>2. CASE k <= GotAt[st[u]]
    <3>1. AreaBase(sp[u], k) \in Nat /\ AreaSize(sp[u], k) \in Nat
      BY AreaTypes
    <3>2. /\ Mult(AreaBase(sp[u], k)) /\ FirstFree <= AreaBase(sp[u], k)
          /\ AreaBase(sp[u], k) + AreaSize(sp[u], k) <= first
      BY <2>2 DEF AreasApart
    <3> QED
      BY <1>2, <3>1, <3>2
  <2> QED
    BY <1>3, <1>6, <2>1, <2>2
<1>7. ASSUME NEW u \in DumbThread, NEW w \in DumbThread, NEW k \in 1 .. 3, NEW l \in 1 .. 3, NEW f \in Nat,
             Owns(sp[u], su[u], k, f), Owns(sp[w], su[w], l, f)
      PROVE  u = w /\ k = l
  <2>1. Owns(sp[u], st[u], k, f) \/ (u = t /\ k = n /\ first <= f)
    BY <1>4, <1>7
  <2>2. Owns(sp[w], st[w], l, f) \/ (w = t /\ l = n /\ first <= f)
    BY <1>4, <1>7
  <2>3. Owns(sp[u], st[u], k, f) => f < first
    BY <1>5
  <2>4. Owns(sp[w], st[w], l, f) => f < first
    BY <1>5
  <2>5. ~(f < first /\ first <= f)
    OBVIOUS
  <2>6. Owns(sp[u], st[u], k, f) /\ Owns(sp[w], st[w], l, f) => u = w /\ k = l
    BY DEF AreasApart
  <2> QED
    BY <2>1, <2>2, <2>3, <2>4, <2>5, <2>6
<1>8. ASSUME NEW u \in DumbThread, NEW k \in 1 .. 3, NEW f \in kp PROVE ~Owns(sp[u], su[u], k, f)
  <2>1. f \in Nat /\ f < first
    BY DumbConstants DEF AreasApart, Frames
  <2>2. ~Owns(sp[u], st[u], k, f)
    BY DEF AreasApart
  <2> QED
    BY <1>4, <2>1, <2>2
<1>9. \A f \in kp : f \in Frames /\ f < top
  <2> SUFFICES ASSUME NEW f \in kp PROVE f \in Frames /\ f < top
    OBVIOUS
  <2>1. f \in Frames /\ f < first /\ f \in Nat
    BY DumbConstants DEF AreasApart, Frames
  <2> QED
    BY <1>2, <2>1
<1>10. AreasApart(sp, su, kp, top)
  BY <1>6, <1>7, <1>8, <1>9 DEF AreasApart
<1> QED
  BY <1>10 DEF z

\* Areas lie below firstpaddr.
LEMMA OwnsBelow ==
  ASSUME NEW sp, NEW st, NEW kp, NEW first \in Nat, AreasApart(sp, st, kp, first),
         NEW t \in DumbThread, SpaceOK(sp[t]), NEW k \in 1 .. 3, NEW f \in Nat, Owns(sp[t], st[t], k, f)
  PROVE  f < first
<1>1. AreaBase(sp[t], k) \in Nat /\ AreaSize(sp[t], k) \in Nat
  BY AreaTypes
<1>2. AreaBase(sp[t], k) + AreaSize(sp[t], k) <= first
  BY DEF Owns, AreasApart
<1>3. f < AreaBase(sp[t], k) + AreaSize(sp[t], k)
  BY DEF Owns, InArea
<1> QED
  BY <1>1, <1>2, <1>3

\* What ram_stealmem returns, unless its sum wraps.
Steals(r, first, n) == r = ram_stealmem(first, n) /\ r.over = FALSE

LEMMA StealFacts ==
  ASSUME NEW first \in Nat, Mult(first), FirstFree <= first, first <= RamSize,
         NEW n \in Nat, n * PGSIZE < ADDRESSES,
         NEW r, Steals(r, first, n)
  PROVE  /\ r.paddr = 0 => r.first = first
         /\ r.paddr # 0 => r.paddr = first /\ r.first = first + n * PGSIZE
         /\ r.first \in Nat /\ Mult(r.first) /\ first <= r.first /\ r.first <= RamSize
<1> DEFINE z == n * PGSIZE
<1>1. z \in Nat /\ Mult(z)
  BY MultTimes DEF Mult
<1>2. z < ADDRESSES /\ ADDRESSES \in Nat /\ RamSize \in Nat /\ FirstFree \in Nat /\ 0 < FirstFree
  BY DumbConstants
<1> HIDE DEF z
<1>3. wrap(z) = z
  BY <1>1, <1>2, WrapFacts
<1>4. r = IF wrap(first + z) > RamSize THEN [paddr |-> 0, first |-> first, over |-> FALSE]
          ELSE [paddr |-> first, first |-> wrap(first + z), over |-> first + z >= ADDRESSES]
  BY <1>3 DEF ram_stealmem, z, Steals
<1>5. CASE wrap(first + z) > RamSize
  <2>1. r.paddr = 0 /\ r.first = first
    BY <1>4, <1>5
  <2> QED
    BY <2>1
<1>6. CASE ~(wrap(first + z) > RamSize)
  <2>1. r.paddr = first /\ r.first = wrap(first + z)
    BY <1>4, <1>6
  <2>2. first + z < ADDRESSES
    <3> SUFFICES ASSUME first + z >= ADDRESSES PROVE FALSE
      BY <1>1, <1>2
    <3>1. r = [paddr |-> first, first |-> wrap(first + z), over |-> TRUE]
      BY <1>4, <1>6
    <3>2. r.over = TRUE
      BY <3>1
    <3> QED
      BY <3>2 DEF Steals
  <2>3. wrap(first + z) = first + z
    BY <1>1, <2>2, WrapFacts
  <2>4. Mult(first + z)
    BY <1>1, MultSums
  <2>5. first + z <= RamSize /\ first + z \in Nat /\ first <= first + z
    BY <1>1, <1>2, <1>6, <2>3
  <2>6. first # 0
    BY <1>2
  <2> QED
    BY <2>1, <2>3, <2>4, <2>5, <2>6 DEF z
<1> QED
  BY <1>5, <1>6

-----------------------------------------------------------------------------
(* The steps *)

LEMMA NoOverrun ==
  ASSUME NEW first \in Nat, NEW n \in Nat, first + n * PGSIZE < ADDRESSES
  PROVE  ram_stealmem(first, n).over = FALSE
<1> DEFINE z == n * PGSIZE
           r == ram_stealmem(first, n)
<1>1. z \in Nat
  BY MultTimes DEF Mult
<1>2. z < ADDRESSES /\ ADDRESSES \in Nat /\ first + z < ADDRESSES
  <2>1. ADDRESSES \in Nat /\ first + z < ADDRESSES
    BY DumbConstants
  <2> HIDE DEF z
  <2> QED
    BY <1>1, <2>1
<1> HIDE DEF z
<1>3. wrap(z) = z
  BY <1>1, <1>2, WrapFacts
<1>4. r = IF wrap(first + z) > RamSize THEN [paddr |-> 0, first |-> first, over |-> FALSE]
          ELSE [paddr |-> first, first |-> wrap(first + z), over |-> first + z >= ADDRESSES]
  BY <1>3 DEF ram_stealmem, z
<1>5. (first + z >= ADDRESSES) = FALSE
  BY <1>1, <1>2
<1> HIDE DEF r
<1>6. r.over = FALSE
  BY <1>4, <1>5
<1> QED
  BY <1>6 DEF r

LEMMA OnePage == PGSIZE <= FirstFree
<1> DEFINE q == FirstFree \div PGSIZE
           c == q - 1
<1>1. q \in Nat /\ FirstFree = q * PGSIZE /\ PGSIZE \in Nat /\ FirstFree \in Nat /\ 0 < FirstFree
  BY DumbConstants, MultIs
<1> HIDE DEF q
<1>2. q # 0
  BY <1>1
<1>3. c \in Nat /\ q = c + 1
  BY <1>1, <1>2
<1> HIDE DEF c
<1>4. FirstFree = c * PGSIZE + PGSIZE /\ c * PGSIZE \in Nat
  BY <1>1, <1>3
<1> DEFINE y == c * PGSIZE
<1> HIDE DEF y
<1>5. y \in Nat /\ FirstFree = y + PGSIZE
  BY <1>4 DEF y
<1> QED
  BY <1>1, <1>5

\* A page of a program is a page of memory that was handed out, to it and not to the kernel.
LEMMA FrameFacts ==
  ASSUME DumbCore, NEW t \in DumbThread, stage[t] \in {"zero", "load", "run"},
         NEW v \in UserPages, FrameOf(space[t], v) # NoFrame
  PROVE  LET f == FrameOf(space[t], v)
         IN  f \in Frames /\ f \in Nat /\ f < firstpaddr /\ f \notin kpages
<1> DEFINE f == FrameOf(space[t], v)
<1>1. firstpaddr \in Nat /\ firstpaddr <= RamSize /\ SpaceOK(space[t]) /\ AreasApart(space, stage, kpages, firstpaddr)
  BY DEF DumbCore, DumbType
<1>2. PICK k \in 1 .. 3 : Owns(space[t], stage[t], k, f) /\ f \in Frames
  BY <1>1, FrameIsOwn
<1>3. f \in Nat
  BY <1>2, DumbConstants DEF Frames
<1> HIDE DEF f
<1>4. f < firstpaddr
  BY <1>1, <1>2, <1>3, OwnsBelow
<1>5. f \notin kpages
  BY <1>1, <1>2 DEF AreasApart
<1> QED
  BY <1>2, <1>3, <1>4, <1>5 DEF f

LEMMA KpageStep ==
  ASSUME DumbCore, alloc_kpages
  PROVE  DumbCore'
<1> DEFINE first == firstpaddr
           r == ram_stealmem(first, 1)
<1>1. /\ first \in Nat /\ Mult(first) /\ FirstFree <= first /\ first <= RamSize
      /\ AreasApart(space, stage, kpages, first) /\ ram \in [Frames -> DumbMarks]
      /\ Contents(space, stage, ram, wrote, kpages)
  BY DEF DumbCore, DumbType
<1>2. /\ PGSIZE \in Nat /\ PGSIZE >= 1 /\ ADDRESSES \in Nat /\ RamSize \in Nat /\ FirstFree \in Nat
      /\ RamSize + RamSize < ADDRESSES /\ FirstFree <= RamSize /\ PGSIZE <= FirstFree /\ 0 < FirstFree
  BY DumbConstants, OnePage
<1>3. 1 * PGSIZE = PGSIZE /\ first + PGSIZE < ADDRESSES /\ PGSIZE < ADDRESSES
  BY <1>1, <1>2
<1>4. r.over = FALSE
  BY <1>1, <1>3, NoOverrun
<1>5. r.paddr # 0 /\ died = "no" /\ firstpaddr' = r.first /\ kpages' = kpages \cup {r.paddr}
      /\ ram' = [ram EXCEPT ![r.paddr] = KERNEL]
      /\ UNCHANGED <<space, stage, prog, loadat, dcur, dtlb, wrote, died>>
  BY DEF alloc_kpages
<1> HIDE DEF r
<1>6. r.paddr = first /\ r.first = first + PGSIZE /\ r.first \in Nat /\ Mult(r.first) /\ r.first <= RamSize
  <2> DEFINE n == 1
  <2>1. Steals(r, first, n)
    BY <1>4 DEF r, Steals
  <2>2. n \in Nat /\ n * PGSIZE < ADDRESSES /\ n * PGSIZE = PGSIZE
    BY <1>3
  <2> HIDE DEF n
  <2>3. /\ r.paddr # 0 => r.paddr = first /\ r.first = first + n * PGSIZE
        /\ r.first \in Nat /\ Mult(r.first) /\ first <= r.first /\ r.first <= RamSize
    <3>1. first \in Nat /\ Mult(first) /\ FirstFree <= first /\ first <= RamSize
      BY <1>1
    <3> HIDE DEF first
    <3> QED
      BY ONLY <2>1, <2>2, <3>1, StealFacts
  <2> QED
    BY <1>5, <2>2, <2>3
<1>7. first \in Frames
  BY <1>1, <1>2, <1>6 DEF Frames, Mult
<1>8. ram' \in [Frames -> DumbMarks] /\ ram'[first] = KERNEL /\ \A f \in Frames : f # first => ram'[f] = ram[f]
  BY <1>1, <1>5, <1>6, <1>7 DEF DumbMarks
<1>9. DumbType'
  <2>1. firstpaddr' \in Nat /\ Mult(firstpaddr)' /\ FirstFree <= firstpaddr' /\ firstpaddr' <= RamSize
    BY <1>1, <1>2, <1>5, <1>6 DEF Mult
  <2> QED
    BY <1>5, <1>8, <2>1 DEF DumbCore, DumbType
<1>10. AreasApart(space, stage, kpages', firstpaddr')
  <2>1. ASSUME NEW t \in DumbThread, NEW k \in 1 .. 3, k <= GotAt[stage[t]]
        PROVE  /\ Mult(AreaBase(space[t], k)) /\ FirstFree <= AreaBase(space[t], k)
               /\ AreaBase(space[t], k) + AreaSize(space[t], k) <= firstpaddr'
    <3>1. SpaceOK(space[t])
      BY DEF DumbCore, DumbType
    <3>2. AreaBase(space[t], k) \in Nat /\ AreaSize(space[t], k) \in Nat
      BY <3>1, AreaTypes
    <3>3. /\ Mult(AreaBase(space[t], k)) /\ FirstFree <= AreaBase(space[t], k)
          /\ AreaBase(space[t], k) + AreaSize(space[t], k) <= first
      BY <1>1, <2>1 DEF AreasApart
    <3> QED
      BY <1>1, <1>2, <1>5, <1>6, <3>2, <3>3
  <2>2. ASSUME NEW t \in DumbThread, NEW k \in 1 .. 3, NEW f \in kpages' PROVE ~Owns(space[t], stage[t], k, f)
    <3>1. CASE f \in kpages
      BY <1>1, <3>1 DEF AreasApart
    <3>2. CASE f = first
      <4>1. SpaceOK(space[t])
        BY DEF DumbCore, DumbType
      <4>2. ~(first < first)
        BY <1>1
      <4> QED
        BY <1>1, <3>2, <4>1, <4>2, OwnsBelow
    <3> QED
      BY <1>5, <1>6, <3>1, <3>2
  <2>3. \A f \in kpages' : f \in Frames /\ f < firstpaddr'
    <3> SUFFICES ASSUME NEW f \in kpages' PROVE f \in Frames /\ f < firstpaddr'
      OBVIOUS
    <3>1. CASE f \in kpages
      <4>1. f \in Frames /\ f < first /\ f \in Nat
        BY <1>1, <3>1, DumbConstants DEF AreasApart, Frames
      <4> QED
        BY <1>1, <1>2, <1>5, <1>6, <4>1
    <3>2. CASE f = first
      BY <1>1, <1>2, <1>5, <1>6, <1>7, <3>2
    <3> QED
      BY <1>5, <1>6, <3>1, <3>2
  <2>4. \A t, u \in DumbThread : \A k, l \in 1 .. 3 : \A f \in Nat :
          Owns(space[t], stage[t], k, f) /\ Owns(space[u], stage[u], l, f) => t = u /\ k = l
    BY <1>1 DEF AreasApart
  <2> QED
    BY <2>1, <2>2, <2>3, <2>4 DEF AreasApart
<1>11. Contents(space, stage, ram', wrote, kpages')
  <2>1. \A f \in kpages' : ram'[f] = KERNEL
    <3> SUFFICES ASSUME NEW f \in kpages' PROVE ram'[f] = KERNEL
      OBVIOUS
    <3>1. CASE f = first
      BY <1>8, <3>1
    <3>2. CASE f # first
      <4>1. f \in kpages
        BY <1>5, <1>6, <3>2
      <4>2. f \in Frames /\ ram[f] = KERNEL
        BY <1>1, <4>1 DEF AreasApart, Contents
      <4> QED
        BY <1>8, <3>2, <4>2
    <3> QED
      BY <3>1, <3>2
  <2>2. ASSUME NEW t \in DumbThread, stage[t] \in {"load", "run"}, NEW v \in UserPages, FrameOf(space[t], v) # NoFrame
        PROVE  ram'[FrameOf(space[t], v)] = wrote[t][v]
    <3> DEFINE f == FrameOf(space[t], v)
    <3>1. stage[t] \in {"zero", "load", "run"}
      BY <2>2
    <3>2. f \in Frames /\ f \in Nat /\ f < first
      BY <2>2, <3>1, FrameFacts
    <3>3. ram[f] = wrote[t][v]
      BY <1>1, <2>2 DEF Contents
    <3> HIDE DEF f
    <3>4. f # first
      BY <1>1, <3>2
    <3>5. ram'[f] = wrote[t][v]
      BY <1>8, <3>2, <3>3, <3>4
    <3> QED
      BY <3>5 DEF f
  <2> QED
    BY <1>1, <2>1, <2>2 DEF Contents
<1>12. AreasApart(space, stage, kpages, firstpaddr)' /\ Contents(space, stage, ram, wrote, kpages)'
  BY <1>5, <1>10, <1>11
<1>13. TlbOK' /\ RegionsSet(space, stage, prog, loadat)' /\ died' # "assertion"
  BY <1>5 DEF DumbCore, TlbOK, HasSpace
<1> QED
  BY <1>9, <1>12, <1>13 DEF DumbCore


\* g is f with x for thread t.
SetFor(f, g, t, x) == g = [u \in DumbThread |-> IF u = t THEN x ELSE f[u]]

LEMMA SetForExcept ==
  ASSUME NEW S, NEW f \in [DumbThread -> S], NEW t \in DumbThread
  PROVE  SetFor(f, f, t, f[t]) /\ \A x : SetFor(f, [f EXCEPT ![t] = x], t, x)
  BY DEF SetFor

LEMMA SetForFacts ==
  ASSUME NEW S, NEW f \in [DumbThread -> S], NEW t \in DumbThread, NEW x \in S, NEW g, SetFor(f, g, t, x)
  PROVE  g \in [DumbThread -> S] /\ g[t] = x /\ \A u \in DumbThread : u # t => g[u] = f[u]
  BY DEF SetFor

EarlyStages == {"new", "define", "pbase1", "pbase2", "stackpbase", "zero"}
ZeroPages == [v \in UserPages |-> ZERO]

\* What RegionsSet says of one thread.
RegionsOf(as, s, p, n) ==
  /\ s = "new" => as = as_create /\ n = 1
  /\ s = "define" /\ Ordinary(p) => n \in 1 .. 3 /\ SetUp(as, n)
  /\ s \in {"pbase1", "pbase2", "stackpbase", "zero", "load", "run"} /\ Ordinary(p) => SetUp(as, 3)

LEMMA RegionsByThread ==
  ASSUME NEW sp, NEW st, NEW pr, NEW la
  PROVE  RegionsSet(sp, st, pr, la) <=> \A t \in DumbThread : RegionsOf(sp[t], st[t], pr[t], la[t])
  BY DEF RegionsSet, RegionsOf

\* What Contents says of one thread.
ContentsOf(as, s, rm, w) ==
  /\ s \in {"load", "run"} => \A v \in UserPages : FrameOf(as, v) # NoFrame => rm[FrameOf(as, v)] = w[v]
  /\ s \in EarlyStages => w = ZeroPages

LEMMA ContentsByThread ==
  ASSUME NEW sp, NEW st, NEW rm, NEW wr, NEW kp
  PROVE  Contents(sp, st, rm, wr, kp) <=>
           /\ \A f \in kp : rm[f] = KERNEL
           /\ \A t \in DumbThread : ContentsOf(sp[t], st[t], rm, wr[t])
<1>1. ASSUME Contents(sp, st, rm, wr, kp)
      PROVE  \A f \in kp : rm[f] = KERNEL
  BY <1>1 DEF Contents
<1>2. ASSUME Contents(sp, st, rm, wr, kp), NEW t \in DumbThread
      PROVE  ContentsOf(sp[t], st[t], rm, wr[t])
  BY <1>2 DEF Contents, ContentsOf, EarlyStages, ZeroPages
<1>3. ASSUME \A f \in kp : rm[f] = KERNEL, \A t \in DumbThread : ContentsOf(sp[t], st[t], rm, wr[t])
      PROVE  Contents(sp, st, rm, wr, kp)
  <2>1. ASSUME NEW t \in DumbThread
        PROVE  /\ st[t] \in {"load", "run"} =>
                    \A v \in UserPages : FrameOf(sp[t], v) # NoFrame => rm[FrameOf(sp[t], v)] = wr[t][v]
               /\ st[t] \in EarlyStages => wr[t] = ZeroPages
    BY <1>3 DEF ContentsOf
  <2> QED
    BY <1>3, <2>1 DEF Contents, EarlyStages, ZeroPages
<1> QED
  BY <1>1, <1>2, <1>3

FirstOK(first) == first \in Nat /\ Mult(first) /\ FirstFree <= first /\ first <= RamSize

\* What is left to show once one thread goes on.
LEMMA ThreadGoesOn ==
  ASSUME DumbCore, NEW t \in DumbThread,
         NEW as, NEW s \in DumbStages, NEW p \in Seq(Segments), NEW n \in Nat \ {0},
         NEW w \in [UserPages -> DumbMarks], SpaceOK(as),
         SetFor(space, space', t, as), SetFor(stage, stage', t, s), SetFor(prog, prog', t, p),
         SetFor(loadat, loadat', t, n), SetFor(wrote, wrote', t, w),
         RegionsOf(as, s, p, n), FirstOK(firstpaddr'), ram' \in [Frames -> DumbMarks], dcur' = dcur,
         AreasApart(space', stage', kpages', firstpaddr'), Contents(space', stage', ram', wrote', kpages'),
         TlbOK', died' # "assertion"
  PROVE  DumbCore'
<1>0. /\ space \in [DumbThread -> SpaceRec] /\ stage \in [DumbThread -> DumbStages]
      /\ prog \in [DumbThread -> Seq(Segments)] /\ loadat \in [DumbThread -> Nat \ {0}]
      /\ wrote \in [DumbThread -> [UserPages -> DumbMarks]] /\ dcur \in DumbThread
      /\ RegionsSet(space, stage, prog, loadat)
  BY DEF DumbCore, DumbType
<1>1. as \in SpaceRec
  BY DEF SpaceOK
<1>2. space' \in [DumbThread -> SpaceRec] /\ space'[t] = as /\ \A u \in DumbThread : u # t => space'[u] = space[u]
  BY <1>0, <1>1 DEF SetFor
<1>3. stage' \in [DumbThread -> DumbStages] /\ stage'[t] = s /\ \A u \in DumbThread : u # t => stage'[u] = stage[u]
  BY <1>0, <1>1 DEF SetFor
<1>4. prog' \in [DumbThread -> Seq(Segments)] /\ prog'[t] = p /\ \A u \in DumbThread : u # t => prog'[u] = prog[u]
  BY <1>0 DEF SetFor
<1>5. loadat' \in [DumbThread -> Nat \ {0}] /\ loadat'[t] = n /\ \A u \in DumbThread : u # t => loadat'[u] = loadat[u]
  BY <1>0 DEF SetFor
<1>6. wrote' \in [DumbThread -> [UserPages -> DumbMarks]]
  BY <1>0 DEF SetFor
<1>7. DumbType'
  <2>1. \A u \in DumbThread : SpaceOK(space[u])'
    <3>1. \A u \in DumbThread : SpaceOK(space[u])
      BY DEF DumbCore, DumbType
    <3>2. \A u \in DumbThread : SpaceOK(space'[u])
      BY <1>2, <3>1
    <3> QED
      BY <3>2 DEF SpaceOK, AreaSize
  <2>2. (firstpaddr \in Nat /\ Mult(firstpaddr) /\ FirstFree <= firstpaddr /\ firstpaddr <= RamSize)'
    BY DEF FirstOK, Mult
  <2> QED
    BY <1>0, <1>2, <1>3, <1>4, <1>5, <1>6, <2>1, <2>2 DEF DumbType
<1>10. RegionsSet(space', stage', prog', loadat')
  <2>1. \A u \in DumbThread : RegionsOf(space[u], stage[u], prog[u], loadat[u])
    BY <1>0, RegionsByThread
  <2>2. \A u \in DumbThread : RegionsOf(space'[u], stage'[u], prog'[u], loadat'[u])
    BY <1>2, <1>3, <1>4, <1>5, <2>1
  <2> QED
    BY <2>2, RegionsByThread
<1>11. /\ AreasApart(space, stage, kpages, firstpaddr)' /\ Contents(space, stage, ram, wrote, kpages)'
       /\ RegionsSet(space, stage, prog, loadat)'
  BY <1>10
<1> QED
  BY <1>7, <1>11 DEF DumbCore

\* A thread goes on to a stage at which it runs nothing.
LEMMA ContentsGoOn ==
  ASSUME DumbCore, NEW t \in DumbThread,
         NEW as, NEW s \in DumbStages, NEW w, s \notin {"load", "run"},
         SetFor(space, space', t, as), SetFor(stage, stage', t, s), SetFor(wrote, wrote', t, w),
         s \in EarlyStages => w = ZeroPages
  PROVE  Contents(space', stage', ram, wrote', kpages)
<1>0. Contents(space, stage, ram, wrote, kpages)
  BY DEF DumbCore
<1>1. space'[t] = as /\ \A u \in DumbThread : u # t => space'[u] = space[u]
  BY DEF SetFor
<1>2. stage'[t] = s /\ \A u \in DumbThread : u # t => stage'[u] = stage[u]
  BY DEF SetFor
<1>3. wrote'[t] = w /\ \A u \in DumbThread : u # t => wrote'[u] = wrote[u]
  BY DEF SetFor
<1>4. \A u \in DumbThread : ContentsOf(space[u], stage[u], ram, wrote[u])
  BY <1>0, ContentsByThread
<1>5. ContentsOf(as, s, ram, w)
  BY DEF ContentsOf
<1>6. \A u \in DumbThread : ContentsOf(space'[u], stage'[u], ram, wrote'[u])
  BY <1>1, <1>2, <1>3, <1>4, <1>5
<1>7. \A f \in kpages : ram[f] = KERNEL
  BY <1>0, ContentsByThread
<1> QED
  BY <1>6, <1>7, ContentsByThread

\* A thread goes on to a stage at which it has no memory of its own.
LEMMA ThreadStep ==
  ASSUME DumbCore, NEW t \in DumbThread,
         NEW as, NEW s \in {"define", "pbase1", "failed", "dead"}, NEW p \in Seq(Segments), NEW n \in Nat \ {0},
         NEW w \in [UserPages -> DumbMarks], SpaceOK(as),
         SetFor(space, space', t, as), SetFor(stage, stage', t, s), SetFor(prog, prog', t, p),
         SetFor(loadat, loadat', t, n), SetFor(wrote, wrote', t, w),
         s \in EarlyStages => w = ZeroPages,
         RegionsOf(as, s, p, n),
         UNCHANGED <<firstpaddr, dcur, ram, kpages>>, TlbOK', died' # "assertion"
  PROVE  DumbCore'
<1>1. s \in DumbStages /\ s \notin {"load", "run"}
  BY DEF DumbStages
<1>2. AreasApart(space, stage, kpages, firstpaddr) /\ FirstOK(firstpaddr) /\ ram \in [Frames -> DumbMarks] /\ firstpaddr \in Nat
  BY DEF DumbCore, DumbType, FirstOK
<1>3. AreasApart(space', stage', kpages, firstpaddr)
  <2>1. FewerAreas(space, stage, space', stage')
    <3> SUFFICES ASSUME NEW u \in DumbThread, NEW k \in 1 .. 3, k <= GotAt[stage'[u]]
                 PROVE  space'[u] = space[u] /\ stage'[u] = stage[u]
      BY DEF FewerAreas
    <3>1. GotAt[s] = 0
      BY GotFacts
    <3>2. stage'[t] = s
      BY DEF SetFor
    <3>3. u # t
      BY <3>1, <3>2
    <3> QED
      BY <3>3 DEF SetFor
  <2> QED
    BY <1>2, <2>1, FewerApart
<1>4. Contents(space', stage', ram, wrote', kpages)
  BY <1>1, ContentsGoOn
<1>5. /\ FirstOK(firstpaddr') /\ ram' \in [Frames -> DumbMarks] /\ dcur' = dcur
      /\ AreasApart(space', stage', kpages', firstpaddr') /\ Contents(space', stage', ram', wrote', kpages')
  BY <1>2, <1>3, <1>4
<1> QED
  BY <1>1, <1>5, ThreadGoesOn

LEMMA SwitchStep ==
  ASSUME DumbCore, NEW t \in DumbThread, switch_to(t)
  PROVE  DumbCore'
<1>1. died = "no" /\ dcur' = t /\ dtlb' = (IF HasSpace(t) THEN {} ELSE dtlb)
      /\ UNCHANGED <<firstpaddr, space, stage, prog, loadat, ram, kpages, wrote, died>>
  BY DEF switch_to
<1>2. DumbType' /\ AreasApart(space, stage, kpages, firstpaddr)' /\ Contents(space, stage, ram, wrote, kpages)'
      /\ RegionsSet(space, stage, prog, loadat)' /\ died' # "assertion"
  BY <1>1 DEF DumbCore, DumbType
<1>3. TlbOK'
  <2>1. CASE HasSpace(t)
    <3>1. dtlb' = {}
      BY <1>1, <2>1
    <3> QED
      BY <3>1 DEF TlbOK
  <2>2. CASE ~HasSpace(t)
    <3>1. stage[t] \in {"new", "dead"}
      BY <2>2 DEF HasSpace
    <3>2. stage'[dcur'] \in {"new", "dead"}
      BY <1>1, <3>1
    <3> QED
      BY <3>2 DEF TlbOK, HasSpace
  <2> QED
    BY <2>1, <2>2
<1> QED
  BY <1>2, <1>3 DEF DumbCore

\* as_create, and what it takes for a thread to keep its address space and the rest.
LEMMA CreateFacts == SpaceOK(as_create) /\ SetUp(as_create, 1) /\ ZeroPages \in [UserPages -> DumbMarks]
<1>1. as_create \in SpaceRec
  BY DEF as_create, SpaceRec
<1>2. as_create.vbase1 = 0 /\ as_create.vbase2 = 0 /\ as_create.npages1 = 0 /\ as_create.npages2 = 0
  BY DEF as_create
<1>3. Mult(0) /\ 0 * PGSIZE = 0
  <2>1. 0 * PGSIZE = 0
    BY DumbConstants
  <2>2. Mult(0 * PGSIZE)
    BY MultTimes
  <2> QED
    BY <2>1, <2>2
<1>4. AreaSize(as_create, 1) = 0 /\ AreaSize(as_create, 2) = 0 /\ 0 < ADDRESSES
  BY <1>2, <1>3, DumbConstants DEF AreaSize
<1>5. SpaceOK(as_create)
  BY <1>1, <1>2, <1>3, <1>4 DEF SpaceOK
<1>6. SetUp(as_create, 1)
  BY <1>2 DEF SetUp
<1>7. ZeroPages \in [UserPages -> DumbMarks]
  BY DEF ZeroPages, DumbMarks
<1> QED
  BY <1>5, <1>6, <1>7

LEMMA CoreTypes ==
  ASSUME DumbCore
  PROVE  /\ space \in [DumbThread -> SpaceRec] /\ stage \in [DumbThread -> DumbStages]
         /\ prog \in [DumbThread -> Seq(Segments)] /\ loadat \in [DumbThread -> Nat \ {0}]
         /\ wrote \in [DumbThread -> [UserPages -> DumbMarks]] /\ dcur \in DumbThread
         /\ \A t \in DumbThread : /\ SpaceOK(space[t]) /\ RegionsOf(space[t], stage[t], prog[t], loadat[t])
                                  /\ ContentsOf(space[t], stage[t], ram, wrote[t])
<1>1. Contents(space, stage, ram, wrote, kpages) /\ RegionsSet(space, stage, prog, loadat)
  BY DEF DumbCore
<1>2. \A t \in DumbThread : RegionsOf(space[t], stage[t], prog[t], loadat[t])
  BY <1>1, RegionsByThread
<1>3. \A t \in DumbThread : ContentsOf(space[t], stage[t], ram, wrote[t])
  BY <1>1, ContentsByThread
<1> QED
  BY <1>2, <1>3 DEF DumbCore, DumbType

LEMMA ExitStep ==
  ASSUME DumbCore, NEW t \in DumbThread, thread_exits(t)
  PROVE  DumbCore'
<1>1. /\ space' = [space EXCEPT ![t] = as_create] /\ dtlb' = {} /\ stage' = [stage EXCEPT ![t] = "dead"]
      /\ prog' = [prog EXCEPT ![t] = <<>>] /\ loadat' = [loadat EXCEPT ![t] = 1]
      /\ wrote' = [wrote EXCEPT ![t] = ZeroPages] /\ UNCHANGED <<firstpaddr, dcur, ram, kpages, died>> /\ died = "no"
  BY DEF thread_exits, as_activate, dumbGoto, ZeroPages, Runs
<1>2. /\ SetFor(space, space', t, as_create) /\ SetFor(stage, stage', t, "dead") /\ SetFor(prog, prog', t, <<>>)
      /\ SetFor(loadat, loadat', t, 1) /\ SetFor(wrote, wrote', t, ZeroPages)
  BY <1>1, CoreTypes, SetForExcept
<1>3. RegionsOf(as_create, "dead", <<>>, 1)
  BY DEF RegionsOf
<1>4. TlbOK' /\ died' # "assertion"
  BY <1>1 DEF TlbOK
<1>5. <<>> \in Seq(Segments) /\ 1 \in Nat \ {0} /\ "dead" \in {"define", "pbase1", "failed", "dead"}
  OBVIOUS
<1>6. SpaceOK(as_create) /\ ZeroPages \in [UserPages -> DumbMarks]
  BY CreateFacts
<1>7. UNCHANGED <<firstpaddr, dcur, ram, kpages>>
  BY <1>1
<1> QED
  BY <1>2, <1>3, <1>4, <1>5, <1>6, <1>7, ThreadStep

LEMMA NoSpaceStep ==
  ASSUME DumbCore, NEW t \in DumbThread, NoSpaceFor(t)
  PROVE  DumbCore'
<1>1. /\ stage' = [stage EXCEPT ![t] = "dead"] /\ died = "no" /\ dcur = t
      /\ UNCHANGED <<firstpaddr, space, prog, loadat, dcur, dtlb, ram, kpages, wrote, died>>
  BY DEF NoSpaceFor, dumbGoto, Runs
<1> DEFINE as == space[t]
           p == prog[t]
           n == loadat[t]
           w == wrote[t]
<1>2. /\ SetFor(space, space', t, as) /\ SetFor(stage, stage', t, "dead") /\ SetFor(prog, prog', t, p)
      /\ SetFor(loadat, loadat', t, n) /\ SetFor(wrote, wrote', t, w)
  BY <1>1, CoreTypes, SetForExcept
<1>3. /\ SpaceOK(as) /\ p \in Seq(Segments) /\ n \in Nat \ {0} /\ w \in [UserPages -> DumbMarks]
      /\ "dead" \in {"define", "pbase1", "failed", "dead"}
  BY CoreTypes
<1>4. RegionsOf(as, "dead", p, n)
  BY DEF RegionsOf
<1>5. stage'[dcur'] = "dead"
  BY <1>1, CoreTypes
<1>6. TlbOK' /\ died' # "assertion"
  BY <1>1, <1>5 DEF TlbOK, HasSpace
<1>7. UNCHANGED <<firstpaddr, dcur, ram, kpages>> /\ "dead" \notin EarlyStages
  BY <1>1 DEF EarlyStages
<1> HIDE DEF as, p, n, w
<1> QED
  BY <1>2, <1>3, <1>4, <1>6, <1>7, ThreadStep

LEMMA RunsProgramStep ==
  ASSUME DumbCore, NEW t \in DumbThread, runs_program(t)
  PROVE  DumbCore'
<1>1. PICK p \in DumbPrograms : prog' = [prog EXCEPT ![t] = p]
  BY DEF runs_program
<1>2. /\ stage' = [stage EXCEPT ![t] = "define"] /\ died = "no" /\ dcur = t /\ stage[t] = "new" /\ dtlb' = {}
      /\ UNCHANGED <<firstpaddr, space, loadat, dcur, ram, kpages, wrote, died>>
  BY DEF runs_program, dumbGoto, Runs, as_activate
<1> DEFINE as == space[t]
           n == loadat[t]
           w == wrote[t]
<1>3. /\ SetFor(space, space', t, as) /\ SetFor(stage, stage', t, "define") /\ SetFor(prog, prog', t, p)
      /\ SetFor(loadat, loadat', t, n) /\ SetFor(wrote, wrote', t, w)
  BY <1>1, <1>2, CoreTypes, SetForExcept
<1>4. /\ SpaceOK(as) /\ p \in Seq(Segments) /\ n \in Nat \ {0} /\ w \in [UserPages -> DumbMarks]
      /\ "define" \in {"define", "pbase1", "failed", "dead"}
  BY CoreTypes, DumbConstants
<1>5. as = as_create /\ n = 1
  BY <1>2, CoreTypes DEF RegionsOf
<1>6. w = ZeroPages
  BY <1>2, CoreTypes DEF ContentsOf, EarlyStages
<1>7. TlbOK' /\ died' # "assertion"
  BY <1>2 DEF TlbOK
<1>8. UNCHANGED <<firstpaddr, dcur, ram, kpages>>
  BY <1>2
<1> HIDE DEF as, n, w
<1>9. RegionsOf(as, "define", p, n)
  BY <1>5, CreateFacts DEF RegionsOf
<1> QED
  BY <1>3, <1>4, <1>6, <1>7, <1>8, <1>9, ThreadStep

LEMMA SetUpIs ==
  ASSUME NEW as
  PROVE  /\ SetUp(as, 1) <=> as.vbase1 = 0 /\ as.vbase2 = 0
         /\ SetUp(as, 2) <=> as.vbase1 # 0 /\ as.vbase2 = 0 /\ as.npages1 # 0
         /\ SetUp(as, 3) <=> as.vbase1 # 0 /\ as.vbase2 # 0 /\ as.npages1 # 0 /\ as.npages2 # 0
<1>1. (1 > 1) = FALSE /\ (1 > 2) = FALSE /\ (2 > 1) = TRUE /\ (2 > 2) = FALSE /\ (3 > 1) = TRUE /\ (3 > 2) = TRUE
  OBVIOUS
<1> DEFINE a == as.vbase1 # 0
           b == as.vbase2 # 0
           c == as.npages1 # 0
           d == as.npages2 # 0
<1>2. \A i : SetUp(as, i) <=> (a <=> i > 1) /\ (b <=> i > 2) /\ (i > 1 => c) /\ (i > 2 => d)
  BY DEF SetUp
<1> HIDE DEF a, b, c, d
<1>3. SetUp(as, 1) <=> ~a /\ ~b
  BY <1>1, <1>2
<1>4. SetUp(as, 2) <=> a /\ ~b /\ c
  BY <1>1, <1>2
<1>5. SetUp(as, 3) <=> a /\ b /\ c /\ d
  BY <1>1, <1>2
<1> QED
  BY <1>3, <1>4, <1>5 DEF a, b, c, d

LEMMA DefinedFields ==
  ASSUME NEW as \in SpaceRec, NEW seg
  PROVE  LET r == RegionOf(seg.vaddr, seg.memsz)
             new == as_define_region(as, seg)
         IN  /\ as.vbase1 = 0 => new = [as EXCEPT !.vbase1 = r.vbase, !.npages1 = r.npages]
             /\ as.vbase1 # 0 /\ as.vbase2 = 0 => new = [as EXCEPT !.vbase2 = r.vbase, !.npages2 = r.npages]
             /\ as.vbase1 # 0 /\ as.vbase2 # 0 => new = as
  BY DEF as_define_region

LEMMA DefineRegion ==
  ASSUME NEW as, SpaceOK(as), NEW seg \in Segments
  PROVE  SpaceOK(as_define_region(as, seg))
<1> DEFINE r == RegionOf(seg.vaddr, seg.memsz)
           a == r.vbase
           n == r.npages
           new == as_define_region(as, seg)
<1>1. seg.vaddr \in Nat /\ seg.memsz \in Nat
  BY DumbConstants DEF Segments
<1>2. Mult(a) /\ a \in Nat /\ n \in Nat /\ n * PGSIZE < ADDRESSES
  BY <1>1, RegionFacts DEF Mult
<1>3. as \in SpaceRec /\ Mult(as.vbase1) /\ Mult(as.vbase2) /\ AreaSize(as, 1) < ADDRESSES /\ AreaSize(as, 2) < ADDRESSES
  BY DEF SpaceOK
<1>4. /\ as.vbase1 = 0 => new = [as EXCEPT !.vbase1 = a, !.npages1 = n]
      /\ as.vbase1 # 0 /\ as.vbase2 = 0 => new = [as EXCEPT !.vbase2 = a, !.npages2 = n]
      /\ as.vbase1 # 0 /\ as.vbase2 # 0 => new = as
  BY <1>3, DefinedFields
<1> HIDE DEF a, n, new
<1>5. CASE as.vbase1 = 0
  <2>1. new \in SpaceRec /\ new.vbase1 = a /\ new.npages1 = n /\ new.vbase2 = as.vbase2 /\ new.npages2 = as.npages2
    BY <1>2, <1>3, <1>4, <1>5 DEF SpaceRec
  <2> QED
    BY <1>2, <1>3, <2>1 DEF SpaceOK, AreaSize, new
<1>6. CASE as.vbase1 # 0 /\ as.vbase2 = 0
  <2>1. new \in SpaceRec /\ new.vbase2 = a /\ new.npages2 = n /\ new.vbase1 = as.vbase1 /\ new.npages1 = as.npages1
    BY <1>2, <1>3, <1>4, <1>6 DEF SpaceRec
  <2> QED
    BY <1>2, <1>3, <2>1 DEF SpaceOK, AreaSize, new
<1>7. CASE as.vbase1 # 0 /\ as.vbase2 # 0
  BY <1>4, <1>7 DEF new
<1> QED
  BY <1>5, <1>6, <1>7

LEMMA OrdinaryRegion ==
  ASSUME NEW as, SpaceOK(as), NEW p \in Seq(Segments), Ordinary(p), NEW n \in 1 .. 2, SetUp(as, n)
  PROVE  SetUp(as_define_region(as, p[n]), n + 1)
<1> DEFINE seg == p[n]
           r == RegionOf(seg.vaddr, seg.memsz)
           a == r.vbase
           m == r.npages
           new == as_define_region(as, seg)
<1>1. Len(p) = 2 /\ page_frame(seg.vaddr) # 0 /\ m > 0
  BY DEF Ordinary
<1>2. seg \in Segments
  <2>1. n \in 1 .. Len(p)
    BY <1>1
  <2> QED
    BY <2>1, ElementOfSeq
<1>3. seg.vaddr \in Nat /\ seg.memsz \in Nat
  BY <1>2, DumbConstants DEF Segments
<1>4. a # 0 /\ m # 0 /\ a \in Nat /\ m \in Nat
  <2>1. a = page_frame(seg.vaddr) /\ m \in Nat /\ Mult(a)
    BY <1>3, RegionFacts
  <2> QED
    BY <1>1, <2>1 DEF Mult
<1>5. as \in SpaceRec
  BY DEF SpaceOK
<1>6. /\ as.vbase1 = 0 => new = [as EXCEPT !.vbase1 = a, !.npages1 = m]
      /\ as.vbase1 # 0 /\ as.vbase2 = 0 => new = [as EXCEPT !.vbase2 = a, !.npages2 = m]
  BY <1>5, DefinedFields
<1> HIDE DEF a, m, new, seg
<1>7. CASE n = 1
  <2>1. as.vbase1 = 0 /\ as.vbase2 = 0
    <3>1. SetUp(as, 1)
      BY <1>7
    <3> QED
      BY <3>1, SetUpIs
  <2>2. new.vbase1 = a /\ new.npages1 = m /\ new.vbase2 = 0
    BY <1>4, <1>5, <1>6, <2>1 DEF SpaceRec
  <2>3. SetUp(new, 2)
    BY <1>4, <2>2 DEF SetUp
  <2>4. SetUp(new, n + 1)
    <3>1. n + 1 = 2
      BY <1>7
    <3> QED
      BY <2>3, <3>1
  <2> QED
    BY <2>4 DEF new, seg
<1>8. CASE n = 2
  <2>1. as.vbase1 # 0 /\ as.vbase2 = 0 /\ as.npages1 # 0
    <3>1. SetUp(as, 2)
      BY <1>8
    <3> QED
      BY <3>1, SetUpIs
  <2>2. new.vbase1 = as.vbase1 /\ new.npages1 = as.npages1 /\ new.vbase2 = a /\ new.npages2 = m
    BY <1>4, <1>5, <1>6, <2>1 DEF SpaceRec
  <2>3. SetUp(new, 3)
    BY <1>4, <2>1, <2>2, SetUpIs
  <2>4. SetUp(new, n + 1)
    <3>1. n + 1 = 3
      BY <1>8
    <3> QED
      BY <2>3, <3>1
  <2> QED
    BY <2>4 DEF new, seg
<1>9. n = 1 \/ n = 2
  OBVIOUS
<1> QED
  BY <1>7, <1>8, <1>9

LEMMA DefineStep ==
  ASSUME DumbCore, NEW t \in DumbThread, DefineSegment(t)
  PROVE  DumbCore'
<1> DEFINE as == space[t]
           p == prog[t]
           n == loadat[t]
           w == wrote[t]
           Four == {"define", "pbase1", "failed", "dead"}
<1>1. died = "no" /\ dcur = t /\ stage[t] = "define" /\ UNCHANGED <<firstpaddr, dcur, dtlb, ram, kpages, prog, wrote, died>>
  BY DEF DefineSegment, Runs, progVars
<1>2. dtlb' = {} /\ died' # "assertion"
  BY <1>1 DEF DumbCore, TlbOK
<1>3. TlbOK' /\ UNCHANGED <<firstpaddr, dcur, ram, kpages>>
  BY <1>1, <1>2 DEF TlbOK
<1>4. /\ SpaceOK(as) /\ p \in Seq(Segments) /\ n \in Nat \ {0} /\ w \in [UserPages -> DumbMarks]
      /\ RegionsOf(as, "define", p, n)
  BY <1>1, CoreTypes
<1>5. w = ZeroPages
  BY <1>1, CoreTypes DEF ContentsOf, EarlyStages
<1>6. SetFor(prog, prog', t, p) /\ SetFor(wrote, wrote', t, w)
  BY <1>1, CoreTypes, SetForExcept
<1>7. Ordinary(p) => n \in 1 .. 3 /\ SetUp(as, n) /\ Len(p) = 2
  BY <1>4 DEF RegionsOf, Ordinary
<1>8. CASE /\ n <= Len(p) /\ stage' = stage /\ space' = [space EXCEPT ![t] = as_define_region(as, p[n])]
           /\ loadat' = [loadat EXCEPT ![t] = n + 1]
  <2> DEFINE new == as_define_region(as, p[n])
             m == n + 1
  <2>1. /\ SetFor(space, space', t, new) /\ SetFor(stage, stage', t, "define") /\ SetFor(loadat, loadat', t, m)
    <3>1. SetFor(stage, stage, t, stage[t])
      BY CoreTypes, SetForExcept
    <3> QED
      BY <1>1, <1>8, <3>1, CoreTypes, SetForExcept
  <2>2. p[n] \in Segments
    BY <1>4, <1>8
  <2>3. SpaceOK(new) /\ m \in Nat \ {0} /\ "define" \in Four
    BY <1>4, <2>2, DefineRegion
  <2>4. RegionsOf(new, "define", p, m)
    <3> SUFFICES ASSUME Ordinary(p) PROVE m \in 1 .. 3 /\ SetUp(new, m)
      BY DEF RegionsOf
    <3>1. n \in 1 .. 2 /\ SetUp(as, n)
      <4>1. n \in Nat \ {0} /\ SetUp(as, n) /\ n <= Len(p) /\ Len(p) = 2
        BY <1>4, <1>7, <1>8
      <4> HIDE DEF n
      <4> QED
        BY <4>1
    <3> QED
      BY <1>4, <3>1, OrdinaryRegion
  <2> HIDE DEF new, m, as, p, n, w
  <2> QED
    BY <1>2, <1>3, <1>4, <1>5, <1>6, <2>1, <2>3, <2>4, ThreadStep
<1>9. CASE stage' = [stage EXCEPT ![t] = "failed"] /\ UNCHANGED <<space, loadat>>
  <2>1. /\ SetFor(space, space', t, as) /\ SetFor(stage, stage', t, "failed") /\ SetFor(loadat, loadat', t, n)
    BY <1>9, CoreTypes, SetForExcept
  <2>2. RegionsOf(as, "failed", p, n) /\ "failed" \in Four
    BY DEF RegionsOf
  <2> HIDE DEF as, p, n, w
  <2> QED
    BY <1>2, <1>3, <1>4, <1>5, <1>6, <2>1, <2>2, ThreadStep
<1>10. CASE /\ n > Len(p) /\ loadat' = [loadat EXCEPT ![t] = 1] /\ stage' = [stage EXCEPT ![t] = "pbase1"] /\ space' = space
  <2>1. /\ SetFor(space, space', t, as) /\ SetFor(stage, stage', t, "pbase1") /\ SetFor(loadat, loadat', t, 1)
    BY <1>10, CoreTypes, SetForExcept
  <2>2. RegionsOf(as, "pbase1", p, 1) /\ 1 \in Nat \ {0} /\ "pbase1" \in Four
    <3>1. ASSUME Ordinary(p) PROVE n = 3
      <4>1. n \in 1 .. 3 /\ n > Len(p) /\ Len(p) = 2
        BY <1>7, <1>10, <3>1
      <4> HIDE DEF n
      <4> QED
        BY <4>1
    <3> QED
      BY <1>7, <3>1 DEF RegionsOf
  <2> HIDE DEF as, p, n, w
  <2> QED
    BY <1>2, <1>3, <1>4, <1>5, <1>6, <2>1, <2>2, ThreadStep
<1> QED
  BY <1>8, <1>9, <1>10 DEF DefineSegment, dumbGoto

Bases == {"pbase1", "pbase2", "stackpbase"}
PlaceOf(base) == IF base = "pbase1" THEN 1 ELSE IF base = "pbase2" THEN 2 ELSE 3

\* Storing where an area is changes nothing else.
LEMMA BaseSet ==
  ASSUME NEW as, SpaceOK(as), NEW base \in Bases, NEW x \in Nat, NEW new, new = [as EXCEPT ![base] = x]
  PROVE  /\ SpaceOK(new) /\ AreaBase(new, PlaceOf(base)) = x
         /\ \A j \in 1 .. 3 : /\ AreaSize(new, j) = AreaSize(as, j)
                              /\ j # PlaceOf(base) => AreaBase(new, j) = AreaBase(as, j)
         /\ \A s, p, n : s # "new" => (RegionsOf(new, s, p, n) <=> RegionsOf(as, s, p, n))
<1>1. as \in SpaceRec /\ Mult(as.vbase1) /\ Mult(as.vbase2) /\ AreaSize(as, 1) < ADDRESSES /\ AreaSize(as, 2) < ADDRESSES
  BY DEF SpaceOK
<1>2. /\ new \in SpaceRec /\ new.vbase1 = as.vbase1 /\ new.vbase2 = as.vbase2
      /\ new.npages1 = as.npages1 /\ new.npages2 = as.npages2
      /\ new.pbase1 = IF base = "pbase1" THEN x ELSE as.pbase1
      /\ new.pbase2 = IF base = "pbase2" THEN x ELSE as.pbase2
      /\ new.stackpbase = IF base = "stackpbase" THEN x ELSE as.stackpbase
  <2>1. CASE base = "pbase1"
    BY <1>1, <2>1 DEF SpaceRec
  <2>2. CASE base = "pbase2"
    BY <1>1, <2>2 DEF SpaceRec
  <2>3. CASE base = "stackpbase"
    BY <1>1, <2>3 DEF SpaceRec
  <2> QED
    BY <2>1, <2>2, <2>3 DEF Bases
<1>3. \A j \in 1 .. 3 : AreaSize(new, j) = AreaSize(as, j)
  BY <1>2 DEF AreaSize
<1>4. SpaceOK(new)
  <2>1. AreaSize(new, 1) < ADDRESSES /\ AreaSize(new, 2) < ADDRESSES
    <3>1. AreaSize(new, 1) = AreaSize(as, 1) /\ AreaSize(new, 2) = AreaSize(as, 2)
      BY ONLY <1>2, AreaIs
    <3> QED
      BY <1>1, <3>1
  <2>2. Mult(new.vbase1) /\ Mult(new.vbase2)
    BY <1>1, <1>2
  <2> QED
    BY <1>2, <2>1, <2>2 DEF SpaceOK
<1>5. AreaBase(new, PlaceOf(base)) = x
  <2>1. CASE base = "pbase1"
    BY <1>2, <2>1 DEF AreaBase, PlaceOf
  <2>2. CASE base = "pbase2"
    <3>1. PlaceOf(base) = 2
      BY <2>2 DEF PlaceOf
    <3> QED
      BY ONLY <1>2, <2>2, <3>1, AreaIs
  <2>3. CASE base = "stackpbase"
    <3>1. PlaceOf(base) = 3
      BY <2>3 DEF PlaceOf
    <3> QED
      BY ONLY <1>2, <2>3, <3>1, AreaIs
  <2> QED
    BY <2>1, <2>2, <2>3 DEF Bases
<1>6. ASSUME NEW j \in 1 .. 3, j # PlaceOf(base)
      PROVE  AreaBase(new, j) = AreaBase(as, j)
  <2>1. j = 1 \/ j = 2 \/ j = 3
    OBVIOUS
  <2>2. base \in {"pbase1", "pbase2", "stackpbase"}
    BY DEF Bases
  <2> QED
    BY <1>2, <1>6, <2>1, <2>2 DEF AreaBase, PlaceOf
<1>7. \A i : SetUp(new, i) <=> SetUp(as, i)
  BY <1>2 DEF SetUp
<1>8. \A s, p, n : s # "new" => (RegionsOf(new, s, p, n) <=> RegionsOf(as, s, p, n))
  BY <1>7 DEF RegionsOf
<1> QED
  BY <1>3, <1>4, <1>5, <1>6, <1>8

LEMMA AskedFacts ==
  ASSUME NEW as, SpaceOK(as), NEW base \in Bases
  PROVE  LET a == Asked(as)[base]
             k == PlaceOf(base)
         IN  /\ a.npages \in Nat /\ a.npages * PGSIZE = AreaSize(as, k) /\ AreaSize(as, k) < ADDRESSES
             /\ k \in 1 .. 3 /\ GotAt[base] = k - 1 /\ GotAt[a.next] = k
             /\ a.next \in DumbStages \ {"load", "run", "new", "define"} /\ base \in DumbStages
             /\ a.next \in EarlyStages /\ base \in EarlyStages
             /\ base \in {"pbase1", "pbase2", "stackpbase", "zero", "load", "run"}
             /\ a.next \in {"pbase1", "pbase2", "stackpbase", "zero", "load", "run"}
<1> DEFINE a == Asked(as)[base]
           k == PlaceOf(base)
<1>1. a = IF base = "pbase1" THEN [npages |-> as.npages1, next |-> "pbase2"]
          ELSE IF base = "pbase2" THEN [npages |-> as.npages2, next |-> "stackpbase"]
          ELSE [npages |-> DUMBVM_STACKPAGES, next |-> "zero"]
  <2>1. CASE base = "pbase1"
    BY <2>1 DEF Asked
  <2>2. CASE base = "pbase2"
    BY <2>2 DEF Asked
  <2>3. CASE base = "stackpbase"
    BY <2>3 DEF Asked
  <2> QED
    BY <2>1, <2>2, <2>3 DEF Bases
<1>2. as.npages1 \in Nat /\ as.npages2 \in Nat /\ DUMBVM_STACKPAGES \in Nat
  BY DumbConstants DEF SpaceOK, SpaceRec
<1>3. k \in 1 .. 3
  BY DEF PlaceOf
<1>4. AreaSize(as, k) < ADDRESSES
  BY <1>3, AreaTypes
<1> HIDE DEF a
<1>5. a.npages \in Nat /\ a.npages * PGSIZE = AreaSize(as, k)
  <2>1. CASE base = "pbase1"
    BY <1>1, <1>2, <2>1 DEF PlaceOf, AreaSize
  <2>2. CASE base = "pbase2"
    <3>1. k = 2 /\ a.npages = as.npages2
      BY <1>1, <2>2 DEF PlaceOf
    <3> QED
      BY ONLY <1>2, <3>1, AreaIs
  <2>3. CASE base = "stackpbase"
    <3>1. k = 3 /\ a.npages = DUMBVM_STACKPAGES
      BY <1>1, <2>3 DEF PlaceOf
    <3> QED
      BY ONLY <1>2, <3>1, AreaIs
  <2> QED
    BY <2>1, <2>2, <2>3 DEF Bases
<1>6. GotAt[base] = k - 1 /\ GotAt[a.next] = k
  <2>1. CASE base = "pbase1"
    BY <1>1, <2>1, GotFacts DEF PlaceOf
  <2>2. CASE base = "pbase2"
    BY <1>1, <2>2, GotFacts DEF PlaceOf
  <2>3. CASE base = "stackpbase"
    BY <1>1, <2>3, GotFacts DEF PlaceOf
  <2> QED
    BY <2>1, <2>2, <2>3 DEF Bases
<1>7. /\ a.next \in DumbStages \ {"load", "run", "new", "define"} /\ base \in DumbStages
      /\ a.next \in EarlyStages /\ base \in EarlyStages
      /\ base \in {"pbase1", "pbase2", "stackpbase", "zero", "load", "run"}
      /\ a.next \in {"pbase1", "pbase2", "stackpbase", "zero", "load", "run"}
  <2>1. a.next = IF base = "pbase1" THEN "pbase2" ELSE IF base = "pbase2" THEN "stackpbase" ELSE "zero"
    BY <1>1
  <2> QED
    BY <2>1 DEF Bases, DumbStages, EarlyStages
<1> QED
  BY <1>3, <1>4, <1>5, <1>6, <1>7 DEF a

LEMMA GetStep ==
  ASSUME DumbCore, NEW t \in DumbThread, NEW base \in Bases, getppages(t, base)
  PROVE  DumbInv'
<1> DEFINE as == space[t]
           ask == Asked(as)[base]
           q == ask.npages
           next == ask.next
           first == firstpaddr
           r == ram_stealmem(first, q)
           x == r.paddr
           new == [as EXCEPT ![base] = x]
           k == PlaceOf(base)
           p == prog[t]
           n == loadat[t]
           w == wrote[t]
<1>1. /\ died = "no" /\ dcur = t /\ stage[t] = base /\ UNCHANGED <<loadat, dcur, dtlb, ram, kpages, prog, wrote>>
      /\ space' = [space EXCEPT ![t] = new] /\ firstpaddr' = r.first
      /\ died' = (IF r.over THEN "overrun" ELSE died)
      /\ stage' = [stage EXCEPT ![t] = IF x = 0 THEN "failed" ELSE next]
  BY DEF getppages, Runs, dumbGoto, progVars
<1>2. CASE r.over
  BY <1>1, <1>2 DEF DumbInv
<1>3. CASE ~r.over
  <2>1. Steals(r, first, q)
    <3>1. r.over \in BOOLEAN
      <4> DEFINE b == first + wrap(q * PGSIZE) >= ADDRESSES
                 c == wrap(first + wrap(q * PGSIZE)) > RamSize
                 a == wrap(first + wrap(q * PGSIZE))
      <4>1. r = IF c THEN [paddr |-> 0, first |-> first, over |-> FALSE] ELSE [paddr |-> first, first |-> a, over |-> b]
        BY DEF ram_stealmem
      <4>2. b \in BOOLEAN
        OBVIOUS
      <4> HIDE DEF a, b, c, r
      <4>3. r.over = IF c THEN FALSE ELSE b
        BY <4>1
      <4> QED
        BY <4>2, <4>3
    <3> QED
      BY <1>3, <3>1 DEF Steals
  <2>2. died' = "no"
    BY <1>1, <1>3
  <2>3. /\ SpaceOK(as) /\ p \in Seq(Segments) /\ n \in Nat \ {0} /\ w \in [UserPages -> DumbMarks]
        /\ RegionsOf(as, base, p, n) /\ \A u \in DumbThread : SpaceOK(space[u])
    BY <1>1, CoreTypes
  <2>4. /\ q \in Nat /\ q * PGSIZE = AreaSize(as, k) /\ q * PGSIZE < ADDRESSES
        /\ k \in 1 .. 3 /\ GotAt[base] = k - 1 /\ GotAt[next] = k
        /\ next \in DumbStages \ {"load", "run", "new", "define"} /\ base \in DumbStages
        /\ next \in EarlyStages /\ base \in EarlyStages
        /\ base \in {"pbase1", "pbase2", "stackpbase", "zero", "load", "run"}
        /\ next \in {"pbase1", "pbase2", "stackpbase", "zero", "load", "run"}
    BY <2>3, AskedFacts
  <2>5. w = ZeroPages
    BY <1>1, <2>4, CoreTypes DEF ContentsOf
  <2>6. dtlb' = {}
    BY <1>1 DEF DumbCore, TlbOK, Bases
  <2>7. TlbOK' /\ died' # "assertion"
    BY <2>2, <2>6 DEF TlbOK
  <2>8. /\ first \in Nat /\ Mult(first) /\ FirstFree <= first /\ first <= RamSize
        /\ AreasApart(space, stage, kpages, first) /\ ram \in [Frames -> DumbMarks]
    BY DEF DumbCore, DumbType
  <2> HIDE DEF r
  <2>9. /\ r.paddr = 0 => r.first = first
        /\ r.paddr # 0 => r.paddr = first /\ r.first = first + q * PGSIZE
        /\ r.first \in Nat /\ Mult(r.first) /\ first <= r.first /\ r.first <= RamSize
    <3>1. first \in Nat /\ Mult(first) /\ FirstFree <= first /\ first <= RamSize /\ q \in Nat /\ q * PGSIZE < ADDRESSES
      BY <2>4, <2>8
    <3> HIDE DEF first, q
    <3> QED
      BY ONLY <2>1, <3>1, StealFacts
  <2>10. x \in Nat
    BY <2>8, <2>9
  <2> HIDE DEF x
  <2>11. /\ SpaceOK(new) /\ AreaBase(new, k) = x
         /\ \A j \in 1 .. 3 : /\ AreaSize(new, j) = AreaSize(as, j)
                              /\ j # k => AreaBase(new, j) = AreaBase(as, j)
         /\ \A s, pp, nn : s # "new" => (RegionsOf(new, s, pp, nn) <=> RegionsOf(as, s, pp, nn))
    <3> HIDE DEF as
    <3> QED
      BY <2>3, <2>10, BaseSet
  <2> HIDE DEF new
  <2>12. /\ SetFor(space, space', t, new) /\ SetFor(prog, prog', t, p) /\ SetFor(loadat, loadat', t, n)
         /\ SetFor(wrote, wrote', t, w)
    BY <1>1, CoreTypes, SetForExcept
  <2>13. CASE x = 0
    <3>1. SetFor(stage, stage', t, "failed")
      BY <1>1, <2>13, CoreTypes, SetForExcept
    <3>2. RegionsOf(new, "failed", p, n) /\ "failed" \in {"define", "pbase1", "failed", "dead"}
      BY DEF RegionsOf
    <3>3. UNCHANGED <<firstpaddr, dcur, ram, kpages>>
      BY <1>1, <2>9, <2>13 DEF x
    <3>4. DumbCore'
      <4> HIDE DEF p, n, w
      <4> QED
        BY <2>3, <2>5, <2>7, <2>11, <2>12, <3>1, <3>2, <3>3, ThreadStep
    <3> QED
      BY <3>4 DEF DumbInv
  <2>14. CASE x # 0
    <3>1. SetFor(stage, stage', t, next)
      BY <1>1, <2>14, CoreTypes, SetForExcept
    <3>2. RegionsOf(new, next, p, n)
      <4>1. RegionsOf(as, next, p, n)
        BY <2>3, <2>4 DEF RegionsOf
      <4> QED
        BY <2>4, <2>11, <4>1
    <3>3. x = first /\ firstpaddr' = first + AreaSize(new, k)
      BY <1>1, <2>4, <2>9, <2>11, <2>14 DEF x
    <3>4. /\ space'[t] = new /\ stage'[t] = next /\ \A u \in DumbThread : SpaceOK(space'[u])
          /\ \A u \in DumbThread : u # t => stage'[u] = stage[u] /\ space'[u] = space[u]
      BY <2>3, <2>11, <2>12, <3>1 DEF SetFor
    <3>5. AreasApart(space', stage, kpages, first)
      <4>1. FewerAreas(space, stage, space', stage)
        <5> SUFFICES ASSUME NEW u \in DumbThread, NEW l \in 1 .. 3, l <= GotAt[stage[u]]
                     PROVE  AreaBase(space'[u], l) = AreaBase(space[u], l) /\ AreaSize(space'[u], l) = AreaSize(space[u], l)
          BY DEF FewerAreas
        <5>1. CASE u # t
          BY <3>4, <5>1
        <5>2. CASE u = t
          <6>1. l # k
            BY <1>1, <2>4, <5>2
          <6> QED
            BY <2>11, <3>4, <5>2, <6>1
        <5> QED
          BY <5>1, <5>2
      <4> QED
        BY <2>8, <4>1, FewerApart
    <3>6. AreasApart(space', stage', kpages, firstpaddr')
      <4>1. /\ k = GotAt[stage[t]] + 1 /\ GotAt[stage[t]] \in Nat /\ AreaBase(space'[t], k) = first
            /\ GotAt[stage'[t]] = k /\ SpaceOK(space'[t])
        BY <1>1, <2>4, <2>11, <3>3, <3>4
      <4>2. AreasApart(space', stage', kpages, first + AreaSize(space'[t], k))
        <5> DEFINE sp == space'
                   su == stage'
                   st == stage
                   kp == kpages
        <5>1. /\ first \in Nat /\ Mult(first) /\ FirstFree <= first /\ k \in 1 .. 3
              /\ \A u \in DumbThread : SpaceOK(sp[u])
              /\ \A u \in DumbThread : u # t => su[u] = st[u]
          BY <2>4, <2>8, <3>4
        <5>2. AreasApart(sp, st, kp, first)
          BY <3>5
        <5>3. /\ k = GotAt[st[t]] + 1 /\ GotAt[st[t]] \in Nat /\ AreaBase(sp[t], k) = first
              /\ GotAt[su[t]] = k /\ SpaceOK(sp[t])
          BY <4>1
        <5> HIDE DEF sp, su, st, kp, k, first
        <5>4. AreasApart(sp, su, kp, first + AreaSize(sp[t], k))
          BY <5>1, <5>2, <5>3, AreaGrows
        <5> QED
          BY <5>4 DEF sp, su, kp
      <4> QED
        BY <3>3, <3>4, <4>2
    <3>7. Contents(space', stage', ram, wrote', kpages)
      <4>1. next \in DumbStages /\ next \notin {"load", "run"}
        BY <2>4
      <4> HIDE DEF next, w
      <4> QED
        BY <2>5, <2>12, <3>1, <4>1, ContentsGoOn
    <3>8. FirstOK(firstpaddr')
      <4>1. firstpaddr' \in Nat /\ Mult(firstpaddr') /\ FirstFree <= firstpaddr' /\ firstpaddr' <= RamSize
        BY <1>1, <2>8, <2>9, DumbConstants
      <4> QED
        BY <4>1 DEF FirstOK
    <3>9. /\ ram' \in [Frames -> DumbMarks] /\ dcur' = dcur /\ next \in DumbStages
          /\ AreasApart(space', stage', kpages', firstpaddr') /\ Contents(space', stage', ram', wrote', kpages')
      BY <1>1, <2>4, <2>8, <3>6, <3>7
    <3>10. DumbCore'
      <4> HIDE DEF p, n, w, next
      <4> QED
        BY <2>3, <2>7, <2>11, <2>12, <3>1, <3>2, <3>8, <3>9, ThreadGoesOn
    <3> QED
      BY <3>10 DEF DumbInv
  <2> QED
    BY <2>13, <2>14
<1> QED
  BY <1>2, <1>3

LEMMA InAreasIs ==
  ASSUME NEW as, NEW f
  PROVE  InAreas(as, f) <=> \E k \in 1 .. 3 : InArea(as, k, f)
<1>1. /\ InArea(as, 1, f) <=> as.pbase1 <= f /\ f < as.pbase1 + as.npages1 * PGSIZE
      /\ InArea(as, 2, f) <=> as.pbase2 <= f /\ f < as.pbase2 + as.npages2 * PGSIZE
      /\ InArea(as, 3, f) <=> as.stackpbase <= f /\ f < as.stackpbase + DUMBVM_STACKPAGES * PGSIZE
  BY AreaIs DEF InArea
<1>2. InAreas(as, f) <=> InArea(as, 1, f) \/ InArea(as, 2, f) \/ InArea(as, 3, f)
  <2> DEFINE a1 == <<as.pbase1, as.npages1 * PGSIZE>>
             a2 == <<as.pbase2, as.npages2 * PGSIZE>>
             a3 == <<as.stackpbase, DUMBVM_STACKPAGES * PGSIZE>>
             In(a) == a[1] <= f /\ f < a[1] + a[2]
  <2>1. InAreas(as, f) <=> \E a \in {a1, a2, a3} : In(a)
    BY DEF InAreas, Areas
  <2>2. (InArea(as, 1, f) <=> In(a1)) /\ (InArea(as, 2, f) <=> In(a2)) /\ (InArea(as, 3, f) <=> In(a3))
    BY <1>1
  <2> HIDE DEF a1, a2, a3, In
  <2> QED
    BY <2>1, <2>2, Zenon
<1>3. \A k : k \in 1 .. 3 <=> k = 1 \/ k = 2 \/ k = 3
  OBVIOUS
<1> QED
  BY <1>2, <1>3, Zenon

LEMMA OwnedByOne ==
  ASSUME NEW sp, NEW st, NEW kp, NEW first, AreasApart(sp, st, kp, first),
         NEW t \in DumbThread, GotAt[st[t]] = 3, NEW f \in Nat, InAreas(sp[t], f)
  PROVE  /\ \A u \in DumbThread : \A k \in 1 .. 3 : Owns(sp[u], st[u], k, f) => u = t
         /\ f \notin kp
<1>1. PICK l \in 1 .. 3 : InArea(sp[t], l, f)
  BY InAreasIs
<1>2. Owns(sp[t], st[t], l, f)
  BY <1>1 DEF Owns
<1> QED
  BY <1>2 DEF AreasApart

LEMMA ZeroStep ==
  ASSUME DumbCore, NEW t \in DumbThread, as_zero_region(t)
  PROVE  DumbCore'
<1> DEFINE as == space[t]
           p == prog[t]
           n == loadat[t]
           w == wrote[t]
<1>1. /\ died = "no" /\ dcur = t /\ stage[t] = "zero" /\ stage' = [stage EXCEPT ![t] = "load"]
      /\ ram' = [f \in Frames |-> IF InAreas(space[t], f) THEN ZERO ELSE ram[f]]
      /\ UNCHANGED <<firstpaddr, space, loadat, dcur, dtlb, kpages, prog, wrote, died>>
  BY DEF as_zero_region, Runs, dumbGoto, progVars
<1>2. /\ firstpaddr \in Nat /\ firstpaddr <= RamSize /\ FirstOK(firstpaddr)
      /\ AreasApart(space, stage, kpages, firstpaddr) /\ ram \in [Frames -> DumbMarks]
      /\ Contents(space, stage, ram, wrote, kpages)
  BY DEF DumbCore, DumbType, FirstOK
<1>3. /\ SpaceOK(as) /\ p \in Seq(Segments) /\ n \in Nat \ {0} /\ w \in [UserPages -> DumbMarks]
      /\ RegionsOf(as, "zero", p, n) /\ w = ZeroPages /\ \A u \in DumbThread : SpaceOK(space[u])
  BY <1>1, CoreTypes DEF ContentsOf, EarlyStages
<1>4. dtlb' = {}
  BY <1>1 DEF DumbCore, TlbOK
<1>5. TlbOK' /\ died' # "assertion"
  BY <1>1, <1>4 DEF TlbOK
<1>6. /\ SetFor(space, space', t, as) /\ SetFor(prog, prog', t, p) /\ SetFor(loadat, loadat', t, n)
      /\ SetFor(wrote, wrote', t, w) /\ SetFor(stage, stage', t, "load")
  BY <1>1, CoreTypes, SetForExcept
<1>7. RegionsOf(as, "load", p, n)
  BY <1>3 DEF RegionsOf
<1>8. stage'[t] = "load" /\ \A u \in DumbThread : u # t => stage'[u] = stage[u]
  BY <1>6 DEF SetFor
<1>9. GotAt["zero"] = 3 /\ GotAt["load"] = 3
  BY GotFacts
<1>10. AreasApart(space, stage', kpages, firstpaddr)
  <2>1. FewerAreas(space, stage, space, stage')
    BY <1>1, <1>8, <1>9 DEF FewerAreas
  <2> QED
    BY <1>2, <2>1, FewerApart
<1>11. Frames \subseteq Nat
  BY DumbConstants DEF Frames
<1>12. ram' \in [Frames -> DumbMarks]
  BY <1>1, <1>2 DEF DumbMarks
<1>13. \A f \in Frames : /\ InAreas(as, f) => ram'[f] = ZERO
                         /\ ~InAreas(as, f) => ram'[f] = ram[f]
  BY <1>1
<1>14. ASSUME NEW f \in kpages PROVE ram'[f] = KERNEL
  <2>1. f \in Frames /\ ram[f] = KERNEL
    BY <1>2 DEF AreasApart, Contents
  <2>2. ~InAreas(as, f)
    BY <1>1, <1>2, <1>9, <1>11, <2>1, OwnedByOne
  <2> QED
    BY <1>13, <2>1, <2>2
<1>15. ASSUME NEW u \in DumbThread, NEW v \in UserPages, stage'[u] \in {"load", "run"}, FrameOf(space[u], v) # NoFrame
       PROVE  ram'[FrameOf(space[u], v)] = wrote[u][v]
  <2> DEFINE f == FrameOf(space[u], v)
  <2>1. stage[u] \in {"zero", "load", "run"}
    BY <1>1, <1>8, <1>15
  <2>2. PICK k \in 1 .. 3 : Owns(space[u], stage[u], k, f) /\ InArea(space[u], k, f) /\ f \in Frames
    BY <1>2, <1>3, <1>15, <2>1, FrameIsOwn
  <2>3. CASE u = t
    <3>1. wrote[u][v] = ZERO
      BY <1>3, <2>3 DEF ZeroPages
    <3>2. InAreas(as, f)
      BY <2>2, <2>3, InAreasIs
    <3> HIDE DEF f
    <3>3. ram'[f] = wrote[u][v]
      BY <1>13, <2>2, <3>1, <3>2
    <3> QED
      BY <3>3 DEF f
  <2>4. CASE u # t
    <3>1. ram[f] = wrote[u][v]
      <4>1. stage[u] \in {"load", "run"}
        BY <1>8, <1>15, <2>4
      <4> QED
        BY <1>2, <1>15, <4>1 DEF Contents
    <3> HIDE DEF f
    <3>2. ~InAreas(as, f)
      BY <1>1, <1>2, <1>9, <1>11, <2>2, <2>4, OwnedByOne
    <3>3. ram'[f] = wrote[u][v]
      BY <1>13, <2>2, <3>1, <3>2
    <3> QED
      BY <3>3 DEF f
  <2> QED
    BY <2>3, <2>4
<1>16. ASSUME NEW u \in DumbThread, stage'[u] \in EarlyStages PROVE wrote[u] = ZeroPages
  <2>1. stage[u] \in EarlyStages
    BY <1>1, <1>8, <1>16 DEF EarlyStages
  <2> QED
    BY <2>1, CoreTypes DEF ContentsOf
<1>17. Contents(space, stage', ram', wrote, kpages)
  BY <1>14, <1>15, <1>16 DEF Contents, EarlyStages, ZeroPages
<1>18. /\ FirstOK(firstpaddr') /\ dcur' = dcur /\ "load" \in DumbStages
       /\ AreasApart(space', stage', kpages', firstpaddr') /\ Contents(space', stage', ram', wrote', kpages')
  BY <1>1, <1>2, <1>10, <1>17 DEF DumbStages
<1> HIDE DEF as, p, n, w
<1> QED
  BY <1>3, <1>5, <1>6, <1>7, <1>12, <1>18, ThreadGoesOn

-----------------------------------------------------------------------------
(* Faults and stores *)

\* What a fault that changes no thread leaves alone.
QuietFault == UNCHANGED <<firstpaddr, space, stage, prog, loadat, dcur, ram, kpages, wrote>>

LEMMA QuietStep ==
  ASSUME DumbCore, QuietFault, TlbOK', died' = "assertion" => ~Ordinary(prog[dcur])
  PROVE  DumbCore'
<1>1. UNCHANGED <<firstpaddr, space, stage, prog, loadat, dcur, ram, kpages, wrote>>
  BY DEF QuietFault
<1>2. DumbType' /\ AreasApart(space, stage, kpages, firstpaddr)' /\ Contents(space, stage, ram, wrote, kpages)'
      /\ RegionsSet(space, stage, prog, loadat)'
  BY <1>1 DEF DumbCore, DumbType
<1>3. (died = "assertion" => ~Ordinary(prog[dcur]))'
  BY <1>1
<1> QED
  BY <1>2, <1>3 DEF DumbCore

LEMMA SameTlb ==
  ASSUME DumbCore, QuietFault, dtlb' = dtlb
  PROVE  TlbOK'
  BY DEF DumbCore, QuietFault, TlbOK, HasSpace

\* The assertions hold for an ordinary program that is loaded or runs.
LEMMA OrdinarySetUp ==
  ASSUME DumbCore, NEW t \in DumbThread, stage[t] \in {"load", "run"}, Ordinary(prog[t])
  PROVE  ProperlySetUp(space[t])
<1> DEFINE as == space[t]
<1>1. SpaceOK(as) /\ RegionsOf(as, stage[t], prog[t], loadat[t])
  BY CoreTypes
<1>2. SetUp(as, 3)
  BY <1>1 DEF RegionsOf
<1>3. as \in SpaceRec
  BY <1>1 DEF SpaceOK
<1>4. GotAt[stage[t]] = 3
  BY GotFacts
<1>5. \A k \in 1 .. 3 : FirstFree <= AreaBase(as, k) /\ AreaBase(as, k) \in Nat
  <2>1. AreasApart(space, stage, kpages, firstpaddr)
    BY DEF DumbCore
  <2>2. \A k \in 1 .. 3 : AreaBase(as, k) \in Nat
    BY <1>1, AreaTypes
  <2> QED
    BY <1>4, <2>1, <2>2 DEF AreasApart
<1> HIDE DEF as
<1>6. ASSUME NEW k \in 1 .. 3 PROVE AreaBase(as, k) # 0
  <2> DEFINE b == AreaBase(as, k)
  <2>1. FirstFree <= b /\ b \in Nat /\ FirstFree \in Nat /\ 0 < FirstFree
    BY <1>5, DumbConstants
  <2> HIDE DEF b
  <2>2. b # 0
    BY <2>1
  <2> QED
    BY <2>2 DEF b
<1>7. AreaBase(as, 1) # 0 /\ AreaBase(as, 2) # 0 /\ AreaBase(as, 3) # 0
  <2>1. 1 \in 1 .. 3 /\ 2 \in 1 .. 3 /\ 3 \in 1 .. 3
    OBVIOUS
  <2> QED
    BY <1>6, <2>1, Zenon
<1>8. as.pbase1 # 0 /\ as.pbase2 # 0 /\ as.stackpbase # 0
  BY <1>7, AreaIs
<1>9. as.vbase1 # 0 /\ as.vbase2 # 0 /\ as.npages1 # 0 /\ as.npages2 # 0
  BY <1>2, SetUpIs
<1>10. DOMAIN as = {"vbase1", "npages1", "pbase1", "vbase2", "npages2", "pbase2", "stackpbase"}
  BY <1>3 DEF SpaceRec
<1>11. ProperlySetUp(as)
  BY <1>8, <1>9, <1>10 DEF ProperlySetUp
<1> QED
  BY <1>11 DEF as

\* What becomes of a fault: the assertion, an entry, or the caller's answer.
LEMMA FaultFills ==
  ASSUME DumbCore, NEW t \in DumbThread, dcur = t, stage[t] \in {"load", "run"}, died = "no",
         NEW v \in UserPages, QuietFault, dtlb' = dtlb \cup {<<v, FrameOf(space[t], v)>>}, died' = died
  PROVE  DumbCore'
<1>1. TlbOK'
  <2>1. UNCHANGED <<stage, space, dcur>>
    BY DEF QuietFault
  <2>2. stage[dcur] \notin {"define", "pbase1", "pbase2", "stackpbase", "zero"} /\ HasSpace(dcur)
    BY DEF HasSpace
  <2>3. \A e \in dtlb : e[1] \in UserPages /\ e[2] = FrameOf(space[dcur], e[1])
    BY <2>2 DEF DumbCore, TlbOK
  <2>4. \A e \in dtlb' : e[1] \in UserPages /\ e[2] = FrameOf(space[dcur], e[1])
    BY <2>3
  <2>5. \A e \in dtlb' : e[1] \in UserPages /\ e[2] = FrameOf(space'[dcur'], e[1])
    BY <2>1, <2>4
  <2>6. stage'[dcur'] \notin {"define", "pbase1", "pbase2", "stackpbase", "zero"}
    BY <2>1, <2>2
  <2> QED
    BY <2>5, <2>6 DEF TlbOK
<1> QED
  BY <1>1, QuietStep

LEMMA FaultAsserts ==
  ASSUME DumbCore, NEW t \in DumbThread, dcur = t, stage[t] \in {"load", "run"},
         ~ProperlySetUp(space[t]), QuietFault, dtlb' = dtlb
  PROVE  DumbCore'
<1>1. ~Ordinary(prog[t])
  BY OrdinarySetUp
<1>2. TlbOK'
  BY SameTlb
<1> QED
  BY <1>1, <1>2, QuietStep

LEMMA FaultKills ==
  ASSUME DumbCore, QuietFault, dtlb' = dtlb, died' # "assertion"
  PROVE  DumbCore'
  BY SameTlb, QuietStep

LEMMA LoadFails ==
  ASSUME DumbCore, NEW t \in DumbThread, dcur = t, stage[t] = "load", died = "no",
         stage' = [stage EXCEPT ![t] = "failed"],
         UNCHANGED <<firstpaddr, space, loadat, dcur, dtlb, ram, kpages, prog, wrote, died>>
  PROVE  DumbCore'
<1> DEFINE as == space[t]
           p == prog[t]
           n == loadat[t]
           w == wrote[t]
<1>1. /\ SetFor(space, space', t, as) /\ SetFor(stage, stage', t, "failed") /\ SetFor(prog, prog', t, p)
      /\ SetFor(loadat, loadat', t, n) /\ SetFor(wrote, wrote', t, w)
  BY CoreTypes, SetForExcept
<1>2. /\ SpaceOK(as) /\ p \in Seq(Segments) /\ n \in Nat \ {0} /\ w \in [UserPages -> DumbMarks]
      /\ "failed" \in {"define", "pbase1", "failed", "dead"}
  BY CoreTypes
<1>3. RegionsOf(as, "failed", p, n)
  BY DEF RegionsOf
<1>4. stage'[dcur'] = "failed" /\ HasSpace(dcur)
  BY CoreTypes DEF HasSpace
<1>5. TlbOK' /\ died' # "assertion"
  <2>1. \A e \in dtlb : e[1] \in UserPages /\ e[2] = FrameOf(space[dcur], e[1])
    BY <1>4 DEF DumbCore, TlbOK
  <2>2. \A e \in dtlb' : e[1] \in UserPages /\ e[2] = FrameOf(space'[dcur'], e[1])
    BY <2>1
  <2> QED
    BY <1>4, <2>2 DEF TlbOK
<1>6. UNCHANGED <<firstpaddr, dcur, ram, kpages>> /\ "failed" \notin EarlyStages
  BY DEF EarlyStages
<1> HIDE DEF as, p, n, w
<1> QED
  BY <1>1, <1>2, <1>3, <1>5, <1>6, ThreadStep

LEMMA LoadFaultStep ==
  ASSUME DumbCore, NEW t \in DumbThread, LoadFault(t)
  PROVE  DumbCore'
<1> DEFINE v == LoadPages(prog[t])[loadat[t]]
           f == FrameOf(space[t], v)
<1>1. died = "no" /\ dcur = t /\ stage[t] = "load" /\ stage[t] \in {"load", "run"}
  BY DEF LoadFault, Runs
<1>2. CASE v \in UserPages
  <2>1. vm_fault(t, v, dumbGoto(t, "failed") /\ UNCHANGED <<loadat, dtlb, died>>)
    BY <1>2 DEF LoadFault
  <2>2. /\ UNCHANGED <<firstpaddr, space, dcur, ram, kpages, prog, wrote>>
        /\ \/ ~ProperlySetUp(space[t]) /\ UNCHANGED <<stage, loadat, dtlb>>
           \/ stage' = [stage EXCEPT ![t] = "failed"] /\ UNCHANGED <<loadat, dtlb, died>>
           \/ dtlb' = dtlb \cup {<<v, f>>} /\ UNCHANGED <<stage, loadat, died>>
    BY <2>1 DEF vm_fault, dumbGoto, dies, progVars
  <2> HIDE DEF v
  <2> QED
    BY <1>1, <1>2, <2>2, FaultAsserts, LoadFails, FaultFills DEF QuietFault
<1>3. CASE v \notin UserPages
  <2>1. stage' = [stage EXCEPT ![t] = "failed"] /\ UNCHANGED <<firstpaddr, space, loadat, dcur, dtlb, ram, kpages, prog, wrote, died>>
    BY <1>3 DEF LoadFault, dumbGoto, progVars
  <2> QED
    BY <1>1, <2>1, LoadFails
<1> QED
  BY <1>2, <1>3

LEMMA FaultStep ==
  ASSUME DumbCore, NEW t \in DumbThread, dcur = t, stage[t] \in {"load", "run"}, died = "no",
         NEW v \in UserPages, NEW why, why # "assertion", vm_fault(t, v, dies(why))
  PROVE  DumbCore'
<1>1. /\ UNCHANGED <<firstpaddr, space, dcur, ram, kpages, prog, wrote>>
      /\ \/ ~ProperlySetUp(space[t]) /\ UNCHANGED <<stage, loadat, dtlb>>
         \/ died' = why /\ UNCHANGED <<stage, loadat, dtlb>>
         \/ dtlb' = dtlb \cup {<<v, FrameOf(space[t], v)>>} /\ UNCHANGED <<stage, loadat, died>>
  BY DEF vm_fault, dies, progVars
<1> QED
  BY <1>1, FaultAsserts, FaultKills, FaultFills DEF QuietFault

LEMMA ArgsPageFact == ArgsPage \in UserPages
<1> DEFINE c == DUMBVM_STACKPAGES - 1
           y == c * PGSIZE
<1>1. c \in Nat /\ DUMBVM_STACKPAGES = c + 1 /\ PGSIZE \in Nat /\ USERSTACK \in Nat /\ PGSIZE >= 1
  BY DumbvmAssumption, DumbConstants
<1> HIDE DEF c
<1>2. DUMBVM_STACKPAGES * PGSIZE = y + PGSIZE /\ y \in Nat
  BY <1>1
<1> HIDE DEF y
<1>3. PGSIZE <= USERSTACK
  BY <1>1, <1>2, DumbConstants
<1>4. Mult(PGSIZE)
  <2>1. 1 * PGSIZE = PGSIZE /\ Mult(1 * PGSIZE)
    BY <1>1, MultTimes
  <2> QED
    BY <2>1
<1>5. Mult(USERSTACK - PGSIZE)
  BY <1>3, <1>4, DumbConstants, MultSums
<1> QED
  BY <1>1, <1>3, <1>5 DEF ArgsPage, UserPages, Mult

\* A store through the TLB, after which the thread is at stage s.
LEMMA StoreStep ==
  ASSUME DumbCore, NEW t \in DumbThread, dcur = t, stage[t] \in {"load", "run"}, died = "no",
         NEW v, Store(t, v), NEW s \in {"load", "run"}, NEW n \in Nat \ {0},
         SetFor(stage, stage', t, s), SetFor(loadat, loadat', t, n)
  PROVE  DumbCore'
<1> DEFINE as == space[t]
           p == prog[t]
           w == [wrote[t] EXCEPT ![v] = t]
           f == FrameOf(as, v)
<1>1. PICK e \in dtlb : e[1] = v /\ ram' = [ram EXCEPT ![e[2]] = t]
  BY DEF Store
<1>2. wrote' = [wrote EXCEPT ![t][v] = t] /\ UNCHANGED <<firstpaddr, space, prog, dcur, dtlb, kpages, died>>
  BY DEF Store
<1>3. HasSpace(dcur) /\ stage[t] \in {"zero", "load", "run"}
  BY DEF HasSpace
<1>4. v \in UserPages /\ ram' = [ram EXCEPT ![f] = t]
  <2>1. e[1] \in UserPages /\ e[2] = FrameOf(space[dcur], e[1])
    BY <1>1, <1>3 DEF DumbCore, TlbOK
  <2> QED
    BY <1>1, <2>1
<1>5. /\ firstpaddr \in Nat /\ firstpaddr <= RamSize /\ FirstOK(firstpaddr)
      /\ AreasApart(space, stage, kpages, firstpaddr) /\ ram \in [Frames -> DumbMarks]
      /\ Contents(space, stage, ram, wrote, kpages)
  BY DEF DumbCore, DumbType, FirstOK
<1>6. /\ SpaceOK(as) /\ p \in Seq(Segments) /\ \A u \in DumbThread : SpaceOK(space[u])
      /\ RegionsOf(as, stage[t], p, loadat[t]) /\ wrote \in [DumbThread -> [UserPages -> DumbMarks]]
  BY CoreTypes
<1>7. w \in [UserPages -> DumbMarks] /\ w[v] = t /\ \A x \in UserPages : x # v => w[x] = wrote[t][x]
  BY <1>4, <1>6 DEF DumbMarks
<1>8. /\ SetFor(space, space', t, as) /\ SetFor(prog, prog', t, p)
  BY <1>2, CoreTypes, SetForExcept
<1>9. SetFor(wrote, wrote', t, w)
  <2>1. wrote' = [wrote EXCEPT ![t] = w]
    BY <1>2, <1>6
  <2> HIDE DEF w
  <2> QED
    BY <1>6, <2>1, SetForExcept
<1> HIDE DEF w
<1>10. stage'[t] = s /\ \A u \in DumbThread : u # t => stage'[u] = stage[u]
  BY DEF SetFor
<1>11. AreasApart(space, stage', kpages, firstpaddr)
  <2>1. GotAt[s] = 3 /\ GotAt[stage[t]] = 3
    BY GotFacts
  <2>2. FewerAreas(space, stage, space, stage')
    BY <1>10, <2>1 DEF FewerAreas
  <2> QED
    BY <1>5, <2>2, FewerApart
<1>12. /\ ram' \in [Frames -> DumbMarks] /\ \A g \in Frames : g # f => ram'[g] = ram[g]
       /\ f \in Frames => ram'[f] = t
  BY <1>4, <1>5 DEF DumbMarks
<1>13. f # NoFrame => f \in Frames /\ f \notin kpages
  BY <1>3, <1>4, FrameFacts
<1>14. NoFrame \notin Frames
  BY DumbConstants DEF NoFrame, Frames
<1>15. ASSUME NEW g \in kpages PROVE ram'[g] = KERNEL
  <2>1. g \in Frames /\ ram[g] = KERNEL
    BY <1>5 DEF AreasApart, Contents
  <2>2. g # f
    BY <1>13, <1>14, <2>1
  <2> QED
    BY <1>12, <2>1, <2>2
<1>16. \A u \in DumbThread : wrote'[u] = IF u = t THEN w ELSE wrote[u]
  BY <1>9 DEF SetFor
<1>17. ASSUME NEW u \in DumbThread, stage'[u] \in {"load", "run"}, NEW x \in UserPages, FrameOf(space[u], x) # NoFrame
       PROVE  ram'[FrameOf(space[u], x)] = wrote'[u][x]
  <2> DEFINE g == FrameOf(space[u], x)
  <2>1. stage[u] \in {"load", "run"} /\ stage[u] \in {"zero", "load", "run"}
    BY <1>10, <1>17
  <2>2. g \in Frames
    BY <1>17, <2>1, FrameFacts
  <2>3. ram[g] = wrote[u][x]
    BY <1>5, <1>17, <2>1 DEF Contents
  <2>4. CASE u = t /\ x = v
    BY <1>7, <1>12, <1>16, <2>2, <2>4
  <2>5. CASE ~(u = t /\ x = v)
    <3>1. g # f
      <4> SUFFICES ASSUME g = f PROVE FALSE
        OBVIOUS
      <4>1. f # NoFrame
        BY <1>17
      <4>2. t = u /\ v = x
        BY <1>3, <1>4, <1>5, <1>6, <2>1, <4>1, FramesApart
      <4> QED
        BY <2>5, <4>2
    <3>2. wrote'[u][x] = wrote[u][x]
      BY <1>7, <1>16, <2>5
    <3> HIDE DEF g, f
    <3>3. ram'[g] = wrote'[u][x]
      BY <1>12, <2>2, <2>3, <3>1, <3>2
    <3> QED
      BY <3>3 DEF g
  <2> QED
    BY <2>4, <2>5
<1>18. ASSUME NEW u \in DumbThread, stage'[u] \in EarlyStages PROVE wrote'[u] = ZeroPages
  <2>1. u # t
    BY <1>10, <1>18 DEF EarlyStages
  <2>2. stage[u] \in EarlyStages
    BY <1>10, <1>18, <2>1
  <2> QED
    BY <1>16, <2>1, <2>2, CoreTypes DEF ContentsOf
<1>19. Contents(space, stage', ram', wrote', kpages)
  BY <1>15, <1>17, <1>18 DEF Contents, EarlyStages, ZeroPages
<1>20. RegionsOf(as, s, p, n)
  BY <1>6 DEF RegionsOf
<1>21. TlbOK' /\ died' # "assertion"
  <2>1. \A x \in dtlb : x[1] \in UserPages /\ x[2] = FrameOf(space[dcur], x[1])
    BY <1>3 DEF DumbCore, TlbOK
  <2>2. \A x \in dtlb' : x[1] \in UserPages /\ x[2] = FrameOf(space'[dcur'], x[1])
    BY <1>2, <2>1
  <2>3. stage'[dcur'] \in {"load", "run"}
    BY <1>2, <1>10
  <2> QED
    BY <1>2, <2>2, <2>3 DEF TlbOK
<1>22. /\ FirstOK(firstpaddr') /\ dcur' = dcur /\ s \in DumbStages
       /\ AreasApart(space', stage', kpages', firstpaddr') /\ Contents(space', stage', ram', wrote', kpages')
  BY <1>2, <1>5, <1>11, <1>19 DEF DumbStages
<1> HIDE DEF as, p
<1> QED
  BY <1>6, <1>7, <1>8, <1>9, <1>12, <1>20, <1>21, <1>22, ThreadGoesOn

-----------------------------------------------------------------------------
(* as_copy *)

\* The same regions in other places.
Copies(old, new) ==
  /\ SpaceOK(old) /\ SpaceOK(new)
  /\ \A k \in 1 .. 3 : AreaSize(new, k) = AreaSize(old, k) /\ AreaAt(new, k) = AreaAt(old, k)

\* The first of the areas with f is its k-th.
FirstArea(as, k, f) == InArea(as, k, f) /\ \A j \in 1 .. 3 : j < k => ~InArea(as, j, f)

LEMMA OriginalIs ==
  ASSUME NEW old, NEW new, NEW k \in 1 .. 3, NEW f, FirstArea(new, k, f)
  PROVE  Original(old, new, f) = f - AreaBase(new, k) + AreaBase(old, k)
<1> DEFINE in1 == InArea(new, 1, f)
           in2 == InArea(new, 2, f)
           o == Original(old, new, f)
           f1 == f - AreaBase(new, 1) + AreaBase(old, 1)
           f2 == f - AreaBase(new, 2) + AreaBase(old, 2)
           f3 == f - AreaBase(new, 3) + AreaBase(old, 3)
<1>1. o = IF in1 THEN f1 ELSE IF in2 THEN f2 ELSE f3
  BY AreaIs DEF Original, InArea
<1>2. 1 \in 1 .. 3 /\ 2 \in 1 .. 3 /\ 1 < 2 /\ 1 < 3 /\ 2 < 3
  OBVIOUS
<1>3. k = 1 \/ k = 2 \/ k = 3
  OBVIOUS
<1>4. (k = 1 => in1) /\ (k = 2 => ~in1 /\ in2) /\ (k = 3 => ~in1 /\ ~in2)
  BY <1>2, Zenon DEF FirstArea
<1>5. (k = 1 => f1 = f - AreaBase(new, k) + AreaBase(old, k)) /\ (k = 2 => f2 = f - AreaBase(new, k) + AreaBase(old, k))
      /\ (k = 3 => f3 = f - AreaBase(new, k) + AreaBase(old, k))
  BY Zenon
<1> HIDE DEF in1, in2, o, f1, f2, f3
<1>6. (k = 1 => o = f1) /\ (k = 2 => o = f2) /\ (k = 3 => o = f3)
  <2>1. in1 => o = f1
    BY <1>1
  <2>2. ~in1 /\ in2 => o = f2
    BY <1>1
  <2>3. ~in1 /\ ~in2 => o = f3
    BY <1>1
  <2> QED
    BY <1>4, <2>1, <2>2, <2>3, Zenon
<1>7. o = f - AreaBase(new, k) + AreaBase(old, k)
  BY <1>3, <1>5, <1>6, Zenon
<1> QED
  BY <1>7 DEF o

\* The copy of a page is the page of the original.
LEMMA OriginalOfFrame ==
  ASSUME NEW old, NEW new, Copies(old, new), NEW v \in UserPages, FrameOf(new, v) # NoFrame,
         \A f \in Nat : \A k, l \in 1 .. 3 : InArea(new, k, f) /\ InArea(new, l, f) => k = l
  PROVE  /\ Original(old, new, FrameOf(new, v)) = FrameOf(old, v) /\ FrameOf(old, v) # NoFrame
         /\ InAreas(new, FrameOf(new, v))
<1> DEFINE f == FrameOf(new, v)
<1>1. SpaceOK(old) /\ SpaceOK(new)
  BY DEF Copies
<1>2. PICK k \in 1 .. 3 : FirstIn(new, k, v)
  BY <1>1, FrameOfFacts
<1> DEFINE a == AreaAt(old, k)
           b == AreaBase(new, k)
           c == AreaBase(old, k)
           z == AreaSize(new, k)
<1>3. AreaAt(new, k) = a /\ a \in Nat /\ b \in Nat /\ c \in Nat /\ z \in Nat
  BY <1>1, AreaTypes DEF Copies
<1>4. FirstIn(old, k, v)
  <2>1. ASSUME NEW j \in 1 .. 3 PROVE InRegion(old, j, v) <=> InRegion(new, j, v)
    BY DEF Copies, InRegion
  <2> QED
    BY <1>2, <2>1 DEF FirstIn
<1>5. f = v - a + b /\ FrameOf(old, v) = v - a + c
  BY <1>1, <1>2, <1>3, <1>4, FrameOfFacts
<1>6. a <= v /\ v < a + z /\ v \in Nat
  <2>1. InRegion(new, k, v)
    BY <1>2 DEF FirstIn
  <2> QED
    BY <1>1, <1>3, <2>1, InRegionFacts, UserPageFacts
<1> HIDE DEF f, a, b, c, z
<1>7. f \in Nat /\ b <= f /\ f < b + z /\ v - a + c \in Nat /\ f - b + c = v - a + c
  BY <1>3, <1>5, <1>6
<1>8. InArea(new, k, f)
  BY <1>7 DEF InArea, b, z
<1>9. FirstArea(new, k, f)
  <2> SUFFICES ASSUME NEW j \in 1 .. 3, j < k PROVE ~InArea(new, j, f)
    BY <1>8 DEF FirstArea
  <2>1. j # k
    OBVIOUS
  <2> QED
    BY <1>7, <1>8, <2>1
<1>10. Original(old, new, f) = f - b + c
  BY <1>9, OriginalIs DEF b, c
<1>11. FrameOf(old, v) # NoFrame
  BY <1>5, <1>7 DEF NoFrame
<1>12. InAreas(new, f)
  BY <1>8, InAreasIs
<1>13. Original(old, new, f) = FrameOf(old, v)
  BY <1>5, <1>7, <1>10
<1> QED
  BY <1>11, <1>12, <1>13 DEF f

\* What is copied is memory.
LEMMA OriginalIsFrame ==
  ASSUME NEW old, NEW new, Copies(old, new), NEW f \in Frames, InAreas(new, f),
         \A k \in 1 .. 3 : /\ Mult(AreaBase(old, k)) /\ Mult(AreaBase(new, k))
                           /\ AreaBase(old, k) + AreaSize(old, k) <= RamSize
  PROVE  Original(old, new, f) \in Frames
<1>1. f \in Nat /\ Mult(f) /\ RamSize \in Nat
  BY DumbConstants DEF Frames, Mult
<1>2. PICK k \in 1 .. 3 : FirstArea(new, k, f)
  <2>1. \E k \in 1 .. 3 : InArea(new, k, f)
    BY InAreasIs
  <2> DEFINE S == {k \in 1 .. 3 : InArea(new, k, f)}
  <2>2. PICK n \in S : TRUE
    BY <2>1
  <2>3. S \in SUBSET Nat
    OBVIOUS
  <2>4. Min(S) \in S /\ \A m \in S : Min(S) <= m
    <3> HIDE DEF S
    <3> QED
      BY <2>2, <2>3, MinOfNats
  <2> DEFINE k == Min(S)
  <2>5. k \in 1 .. 3 /\ InArea(new, k, f)
    BY <2>4
  <2>6. \A m \in 1 .. 3 : InArea(new, m, f) => k <= m
    BY <2>4
  <2> HIDE DEF k
  <2>7. \A j \in 1 .. 3 : j < k => ~InArea(new, j, f)
    BY <2>5, <2>6
  <2> QED
    BY <2>5, <2>7 DEF FirstArea
<1> DEFINE b == AreaBase(new, k)
           c == AreaBase(old, k)
           z == AreaSize(old, k)
<1>3. Original(old, new, f) = f - b + c
  BY <1>2, OriginalIs
<1>4. b \in Nat /\ c \in Nat /\ z \in Nat /\ Mult(b) /\ Mult(c) /\ c + z <= RamSize /\ AreaSize(new, k) = z
  BY AreaTypes DEF Copies
<1>5. b <= f /\ f < b + z
  BY <1>2, <1>4 DEF FirstArea, InArea
<1> HIDE DEF b, c, z
<1>6. f - b \in Nat /\ f - b + c \in Nat /\ f - b + c < RamSize
  BY <1>1, <1>4, <1>5
<1>7. Mult(f - b)
  BY <1>1, <1>4, <1>5, MultSums
<1>8. Mult((f - b) + c)
  BY <1>4, <1>7, MultSums
<1> QED
  BY <1>1, <1>3, <1>6, <1>8 DEF Frames, Mult

\* Memory that nobody has may be lost.
LEMMA AreasBelow ==
  ASSUME NEW sp, NEW st, NEW kp, NEW first \in Nat, AreasApart(sp, st, kp, first),
         \A u \in DumbThread : SpaceOK(sp[u]), NEW top \in Nat, first <= top
  PROVE  AreasApart(sp, st, kp, top)
<1>1. ASSUME NEW u \in DumbThread, NEW k \in 1 .. 3, k <= GotAt[st[u]]
      PROVE  /\ Mult(AreaBase(sp[u], k)) /\ FirstFree <= AreaBase(sp[u], k)
             /\ AreaBase(sp[u], k) + AreaSize(sp[u], k) <= top
  <2>1. AreaBase(sp[u], k) \in Nat /\ AreaSize(sp[u], k) \in Nat
    BY AreaTypes
  <2>2. /\ Mult(AreaBase(sp[u], k)) /\ FirstFree <= AreaBase(sp[u], k)
        /\ AreaBase(sp[u], k) + AreaSize(sp[u], k) <= first
    BY <1>1 DEF AreasApart
  <2> QED
    BY <2>1, <2>2
<1>2. \A f \in kp : f \in Frames /\ f < top
  <2> SUFFICES ASSUME NEW f \in kp PROVE f \in Frames /\ f < top
    OBVIOUS
  <2>1. f \in Frames /\ f < first /\ f \in Nat
    BY DumbConstants DEF AreasApart, Frames
  <2> QED
    BY <2>1
<1>3. /\ \A t, u \in DumbThread : \A k, l \in 1 .. 3 : \A f \in Nat :
           Owns(sp[t], st[t], k, f) /\ Owns(sp[u], st[u], l, f) => t = u /\ k = l
      /\ \A t \in DumbThread : \A k \in 1 .. 3 : \A f \in kp : ~Owns(sp[t], st[t], k, f)
  BY DEF AreasApart
<1> QED
  BY <1>1, <1>2, <1>3 DEF AreasApart

\* Three calls of ram_stealmem for areas as long as those of a program that runs.
LEMMA StealOK ==
  ASSUME NEW first, FirstOK(first), NEW n \in Nat, n * PGSIZE <= RamSize
  PROVE  LET r == ram_stealmem(first, n)
         IN  /\ FirstOK(r.first) /\ first <= r.first
             /\ r.paddr # 0 => r.paddr = first /\ r.first = first + n * PGSIZE
<1> DEFINE z == n * PGSIZE
           r == ram_stealmem(first, n)
<1>1. first \in Nat /\ Mult(first) /\ FirstFree <= first /\ first <= RamSize
  BY DEF FirstOK
<1>2. z \in Nat
  BY MultTimes DEF Mult
<1>3. z <= RamSize /\ RamSize \in Nat /\ ADDRESSES \in Nat /\ RamSize + RamSize < ADDRESSES /\ FirstFree \in Nat
  BY DumbConstants
<1> HIDE DEF z
<1>4. first + z < ADDRESSES /\ z < ADDRESSES
  BY <1>1, <1>2, <1>3
<1>5. r.over = FALSE
  <2>1. first + n * PGSIZE < ADDRESSES
    BY <1>4 DEF z
  <2> QED
    BY <1>1, <2>1, NoOverrun
<1>6. Steals(r, first, n)
  BY <1>5 DEF Steals
<1> HIDE DEF r
<1>7. n * PGSIZE < ADDRESSES
  BY <1>4 DEF z
<1>8. /\ r.paddr # 0 => r.paddr = first /\ r.first = first + n * PGSIZE
      /\ r.first \in Nat /\ Mult(r.first) /\ first <= r.first /\ r.first <= RamSize
  BY <1>1, <1>6, <1>7, StealFacts
<1>9. FirstOK(r.first)
  <2> DEFINE x == r.first
  <2>1. x \in Nat /\ Mult(x) /\ first <= x /\ x <= RamSize
    BY <1>8
  <2> HIDE DEF x
  <2>2. FirstOK(x)
    BY <1>1, <1>3, <2>1 DEF FirstOK
  <2> QED
    BY <2>2 DEF x
<1> QED
  BY <1>8, <1>9 DEF r

\* A thread that has nothing gets three areas in a row.
LEMMA ThreeAreas ==
  ASSUME NEW sp, NEW st, NEW kp, NEW first \in Nat, AreasApart(sp, st, kp, first), Mult(first), FirstFree <= first,
         st \in [DumbThread -> DumbStages], NEW c \in DumbThread, GotAt[st[c]] = 0,
         \A u \in DumbThread : SpaceOK(sp[u]),
         NEW z1, NEW z2, NEW z3, z1 = AreaSize(sp[c], 1), z2 = AreaSize(sp[c], 2), z3 = AreaSize(sp[c], 3),
         AreaBase(sp[c], 1) = first, AreaBase(sp[c], 2) = first + z1, AreaBase(sp[c], 3) = first + z1 + z2
  PROVE  AreasApart(sp, [st EXCEPT ![c] = "run"], kp, first + z1 + z2 + z3)
<1> DEFINE s1 == [st EXCEPT ![c] = "pbase2"]
           s2 == [st EXCEPT ![c] = "stackpbase"]
           s3 == [st EXCEPT ![c] = "run"]
           f1 == first + z1
           f2 == first + z1 + z2
<1>1. SpaceOK(sp[c])
  OBVIOUS
<1>2. z1 \in Nat /\ z2 \in Nat /\ z3 \in Nat /\ Mult(z1) /\ Mult(z2)
  BY <1>1, AreaTypes
<1>3. f1 \in Nat /\ Mult(f1) /\ FirstFree <= f1 /\ f2 \in Nat /\ Mult(f2) /\ FirstFree <= f2 /\ f2 = f1 + z2
  <2>1. f1 \in Nat /\ FirstFree <= f1 /\ f2 \in Nat /\ FirstFree <= f2 /\ f2 = f1 + z2
    BY <1>2, DumbConstants
  <2>2. Mult(f1)
    BY <1>2, MultSums
  <2>3. Mult(f1 + z2)
    BY <1>2, <2>2, MultSums
  <2> QED
    BY <2>1, <2>2, <2>3
<1>4. GotAt[s1[c]] = 1 /\ GotAt[s2[c]] = 2 /\ GotAt[s3[c]] = 3
  BY GotFacts
<1>5. \A u \in DumbThread : u # c => s1[u] = st[u] /\ s2[u] = s1[u] /\ s3[u] = s2[u]
  OBVIOUS
<1> HIDE DEF s1, s2, s3, f1, f2
<1>6. AreasApart(sp, s1, kp, first + AreaSize(sp[c], 1))
  <2> DEFINE n == 1
  <2>1. n = GotAt[st[c]] + 1 /\ n \in 1 .. 3 /\ GotAt[st[c]] \in Nat /\ AreaBase(sp[c], n) = first /\ GotAt[s1[c]] = n
    BY <1>4
  <2>2. \A u \in DumbThread : u # c => s1[u] = st[u]
    BY <1>5
  <2> HIDE DEF n
  <2>3. AreasApart(sp, s1, kp, first + AreaSize(sp[c], n))
    BY <1>1, <2>1, <2>2, AreaGrows
  <2> QED
    BY <2>3 DEF n
<1>7. AreasApart(sp, s1, kp, f1)
  BY <1>6 DEF f1
<1>8. AreasApart(sp, s2, kp, f1 + AreaSize(sp[c], 2))
  <2> DEFINE n == 2
  <2>1. n = GotAt[s1[c]] + 1 /\ n \in 1 .. 3 /\ GotAt[s1[c]] \in Nat /\ AreaBase(sp[c], n) = f1 /\ GotAt[s2[c]] = n
    BY <1>4 DEF f1
  <2>2. \A u \in DumbThread : u # c => s2[u] = s1[u]
    BY <1>5
  <2> HIDE DEF n
  <2>3. AreasApart(sp, s2, kp, f1 + AreaSize(sp[c], n))
    BY <1>1, <1>3, <1>7, <2>1, <2>2, AreaGrows
  <2> QED
    BY <2>3 DEF n
<1>9. AreasApart(sp, s2, kp, f2)
  BY <1>3, <1>8
<1>10. AreasApart(sp, s3, kp, f2 + AreaSize(sp[c], 3))
  <2> DEFINE n == 3
  <2>1. n = GotAt[s2[c]] + 1 /\ n \in 1 .. 3 /\ GotAt[s2[c]] \in Nat /\ AreaBase(sp[c], n) = f2 /\ GotAt[s3[c]] = n
    BY <1>4 DEF f2
  <2>2. \A u \in DumbThread : u # c => s3[u] = s2[u]
    BY <1>5
  <2> HIDE DEF n
  <2>3. AreasApart(sp, s3, kp, f2 + AreaSize(sp[c], n))
    BY <1>1, <1>3, <1>9, <2>1, <2>2, AreaGrows
  <2> QED
    BY <2>3 DEF n
<1> QED
  BY <1>10 DEF s3, f2

Moved(old, a, b, c) == [old EXCEPT !.pbase1 = a, !.pbase2 = b, !.stackpbase = c]

LEMMA CopiedFields ==
  ASSUME NEW old, SpaceOK(old), NEW a \in Nat, NEW b \in Nat, NEW c \in Nat, NEW new,
         new = Moved(old, a, b, c)
  PROVE  /\ Copies(old, new) /\ AreaBase(new, 1) = a /\ AreaBase(new, 2) = b /\ AreaBase(new, 3) = c
         /\ \A i : SetUp(new, i) <=> SetUp(old, i)
<1>1. old \in SpaceRec /\ Mult(old.vbase1) /\ Mult(old.vbase2) /\ AreaSize(old, 1) < ADDRESSES /\ AreaSize(old, 2) < ADDRESSES
  BY DEF SpaceOK
<1>2. /\ new \in SpaceRec /\ new.vbase1 = old.vbase1 /\ new.vbase2 = old.vbase2
      /\ new.npages1 = old.npages1 /\ new.npages2 = old.npages2
      /\ new.pbase1 = a /\ new.pbase2 = b /\ new.stackpbase = c
  BY <1>1 DEF SpaceRec, Moved
<1>3. /\ AreaBase(new, 1) = a /\ AreaBase(new, 2) = b /\ AreaBase(new, 3) = c
      /\ AreaSize(new, 1) = AreaSize(old, 1) /\ AreaSize(new, 2) = AreaSize(old, 2) /\ AreaSize(new, 3) = AreaSize(old, 3)
      /\ AreaAt(new, 1) = AreaAt(old, 1) /\ AreaAt(new, 2) = AreaAt(old, 2) /\ AreaAt(new, 3) = AreaAt(old, 3)
  BY ONLY <1>2, AreaIs
<1>4. SpaceOK(new)
  <2>1. AreaSize(new, 1) < ADDRESSES /\ AreaSize(new, 2) < ADDRESSES /\ Mult(new.vbase1) /\ Mult(new.vbase2)
    BY ONLY <1>1, <1>2, <1>3
  <2> QED
    BY <1>2, <2>1 DEF SpaceOK
<1>5. ASSUME NEW k \in 1 .. 3 PROVE AreaSize(new, k) = AreaSize(old, k) /\ AreaAt(new, k) = AreaAt(old, k)
  <2>1. k = 1 \/ k = 2 \/ k = 3
    OBVIOUS
  <2> QED
    BY ONLY <1>3, <2>1
<1>6. \A i : SetUp(new, i) <=> SetUp(old, i)
  BY <1>2 DEF SetUp
<1> QED
  BY <1>3, <1>4, <1>5, <1>6 DEF Copies

LEMMA CopyStep ==
  ASSUME DumbCore, NEW t \in DumbThread, NEW child \in DumbThread, as_copy(t, child)
  PROVE  DumbCore'
<1> DEFINE old == space[t]
           first == firstpaddr
           one == ram_stealmem(first, old.npages1)
           two == ram_stealmem(one.first, old.npages2)
           three == ram_stealmem(two.first, DUMBVM_STACKPAGES)
           z1 == AreaSize(old, 1)
           z2 == AreaSize(old, 2)
           z3 == AreaSize(old, 3)
           new == [old EXCEPT !.pbase1 = one.paddr, !.pbase2 = two.paddr, !.stackpbase = three.paddr]
<1>1. /\ died = "no" /\ dcur = t /\ stage[t] = "run" /\ stage[child] = "new" /\ UNCHANGED <<loadat, dcur, dtlb, kpages, died>>
      /\ firstpaddr' = (IF one.paddr = 0 THEN firstpaddr ELSE IF two.paddr = 0 THEN one.first ELSE three.first)
  BY DEF as_copy, Runs
<1>2. /\ first \in Nat /\ Mult(first) /\ FirstFree <= first /\ first <= RamSize /\ FirstOK(first)
      /\ AreasApart(space, stage, kpages, first) /\ ram \in [Frames -> DumbMarks]
      /\ Contents(space, stage, ram, wrote, kpages)
  BY DEF DumbCore, DumbType, FirstOK
<1>3. /\ SpaceOK(old) /\ prog[t] \in Seq(Segments) /\ RegionsOf(old, "run", prog[t], loadat[t])
      /\ wrote[t] \in [UserPages -> DumbMarks] /\ \A u \in DumbThread : SpaceOK(space[u])
      /\ loadat[child] \in Nat \ {0} /\ stage \in [DumbThread -> DumbStages]
  BY <1>1, CoreTypes
<1>4. GotAt["run"] = 3 /\ GotAt["new"] = 0 /\ child # t
  BY <1>1, GotFacts
<1>5. ASSUME NEW k \in 1 .. 3
      PROVE  /\ Mult(AreaBase(old, k)) /\ AreaBase(old, k) + AreaSize(old, k) <= RamSize
             /\ AreaSize(old, k) <= RamSize
  <2> DEFINE b == AreaBase(old, k)
             z == AreaSize(old, k)
  <2>1. Mult(b) /\ b + z <= first
    BY <1>1, <1>2, <1>4 DEF AreasApart
  <2>2. b \in Nat /\ z \in Nat /\ RamSize \in Nat
    BY <1>3, AreaTypes, DumbConstants
  <2> HIDE DEF b, z
  <2>3. b + z <= RamSize /\ z <= RamSize
    BY <1>2, <2>1, <2>2
  <2> QED
    BY <2>1, <2>3 DEF b, z
<1>6. /\ old.npages1 \in Nat /\ old.npages2 \in Nat /\ DUMBVM_STACKPAGES \in Nat
      /\ old.npages1 * PGSIZE = z1 /\ old.npages2 * PGSIZE = z2 /\ DUMBVM_STACKPAGES * PGSIZE = z3
      /\ z1 <= RamSize /\ z2 <= RamSize /\ z3 <= RamSize
  <2>1. old.npages1 \in Nat /\ old.npages2 \in Nat /\ DUMBVM_STACKPAGES \in Nat
    BY <1>3, DumbConstants DEF SpaceOK, SpaceRec
  <2>2. old.npages1 * PGSIZE = z1 /\ old.npages2 * PGSIZE = z2 /\ DUMBVM_STACKPAGES * PGSIZE = z3
    BY AreaIs
  <2>3. z1 <= RamSize /\ z2 <= RamSize /\ z3 <= RamSize
    BY <1>5
  <2> QED
    BY <2>1, <2>2, <2>3
<1>7. /\ FirstOK(one.first) /\ first <= one.first
      /\ one.paddr # 0 => one.paddr = first /\ one.first = first + z1
  BY <1>2, <1>6, StealOK
<1>8. /\ FirstOK(two.first) /\ one.first <= two.first
      /\ two.paddr # 0 => two.paddr = one.first /\ two.first = one.first + z2
  <2> HIDE DEF one, old
  <2> QED
    BY <1>6, <1>7, StealOK DEF z2
<1>9. /\ FirstOK(three.first) /\ two.first <= three.first
      /\ three.paddr # 0 => three.paddr = two.first /\ three.first = two.first + z3
  <2> HIDE DEF two, old
  <2> QED
    BY <1>6, <1>8, StealOK DEF z3
<1>10. UNCHANGED <<dtlb, dcur, died>> /\ died' # "assertion" /\ HasSpace(dcur) /\ stage[dcur] = "run"
  BY <1>1 DEF HasSpace
<1>11. ASSUME stage'[t] = stage[t], space'[t] = space[t] PROVE TlbOK'
  <2>1. \A e \in dtlb : e[1] \in UserPages /\ e[2] = FrameOf(space[dcur], e[1])
    BY <1>10 DEF DumbCore, TlbOK
  <2>2. \A e \in dtlb' : e[1] \in UserPages /\ e[2] = FrameOf(space'[dcur'], e[1])
    BY <1>1, <1>11, <2>1
  <2>3. stage'[dcur'] = "run"
    BY <1>1, <1>11
  <2> QED
    BY <2>2, <2>3 DEF TlbOK
<1>12. CASE 0 \in {one.paddr, two.paddr, three.paddr}
  <2>1. UNCHANGED <<ram, space, stage, prog, wrote, loadat, dcur, kpages>>
    BY <1>1, <1>12 DEF as_copy, progVars
  <2> HIDE DEF one, two, three
  <2>2. FirstOK(firstpaddr') /\ first <= firstpaddr'
    <3> DEFINE x1 == one.first
               x2 == two.first
               x3 == three.first
    <3>1. x1 \in Nat /\ x2 \in Nat /\ x3 \in Nat
      BY <1>7, <1>8, <1>9 DEF FirstOK
    <3>2. first <= x1 /\ x1 <= x2 /\ x2 <= x3
      BY <1>7, <1>8, <1>9
    <3>3. firstpaddr' = first \/ firstpaddr' = x1 \/ firstpaddr' = x3
      BY <1>1
    <3>4. FirstOK(x1) /\ FirstOK(x3)
      BY <1>7, <1>9
    <3> HIDE DEF x1, x2, x3
    <3>5. first <= x1 /\ first <= x3 /\ first <= first
      BY <1>2, <3>1, <3>2
    <3> QED
      BY <1>2, <3>3, <3>4, <3>5
  <2>3. AreasApart(space, stage, kpages, firstpaddr')
    <3>1. firstpaddr' \in Nat
      BY <2>2 DEF FirstOK
    <3> QED
      BY <1>2, <1>3, <2>2, <3>1, AreasBelow
  <2>4. TlbOK'
    BY <1>11, <2>1
  <2>5. DumbType'
    <3>1. (firstpaddr \in Nat /\ Mult(firstpaddr) /\ FirstFree <= firstpaddr /\ firstpaddr <= RamSize)'
      BY <2>2 DEF FirstOK, Mult
    <3> QED
      BY <2>1, <3>1 DEF DumbCore, DumbType
  <2>6. AreasApart(space, stage, kpages, firstpaddr)' /\ Contents(space, stage, ram, wrote, kpages)'
        /\ RegionsSet(space, stage, prog, loadat)'
    BY <2>1, <2>3 DEF DumbCore
  <2> QED
    BY <1>10, <2>4, <2>5, <2>6 DEF DumbCore
<1>13. CASE 0 \notin {one.paddr, two.paddr, three.paddr}
  <2>1. /\ ram' = [f \in Frames |-> IF InAreas(new, f) THEN ram[Original(old, new, f)] ELSE ram[f]]
        /\ space' = [space EXCEPT ![child] = new] /\ stage' = [stage EXCEPT ![child] = "run"]
        /\ prog' = [prog EXCEPT ![child] = prog[t]] /\ wrote' = [wrote EXCEPT ![child] = wrote[t]]
    BY <1>13 DEF as_copy, dumbGoto
  <2> DEFINE a == one.paddr
             b == two.paddr
             c == three.paddr
  <2>2. /\ a = first /\ b = first + z1 /\ c = first + z1 + z2 /\ firstpaddr' = first + z1 + z2 + z3
        /\ FirstOK(firstpaddr')
    <3>1. a # 0 /\ b # 0 /\ c # 0
      BY <1>13
    <3>2. a = first /\ one.first = first + z1
      BY <1>7, <3>1
    <3> HIDE DEF one
    <3>3. b = one.first /\ two.first = one.first + z2
      BY <1>8, <3>1
    <3> HIDE DEF two
    <3>4. c = two.first /\ three.first = two.first + z3 /\ FirstOK(three.first)
      BY <1>9, <3>1
    <3> HIDE DEF three
    <3>5. firstpaddr' = three.first
      BY <1>1, <3>1
    <3> HIDE DEF z1, z2, z3, first
    <3> QED
      BY <3>2, <3>3, <3>4, <3>5
  <2>3. z1 \in Nat /\ z2 \in Nat /\ z3 \in Nat /\ Mult(z1) /\ Mult(z2) /\ Mult(z3)
    BY <1>3, AreaTypes
  <2> HIDE DEF one, two, three, z1, z2, z3
  <2>4. a \in Nat /\ b \in Nat /\ c \in Nat /\ first <= a /\ first <= b /\ first <= c
    BY <1>2, <2>2, <2>3
  <2>5. /\ Copies(old, new) /\ AreaBase(new, 1) = a /\ AreaBase(new, 2) = b /\ AreaBase(new, 3) = c
        /\ \A i : SetUp(new, i) <=> SetUp(old, i)
    <3>1. new = Moved(old, a, b, c)
      BY DEF Moved
    <3>2. SpaceOK(old)
      BY <1>3
    <3>3. a \in Nat
      BY <2>4
    <3>4. b \in Nat
      BY <2>4
    <3>5. c \in Nat
      BY <2>4
    <3> HIDE DEF new, a, b, c, old
    <3> QED
      BY ONLY <3>1, <3>2, <3>3, <3>4, <3>5, CopiedFields
  <2> HIDE DEF new, a, b, c
  <2>6. SpaceOK(new) /\ AreaSize(new, 1) = z1 /\ AreaSize(new, 2) = z2 /\ AreaSize(new, 3) = z3
    BY <2>5 DEF Copies, z1, z2, z3
  <2>7. SetFor(space, space', child, new) /\ SetFor(stage, stage', child, "run") /\ SetFor(prog, prog', child, prog[t])
        /\ SetFor(wrote, wrote', child, wrote[t]) /\ SetFor(loadat, loadat', child, loadat[child])
    BY <1>1, <2>1, CoreTypes, SetForExcept
  <2>8. /\ space'[child] = new /\ stage'[child] = "run" /\ wrote'[child] = wrote[t]
        /\ \A u \in DumbThread : u # child => space'[u] = space[u] /\ stage'[u] = stage[u] /\ wrote'[u] = wrote[u]
    BY <2>7 DEF SetFor
  <2>9. \A u \in DumbThread : SpaceOK(space'[u])
    BY <1>3, <2>6, <2>8
  <2>10. AreasApart(space', stage, kpages, first)
    <3>1. FewerAreas(space, stage, space', stage)
      <4> SUFFICES ASSUME NEW u \in DumbThread, NEW k \in 1 .. 3, k <= GotAt[stage[u]] PROVE u # child
        BY <2>8 DEF FewerAreas
      <4> QED
        BY <1>1, <1>4
    <3> QED
      BY <1>2, <3>1, FewerApart
  <2>11. AreasApart(space', stage', kpages, firstpaddr')
    <3> DEFINE sp == space'
               st == stage
               kp == kpages
    <3>1. /\ AreasApart(sp, st, kp, first) /\ st \in [DumbThread -> DumbStages] /\ GotAt[st[child]] = 0
          /\ \A u \in DumbThread : SpaceOK(sp[u])
      BY <1>1, <1>3, <1>4, <2>9, <2>10
    <3>2. /\ z1 = AreaSize(sp[child], 1) /\ z2 = AreaSize(sp[child], 2) /\ z3 = AreaSize(sp[child], 3)
          /\ AreaBase(sp[child], 1) = first /\ AreaBase(sp[child], 2) = first + z1 /\ AreaBase(sp[child], 3) = first + z1 + z2
      BY <2>2, <2>5, <2>6, <2>8
    <3>3. first \in Nat /\ Mult(first) /\ FirstFree <= first
      BY <1>2
    <3> HIDE DEF sp, st, kp, first
    <3>4. AreasApart(sp, [st EXCEPT ![child] = "run"], kp, first + z1 + z2 + z3)
      BY <3>1, <3>2, <3>3, ThreeAreas
    <3> QED
      BY <2>1, <2>2, <3>4 DEF sp, st, kp
  <2>12. \A k \in 1 .. 3 : first <= AreaBase(new, k) /\ AreaBase(new, k) \in Nat /\ Mult(AreaBase(new, k))
    <3>1. Mult(a) /\ Mult(b) /\ Mult(c)
      <4>1. Mult(first) /\ Mult(first + z1)
        BY <1>2, <2>3, MultSums
      <4>2. Mult((first + z1) + z2)
        BY <2>3, <4>1, MultSums
      <4> QED
        BY <2>2, <4>1, <4>2
    <3>2. \A k \in 1 .. 3 : k = 1 \/ k = 2 \/ k = 3
      OBVIOUS
    <3> QED
      BY <2>4, <2>5, <3>1, <3>2
  <2>13. ASSUME NEW f \in Nat, InAreas(new, f) PROVE first <= f
    <3>1. PICK k \in 1 .. 3 : InArea(new, k, f)
      BY <2>13, InAreasIs
    <3> DEFINE x == AreaBase(new, k)
    <3>2. x <= f /\ first <= x /\ x \in Nat
      BY <2>12, <3>1 DEF InArea
    <3> HIDE DEF x
    <3> QED
      BY <1>2, <3>2
  <2>14. \A f \in Nat : \A k, l \in 1 .. 3 : InArea(new, k, f) /\ InArea(new, l, f) => k = l
    <3> SUFFICES ASSUME NEW f \in Nat, NEW k \in 1 .. 3, NEW l \in 1 .. 3, InArea(new, k, f), InArea(new, l, f)
                 PROVE  k = l
      OBVIOUS
    <3>1. Owns(space'[child], stage'[child], k, f) /\ Owns(space'[child], stage'[child], l, f)
      BY <1>4, <2>8 DEF Owns
    <3> QED
      BY <2>11, <3>1 DEF AreasApart
  <2>15. Frames \subseteq Nat
    BY DumbConstants DEF Frames
  <2>16. ASSUME NEW f \in Frames, InAreas(new, f) PROVE Original(old, new, f) \in Frames
    <3>1. \A k \in 1 .. 3 : /\ Mult(AreaBase(old, k)) /\ Mult(AreaBase(new, k))
                            /\ AreaBase(old, k) + AreaSize(old, k) <= RamSize
      BY <1>5, <2>12
    <3> HIDE DEF old
    <3> QED
      BY <2>5, <2>16, <3>1, OriginalIsFrame
  <2>17. ram' \in [Frames -> DumbMarks]
    BY <1>2, <2>1, <2>16
  <2>18. \A f \in Frames : f < first => ram'[f] = ram[f]
    <3> SUFFICES ASSUME NEW f \in Frames, f < first PROVE ram'[f] = ram[f]
      OBVIOUS
    <3>1. f \in Nat /\ ~(first <= f)
      BY <1>2, <2>15
    <3>2. ~InAreas(new, f)
      BY <2>13, <3>1
    <3> QED
      BY <2>1, <3>2
  <2>19. \A f \in kpages : ram'[f] = KERNEL
    <3> SUFFICES ASSUME NEW f \in kpages PROVE ram'[f] = KERNEL
      OBVIOUS
    <3>1. f \in Frames /\ f < first /\ ram[f] = KERNEL
      BY <1>2 DEF AreasApart, Contents
    <3> QED
      BY <2>18, <3>1
  <2>20. ASSUME NEW u \in DumbThread, stage'[u] \in {"load", "run"}, NEW v \in UserPages, FrameOf(space'[u], v) # NoFrame
         PROVE  ram'[FrameOf(space'[u], v)] = wrote'[u][v]
    <3>1. CASE u # child
      <4> DEFINE f == FrameOf(space[u], v)
      <4>1. stage[u] \in {"load", "run"} /\ stage[u] \in {"zero", "load", "run"} /\ f # NoFrame
        BY <2>8, <2>20, <3>1
      <4>2. f \in Frames /\ f < first
        BY <4>1, FrameFacts
      <4>3. ram[f] = wrote[u][v]
        BY <1>2, <4>1 DEF Contents
      <4>4. f = FrameOf(space'[u], v) /\ wrote'[u] = wrote[u]
        BY <2>8, <3>1
      <4> HIDE DEF f
      <4>5. ram'[f] = wrote[u][v]
        BY <2>18, <4>2, <4>3
      <4> QED
        BY <4>4, <4>5
    <3>2. CASE u = child
      <4> DEFINE f == FrameOf(new, v)
                 g == FrameOf(old, v)
      <4>1. f # NoFrame /\ FrameOf(space'[u], v) = f /\ wrote'[u] = wrote[t]
        BY <2>8, <2>20, <3>2
      <4>2. Original(old, new, f) = g /\ g # NoFrame /\ InAreas(new, f)
        <5> HIDE DEF old
        <5> QED
          BY <2>5, <2>14, <4>1, OriginalOfFrame
      <4>3. f \in Frames
        <5> DEFINE sp == space'
                   st == stage'
                   kp == kpages
                   ff == firstpaddr'
        <5>1. ff \in Nat /\ ff <= RamSize /\ AreasApart(sp, st, kp, ff)
          BY <2>2, <2>11 DEF FirstOK
        <5>2. SpaceOK(sp[child]) /\ st[child] \in {"zero", "load", "run"} /\ sp[child] = new
          BY <2>6, <2>8
        <5>3. FrameOf(sp[child], v) # NoFrame
          BY <4>1, <5>2
        <5> HIDE DEF sp, st, kp, ff
        <5>4. FrameOf(sp[child], v) \in Frames
          BY <5>1, <5>2, <5>3, FrameIsOwn
        <5> QED
          BY <5>2, <5>4
      <4>4. ram[g] = wrote[t][v]
        BY <1>1, <1>2, <4>2 DEF Contents
      <4> HIDE DEF f, g
      <4>5. ram'[f] = wrote[t][v]
        BY <2>1, <4>2, <4>3, <4>4
      <4> QED
        BY <4>1, <4>5
    <3> QED
      BY <3>1, <3>2
  <2>21. ASSUME NEW u \in DumbThread, stage'[u] \in EarlyStages PROVE wrote'[u] = ZeroPages
    <3>1. u # child
      BY <2>8, <2>21 DEF EarlyStages
    <3>2. stage[u] \in EarlyStages /\ wrote'[u] = wrote[u]
      BY <2>8, <2>21, <3>1
    <3> QED
      BY <3>2, CoreTypes DEF ContentsOf
  <2>22. Contents(space', stage', ram', wrote', kpages)
    BY <2>19, <2>20, <2>21 DEF Contents, EarlyStages, ZeroPages
  <2>23. RegionsOf(new, "run", prog[t], loadat[child])
    <3>1. Ordinary(prog[t]) => SetUp(old, 3)
      BY <1>3 DEF RegionsOf
    <3> QED
      BY <2>5, <3>1 DEF RegionsOf
  <2>24. TlbOK'
    BY <1>4, <1>11, <2>8
  <2>25. /\ dcur' = dcur /\ "run" \in DumbStages
         /\ AreasApart(space', stage', kpages', firstpaddr') /\ Contents(space', stage', ram', wrote', kpages')
    BY <1>1, <2>11, <2>22 DEF DumbStages
  <2> HIDE DEF old
  <2> QED
    BY <1>3, <1>10, <2>2, <2>6, <2>7, <2>17, <2>23, <2>24, <2>25, ThreadGoesOn
<1> QED
  BY <1>12, <1>13

-----------------------------------------------------------------------------
(* All steps *)

LEMMA DumbStart == dumbInit => DumbInv
<1> SUFFICES ASSUME dumbInit PROVE DumbCore
  BY DEF DumbInv
<1>1. /\ firstpaddr = FirstFree /\ space = [t \in DumbThread |-> as_create] /\ stage = [t \in DumbThread |-> "new"]
      /\ prog = [t \in DumbThread |-> <<>>] /\ loadat = [t \in DumbThread |-> 1] /\ dtlb = {} /\ died = "no"
      /\ dcur = CHOOSE t \in DumbThread : TRUE
      /\ ram = [f \in Frames |-> IF f < FirstFree THEN KERNEL ELSE JUNK]
      /\ kpages = {f \in Frames : f < FirstFree} /\ wrote = [t \in DumbThread |-> ZeroPages]
  BY DEF dumbInit, ZeroPages
<1>2. dcur \in DumbThread
  BY <1>1, DumbConstants
<1>3. SpaceOK(as_create) /\ ZeroPages \in [UserPages -> DumbMarks] /\ as_create \in SpaceRec
  BY CreateFacts DEF SpaceOK
<1>4. /\ firstpaddr \in Nat /\ Mult(firstpaddr) /\ FirstFree <= firstpaddr /\ firstpaddr <= RamSize
  BY <1>1, DumbConstants
<1>5. ram \in [Frames -> DumbMarks]
  BY <1>1 DEF DumbMarks
<1>6. DumbType
  <2>1. "new" \in DumbStages /\ <<>> \in Seq(Segments) /\ 1 \in Nat \ {0}
    BY DEF DumbStages
  <2> QED
    BY <1>1, <1>2, <1>3, <1>4, <1>5, <2>1 DEF DumbType
<1>7. AreasApart(space, stage, kpages, firstpaddr)
  <2>1. \A t \in DumbThread : GotAt[stage[t]] = 0
    BY <1>1, GotFacts
  <2>2. \A t \in DumbThread : \A k \in 1 .. 3 : ~(k <= GotAt[stage[t]])
    BY <2>1
  <2>3. \A f \in kpages : f \in Frames /\ f < firstpaddr
    BY <1>1
  <2> QED
    BY <2>2, <2>3 DEF AreasApart, Owns
<1>8. Contents(space, stage, ram, wrote, kpages)
  BY <1>1 DEF Contents, ZeroPages
<1>9. TlbOK
  BY <1>1 DEF TlbOK
<1>10. RegionsSet(space, stage, prog, loadat)
  BY <1>1 DEF RegionsSet
<1> QED
  BY <1>1, <1>6, <1>7, <1>8, <1>9, <1>10 DEF DumbCore

LEMMA LoadStoreStep ==
  ASSUME DumbCore, NEW t \in DumbThread, LoadStore(t)
  PROVE  DumbCore'
<1> DEFINE v == LoadPages(prog[t])[loadat[t]]
           n == loadat[t] + 1
<1>1. /\ died = "no" /\ dcur = t /\ stage[t] = "load" /\ Store(t, v) /\ stage' = stage
      /\ loadat' = [loadat EXCEPT ![t] = n]
  BY DEF LoadStore, Runs
<1>2. n \in Nat \ {0}
  BY CoreTypes
<1>3. SetFor(stage, stage', t, "load") /\ SetFor(loadat, loadat', t, n)
  <2>1. SetFor(stage, stage, t, stage[t])
    BY CoreTypes, SetForExcept
  <2> QED
    BY <1>1, <2>1, CoreTypes, SetForExcept
<1>4. stage[t] \in {"load", "run"} /\ "load" \in {"load", "run"}
  BY <1>1
<1> HIDE DEF v, n
<1> QED
  BY <1>1, <1>2, <1>3, <1>4, StoreStep

LEMMA ArgsStoreStep ==
  ASSUME DumbCore, NEW t \in DumbThread, ArgsStore(t)
  PROVE  DumbCore'
<1>1. /\ died = "no" /\ dcur = t /\ stage[t] = "load" /\ Store(t, ArgsPage) /\ stage' = [stage EXCEPT ![t] = "run"]
      /\ loadat' = [loadat EXCEPT ![t] = 1]
  BY DEF ArgsStore, Runs, dumbGoto
<1>2. SetFor(stage, stage', t, "run") /\ SetFor(loadat, loadat', t, 1)
  BY <1>1, CoreTypes, SetForExcept
<1>3. stage[t] \in {"load", "run"} /\ "run" \in {"load", "run"} /\ 1 \in Nat \ {0}
  BY <1>1
<1> QED
  BY <1>1, <1>2, <1>3, StoreStep

LEMMA UserStoreStep ==
  ASSUME DumbCore, NEW t \in DumbThread, NEW v, UserStore(t, v)
  PROVE  DumbCore'
<1> DEFINE n == loadat[t]
<1>1. died = "no" /\ dcur = t /\ stage[t] = "run" /\ Store(t, v) /\ stage' = stage /\ loadat' = loadat
  BY DEF UserStore, Runs
<1>2. n \in Nat \ {0}
  BY CoreTypes
<1>3. SetFor(stage, stage', t, "run") /\ SetFor(loadat, loadat', t, n)
  <2>1. SetFor(stage, stage, t, stage[t]) /\ SetFor(loadat, loadat, t, loadat[t])
    BY CoreTypes, SetForExcept
  <2> QED
    BY <1>1, <2>1
<1>4. stage[t] \in {"load", "run"} /\ "run" \in {"load", "run"}
  BY <1>1
<1> HIDE DEF n
<1> QED
  BY <1>1, <1>2, <1>3, <1>4, StoreStep

LEMMA DumbSteps ==
  ASSUME DumbInv, [dumbNext]_dumbVars
  PROVE  DumbInv'
<1>1. CASE died = "overrun"
  <2>1. died' = "overrun"
    <3>1. CASE dumbVars' = dumbVars
      BY <1>1, <3>1 DEF dumbVars
    <3>2. CASE dumbNext
      BY <1>1, <3>2 DEF dumbNext, alloc_kpages, switch_to, NoSpaceFor, runs_program, DefineSegment, getppages,
                        as_zero_region, LoadFault, LoadStore, ArgsFault, ArgsStore, UserFault, UserStore, as_copy,
                        thread_exits, Runs
    <3> QED
      BY <3>1, <3>2
  <2> QED
    BY <2>1 DEF DumbInv
<1>2. CASE DumbCore
  <2>1. CASE dumbVars' = dumbVars
    <3>1. UNCHANGED <<firstpaddr, space, stage, prog, loadat, dcur, dtlb, ram, kpages, wrote, died>>
      BY <2>1 DEF dumbVars
    <3>2. QuietFault /\ dtlb' = dtlb /\ TlbOK'
      BY <1>2, <3>1, SameTlb DEF QuietFault
    <3>3. died' = "assertion" => ~Ordinary(prog[dcur])
      BY <1>2, <3>1 DEF DumbCore
    <3> QED
      BY <1>2, <3>2, <3>3, QuietStep DEF DumbInv
  <2>2. CASE alloc_kpages
    BY <1>2, <2>2, KpageStep DEF DumbInv
  <2>3. ASSUME NEW t \in DumbThread, switch_to(t) PROVE DumbInv'
    BY <1>2, <2>3, SwitchStep DEF DumbInv
  <2>4. ASSUME NEW t \in DumbThread, NoSpaceFor(t) PROVE DumbInv'
    BY <1>2, <2>4, NoSpaceStep DEF DumbInv
  <2>5. ASSUME NEW t \in DumbThread, runs_program(t) PROVE DumbInv'
    BY <1>2, <2>5, RunsProgramStep DEF DumbInv
  <2>6. ASSUME NEW t \in DumbThread, DefineSegment(t) PROVE DumbInv'
    BY <1>2, <2>6, DefineStep DEF DumbInv
  <2>7. ASSUME NEW t \in DumbThread, NEW base \in {"pbase1", "pbase2", "stackpbase"}, getppages(t, base) PROVE DumbInv'
    BY <1>2, <2>7, GetStep DEF Bases
  <2>8. ASSUME NEW t \in DumbThread, as_zero_region(t) PROVE DumbInv'
    BY <1>2, <2>8, ZeroStep DEF DumbInv
  <2>9. ASSUME NEW t \in DumbThread, LoadFault(t) PROVE DumbInv'
    BY <1>2, <2>9, LoadFaultStep DEF DumbInv
  <2>10. ASSUME NEW t \in DumbThread, LoadStore(t) PROVE DumbInv'
    BY <1>2, <2>10, LoadStoreStep DEF DumbInv
  <2>11. ASSUME NEW t \in DumbThread, ArgsFault(t) PROVE DumbInv'
    <3>1. /\ died = "no" /\ dcur = t /\ stage[t] \in {"load", "run"} /\ vm_fault(t, ArgsPage, dies("kernel fault"))
          /\ "kernel fault" # "assertion"
      BY <2>11 DEF ArgsFault, Runs
    <3> QED
      BY <1>2, <3>1, ArgsPageFact, FaultStep DEF DumbInv
  <2>12. ASSUME NEW t \in DumbThread, ArgsStore(t) PROVE DumbInv'
    BY <1>2, <2>12, ArgsStoreStep DEF DumbInv
  <2>13. ASSUME NEW t \in DumbThread, NEW v \in Touched, UserFault(t, v) PROVE DumbInv'
    <3>1. /\ died = "no" /\ dcur = t /\ stage[t] \in {"load", "run"} /\ vm_fault(t, v, dies("killed"))
          /\ "killed" # "assertion" /\ v \in UserPages
      BY <2>13, DumbConstants DEF UserFault, Runs
    <3> QED
      BY <1>2, <3>1, FaultStep DEF DumbInv
  <2>14. ASSUME NEW t \in DumbThread, NEW v \in Touched, UserStore(t, v) PROVE DumbInv'
    BY <1>2, <2>14, UserStoreStep DEF DumbInv
  <2>15. ASSUME NEW t \in DumbThread, NEW child \in DumbThread, as_copy(t, child) PROVE DumbInv'
    BY <1>2, <2>15, CopyStep DEF DumbInv
  <2>16. ASSUME NEW t \in DumbThread, thread_exits(t) PROVE DumbInv'
    BY <1>2, <2>16, ExitStep DEF DumbInv
  <2> QED
    BY <2>1, <2>2, <2>3, <2>4, <2>5, <2>6, <2>7, <2>8, <2>9, <2>10, <2>11, <2>12, <2>13, <2>14, <2>15, <2>16, Zenon
    DEF dumbNext
<1> QED
  BY <1>1, <1>2 DEF DumbInv

\* ProgramsKeepTheirMemory, for any memory, any number of threads, any executables: under dumbvm a
\* program finds on its pages what it wrote there (or was loaded, or copied), the TLB never holds
\* an entry of another program, the kernel heap's pages stay the kernel's, and an executable of two
\* segments off page 0 never meets an assertion of vm_fault (dumbvm.c, ram_stealmem of ram.c).
THEOREM ProgramsAreKeptApart == dumbSpec => []ProgramsKeepTheirMemory
<1>1. dumbInit => DumbInv
  BY DumbStart
<1>2. DumbInv /\ [dumbNext]_dumbVars => DumbInv'
  BY DumbSteps
<1>3. DumbInv => ProgramsKeepTheirMemory
  BY DEF DumbInv, DumbCore, Contents, TlbOK, ProgramsKeepTheirMemory
<1> QED
  BY <1>1, <1>2, <1>3, PTL DEF dumbSpec

=============================================================================
