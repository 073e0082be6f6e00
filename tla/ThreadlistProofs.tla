-------------------------- MODULE ThreadlistProofs --------------------------
(***************************************************************************)
(* What the list operations do to the set of threads on each list and to   *)
(* the consistency of the list nodes, for any set of lists and threads.    *)
(***************************************************************************)
EXTENDS Threadlist, SequenceTheorems, TLAPS

\* threadlist_addtail links t on l, changes no other list, and keeps every
\* thread linked once if t was on no list.
LEMMA AddTailFacts ==
  ASSUME NEW T, NEW D, NEW L \in [D -> Seq(T)], NEW l \in D, NEW t \in T,
         Linked(L), \A m \in D : ~On(L, m, t)
  PROVE  /\ AddTail(L, l, t) \in [D -> Seq(T)]
         /\ Len(AddTail(L, l, t)[l]) = Len(L[l]) + 1
         /\ \A m \in D : m # l => AddTail(L, l, t)[m] = L[m]
         /\ \A m \in D, u \in T :
               On(AddTail(L, l, t), m, u) <=> On(L, m, u) \/ (m = l /\ u = t)
         /\ Linked(AddTail(L, l, t))
<1> DEFINE N == AddTail(L, l, t)
<1>1. /\ N \in [D -> Seq(T)]
      /\ Len(N[l]) = Len(L[l]) + 1
      /\ \A i \in 1..Len(L[l]) : N[l][i] = L[l][i]
      /\ N[l][Len(L[l]) + 1] = t
      /\ \A m \in D : m # l => N[m] = L[m]
  BY DEF AddTail
<1>2. ASSUME NEW m \in D, NEW u \in T
      PROVE  On(N, m, u) <=> On(L, m, u) \/ (m = l /\ u = t)
  <2>1. CASE m # l
    BY <1>1, <2>1 DEF On
  <2>2. CASE m = l
    <3>1. Len(L[l]) \in Nat
      OBVIOUS
    <3>2. \A i \in 1..Len(N[l]) : i \in 1..Len(L[l]) \/ i = Len(L[l]) + 1
      BY <1>1, <3>1
    <3>3. \A i \in 1..Len(L[l]) : i \in 1..Len(N[l])
      BY <1>1, <3>1
    <3>4. Len(L[l]) + 1 \in 1..Len(N[l])
      BY <1>1, <3>1
    <3> QED
      BY <1>1, <2>2, <3>2, <3>3, <3>4 DEF On
  <2> QED
    BY <2>1, <2>2
<1>3. Linked(N)
  <2> SUFFICES ASSUME NEW a \in D, NEW b \in D,
                      NEW i \in 1..Len(N[a]), NEW j \in 1..Len(N[b]),
                      N[a][i] = N[b][j]
               PROVE  a = b /\ i = j
    BY <1>1 DEF Linked
  <2> DEFINE new(m, k) == m = l /\ k = Len(L[l]) + 1
  <2>1. \A m \in D : \A k \in 1..Len(N[m]) :
           ~new(m, k) => k \in 1..Len(L[m]) /\ N[m][k] = L[m][k]
    <3> SUFFICES ASSUME NEW m \in D, NEW k \in 1..Len(N[m]), ~new(m, k)
                 PROVE  k \in 1..Len(L[m]) /\ N[m][k] = L[m][k]
      OBVIOUS
    <3>1. CASE m # l
      BY <1>1, <3>1
    <3>2. CASE m = l
      <4>1. Len(L[l]) \in Nat /\ k \in 1..(Len(L[l]) + 1) /\ k # Len(L[l]) + 1
        BY <1>1, <3>2
      <4> QED
        BY <1>1, <3>2, <4>1
    <3> QED
      BY <3>1, <3>2
  <2>2. \A m \in D : \A k \in 1..Len(L[m]) : L[m][k] # t
    BY DEF On
  <2>3. CASE ~new(a, i) /\ ~new(b, j)
    BY <2>1, <2>3 DEF Linked
  <2>4. CASE new(a, i) /\ new(b, j)
    BY <2>4
  <2>5. CASE new(a, i) # new(b, j)
    BY <1>1, <2>1, <2>2, <2>5
  <2> QED
    BY <2>3, <2>4, <2>5
<1> QED
  BY <1>1, <1>2, <1>3

\* threadlist_remhead of a nonempty list unlinks its first thread and nothing
\* else.
LEMMA RemHeadFacts ==
  ASSUME NEW T, NEW D, NEW L \in [D -> Seq(T)], NEW l \in D, L[l] # <<>>, Linked(L)
  PROVE  /\ RemHead(L, l) \in [D -> Seq(T)]
         /\ Len(RemHead(L, l)[l]) = Len(L[l]) - 1
         /\ \A m \in D : m # l => RemHead(L, l)[m] = L[m]
         /\ Head(L[l]) \in T /\ On(L, l, Head(L[l]))
         /\ \A m \in D, u \in T :
               On(RemHead(L, l), m, u) <=> On(L, m, u) /\ u # Head(L[l])
         /\ Linked(RemHead(L, l))
<1> DEFINE N == RemHead(L, l)
           h == Head(L[l])
           n == Len(L[l])
<1>0. L[l] \in Seq(T) /\ n \in Nat /\ n > 0 /\ h = L[l][1] /\ h \in T
  OBVIOUS
<1>1. /\ N \in [D -> Seq(T)]
      /\ Len(N[l]) = n - 1
      /\ \A i \in 1..(n - 1) : N[l][i] = L[l][i + 1]
      /\ \A m \in D : m # l => N[m] = L[m]
  BY <1>0 DEF RemHead
<1>2. On(L, l, h)
  BY <1>0 DEF On
<1>3. \A m \in D : \A k \in 1..Len(L[m]) : L[m][k] = h => m = l /\ k = 1
  BY <1>0 DEF Linked
<1> HIDE DEF N, h, n
<1>4. ASSUME NEW m \in D, NEW u \in T
      PROVE  On(N, m, u) <=> On(L, m, u) /\ u # h
  <2>1. CASE m # l
    BY <1>1, <1>3, <2>1 DEF On
  <2>2. CASE m = l
    <3>1. ASSUME On(N, l, u) PROVE On(L, l, u) /\ u # h
      <4>1. PICK i \in 1..(n - 1) : N[l][i] = u
        BY <1>1, <3>1 DEF On
      <4>2. i + 1 \in 1..Len(L[l]) /\ i + 1 # 1 /\ L[l][i + 1] = u
        BY <1>0, <1>1, <4>1 DEF n
      <4> QED
        BY <4>2, <1>3 DEF On
    <3>2. ASSUME On(L, l, u), u # h PROVE On(N, l, u)
      <4>1. PICK i \in 1..Len(L[l]) : L[l][i] = u
        BY <3>2 DEF On
      <4>2. i - 1 \in 1..(n - 1) /\ (i - 1) + 1 = i
        BY <1>0, <3>2, <4>1 DEF n
      <4> QED
        BY <1>1, <4>1, <4>2 DEF On
    <3> QED
      BY <2>2, <3>1, <3>2
  <2> QED
    BY <2>1, <2>2
<1>5. Linked(N)
  <2> SUFFICES ASSUME NEW a \in D, NEW b \in D,
                      NEW i \in 1..Len(N[a]), NEW j \in 1..Len(N[b]),
                      N[a][i] = N[b][j]
               PROVE  a = b /\ i = j
    BY <1>1 DEF Linked
  <2> DEFINE at(m, k) == IF m = l THEN k + 1 ELSE k
  <2>1. \A m \in D : \A k \in 1..Len(N[m]) :
           at(m, k) \in 1..Len(L[m]) /\ N[m][k] = L[m][at(m, k)]
    <3> SUFFICES ASSUME NEW m \in D, NEW k \in 1..Len(N[m])
                 PROVE  at(m, k) \in 1..Len(L[m]) /\ N[m][k] = L[m][at(m, k)]
      OBVIOUS
    <3>1. CASE m = l
      <4>1. k \in 1..(n - 1) /\ k + 1 \in 1..n
        BY <1>0, <1>1, <3>1
      <4> QED
        BY <1>1, <3>1, <4>1 DEF n
    <3>2. CASE m # l
      BY <1>1, <3>2
    <3> QED
      BY <3>1, <3>2
  <2> HIDE DEF at
  <2>2. a = b /\ at(a, i) = at(b, j)
    BY <2>1 DEF Linked
  <2>3. i \in Nat /\ j \in Nat
    <3>1. Len(N[a]) \in Nat /\ Len(N[b]) \in Nat
      BY <1>1
    <3> QED
      BY <3>1
  <2> QED
    BY <2>2, <2>3 DEF at
<1> QED
  BY <1>0, <1>1, <1>2, <1>4, <1>5 DEF N, h, n

\* A nonempty sequence without its last element.
LEMMA FrontFacts ==
  ASSUME NEW T, NEW s \in Seq(T), s # <<>>
  PROVE  /\ SubSeq(s, 1, Len(s) - 1) \in Seq(T)
         /\ Len(SubSeq(s, 1, Len(s) - 1)) = Len(s) - 1
         /\ \A i \in 1..(Len(s) - 1) : SubSeq(s, 1, Len(s) - 1)[i] = s[i]
<1> DEFINE n == Len(s) - 1
<1>1. n \in Nat /\ n \in Int /\ 1 \in Int
  OBVIOUS
<1>2. \A i \in 1..n : s[i] \in T
  BY <1>1
<1> HIDE DEF n
<1>3. /\ SubSeq(s, 1, n) \in Seq(T)
      /\ Len(SubSeq(s, 1, n)) = IF 1 <= n THEN n - 1 + 1 ELSE 0
      /\ \A i \in 1..(n - 1 + 1) : SubSeq(s, 1, n)[i] = s[1 + i - 1]
  BY <1>1, <1>2, SubSeqProperties
<1>4. n - 1 + 1 = n /\ (1 <= n \/ n = 0) /\ \A i \in 1..n : 1 + i - 1 = i
  BY <1>1
<1>5. Len(SubSeq(s, 1, n)) = n
  BY <1>3, <1>4
<1>6. \A i \in 1..n : SubSeq(s, 1, n)[i] = s[i]
  BY <1>3, <1>4
<1> QED
  BY <1>3, <1>5, <1>6 DEF n

\* threadlist_remtail of a nonempty list unlinks its last thread and nothing
\* else.
LEMMA RemTailFacts ==
  ASSUME NEW T, NEW D, NEW L \in [D -> Seq(T)], NEW l \in D, L[l] # <<>>, Linked(L)
  PROVE  /\ RemTail(L, l) \in [D -> Seq(T)]
         /\ Len(RemTail(L, l)[l]) = Len(L[l]) - 1
         /\ \A m \in D : m # l => RemTail(L, l)[m] = L[m]
         /\ L[l][Len(L[l])] \in T /\ On(L, l, L[l][Len(L[l])])
         /\ \A m \in D, u \in T :
               On(RemTail(L, l), m, u) <=> On(L, m, u) /\ u # L[l][Len(L[l])]
         /\ Linked(RemTail(L, l))
<1> DEFINE N == RemTail(L, l)
           n == Len(L[l])
           h == L[l][n]
<1>0. L[l] \in Seq(T) /\ n \in Nat /\ n > 0 /\ h \in T
  OBVIOUS
<1>1. /\ N \in [D -> Seq(T)]
      /\ Len(N[l]) = n - 1
      /\ \A i \in 1..(n - 1) : N[l][i] = L[l][i]
      /\ \A m \in D : m # l => N[m] = L[m]
  <2>2. /\ SubSeq(L[l], 1, n - 1) \in Seq(T)
        /\ Len(SubSeq(L[l], 1, n - 1)) = n - 1
        /\ \A i \in 1..(n - 1) : SubSeq(L[l], 1, n - 1)[i] = L[l][i]
    BY <1>0, FrontFacts
  <2> QED
    BY <2>2 DEF RemTail
<1>2. On(L, l, h)
  BY <1>0 DEF On
<1>3. \A m \in D : \A k \in 1..Len(L[m]) : L[m][k] = h => m = l /\ k = n
  BY <1>0 DEF Linked
<1> HIDE DEF N, h, n
<1>4. \A m \in D : \A k \in 1..Len(N[m]) :
         k \in 1..Len(L[m]) /\ N[m][k] = L[m][k]
  <2> SUFFICES ASSUME NEW m \in D, NEW k \in 1..Len(N[m])
               PROVE  k \in 1..Len(L[m]) /\ N[m][k] = L[m][k]
    OBVIOUS
  <2>1. CASE m = l
    <3>1. k \in 1..(n - 1) /\ k \in 1..n
      BY <1>0, <1>1, <2>1
    <3> QED
      BY <1>1, <2>1, <3>1 DEF n
  <2>2. CASE m # l
    BY <1>1, <2>2
  <2> QED
    BY <2>1, <2>2
<1>5. ASSUME NEW m \in D, NEW u \in T
      PROVE  On(N, m, u) <=> On(L, m, u) /\ u # h
  <2>1. CASE m # l
    BY <1>1, <1>3, <2>1 DEF On
  <2>2. CASE m = l
    <3>1. ASSUME On(N, l, u) PROVE On(L, l, u) /\ u # h
      <4>1. PICK i \in 1..(n - 1) : N[l][i] = u
        BY <1>1, <3>1 DEF On
      <4>2. i \in 1..Len(L[l]) /\ i # n /\ L[l][i] = u
        BY <1>0, <1>1, <4>1 DEF n
      <4> QED
        BY <4>2, <1>3 DEF On
    <3>2. ASSUME On(L, l, u), u # h PROVE On(N, l, u)
      <4>1. PICK i \in 1..n : L[l][i] = u
        BY <3>2 DEF On, n
      <4>2. i \in 1..(n - 1)
        BY <1>0, <3>2, <4>1 DEF h
      <4> QED
        BY <1>1, <4>1, <4>2 DEF On
    <3> QED
      BY <2>2, <3>1, <3>2
  <2> QED
    BY <2>1, <2>2
<1>6. Linked(N)
  BY <1>1, <1>4 DEF Linked
<1> QED
  BY <1>0, <1>1, <1>2, <1>5, <1>6 DEF N, h, n

\* threadlist_addhead: as threadlist_addtail, at the other end.
LEMMA AddHeadFacts ==
  ASSUME NEW T, NEW D, NEW L \in [D -> Seq(T)], NEW l \in D, NEW t \in T,
         Linked(L), \A m \in D : ~On(L, m, t)
  PROVE  /\ AddHead(L, l, t) \in [D -> Seq(T)]
         /\ Len(AddHead(L, l, t)[l]) = Len(L[l]) + 1
         /\ \A m \in D : m # l => AddHead(L, l, t)[m] = L[m]
         /\ \A m \in D, u \in T :
               On(AddHead(L, l, t), m, u) <=> On(L, m, u) \/ (m = l /\ u = t)
         /\ Linked(AddHead(L, l, t))
<1> DEFINE N == AddHead(L, l, t)
           n == Len(L[l])
<1>0. L[l] \in Seq(T) /\ n \in Nat
  OBVIOUS
<1>1. /\ N \in [D -> Seq(T)]
      /\ Len(N[l]) = n + 1
      /\ N[l][1] = t
      /\ \A i \in 1..n : N[l][i + 1] = L[l][i]
      /\ \A m \in D : m # l => N[m] = L[m]
  <2>1. <<t>> \o L[l] \in Seq(T) /\ Len(<<t>> \o L[l]) = n + 1
    BY <1>0
  <2>2. (<<t>> \o L[l])[1] = t /\ \A i \in 1..n : (<<t>> \o L[l])[i + 1] = L[l][i]
    BY <1>0
  <2> QED
    BY <2>1, <2>2 DEF AddHead
<1> HIDE DEF N
<1> DEFINE new(m, k) == m = l /\ k = 1
           at(m, k) == IF m = l THEN k - 1 ELSE k
<1>2. \A m \in D : \A k \in 1..Len(N[m]) :
         ~new(m, k) => at(m, k) \in 1..Len(L[m]) /\ N[m][k] = L[m][at(m, k)]
  <2> SUFFICES ASSUME NEW m \in D, NEW k \in 1..Len(N[m]), ~new(m, k)
               PROVE  at(m, k) \in 1..Len(L[m]) /\ N[m][k] = L[m][at(m, k)]
    OBVIOUS
  <2>1. CASE m = l
    <3>1. k - 1 \in 1..n /\ (k - 1) + 1 = k
      BY <1>0, <1>1, <2>1
    <3> QED
      BY <1>1, <2>1, <3>1
  <2>2. CASE m # l
    BY <1>1, <2>2
  <2> QED
    BY <2>1, <2>2
<1>3. ASSUME NEW m \in D, NEW u \in T
      PROVE  On(N, m, u) <=> On(L, m, u) \/ (m = l /\ u = t)
  <2>1. CASE m # l
    BY <1>1, <2>1 DEF On
  <2>2. CASE m = l
    <3>1. ASSUME On(N, l, u) PROVE On(L, l, u) \/ u = t
      <4>1. PICK k \in 1..Len(N[l]) : N[l][k] = u
        BY <3>1 DEF On
      <4>2. CASE k = 1
        BY <1>1, <4>1, <4>2
      <4>3. CASE k # 1
        <5>1. at(l, k) \in 1..Len(L[l]) /\ u = L[l][at(l, k)]
          BY <1>2, <4>1, <4>3
        <5> HIDE DEF at
        <5> QED
          BY <5>1 DEF On
      <4> QED
        BY <4>2, <4>3
    <3>2. ASSUME On(L, l, u) PROVE On(N, l, u)
      <4>1. PICK i \in 1..n : L[l][i] = u
        BY <3>2 DEF On
      <4>2. i + 1 \in 1..Len(N[l])
        BY <1>0, <1>1, <4>1
      <4> QED
        BY <1>1, <4>1, <4>2 DEF On
    <3>3. On(N, l, t)
      <4>1. 1 \in 1..Len(N[l])
        BY <1>0, <1>1
      <4> QED
        BY <1>1, <4>1 DEF On
    <3> QED
      BY <2>2, <3>1, <3>2, <3>3
  <2> QED
    BY <2>1, <2>2
<1>4. Linked(N)
  <2> SUFFICES ASSUME NEW a \in D, NEW b \in D,
                      NEW i \in 1..Len(N[a]), NEW j \in 1..Len(N[b]),
                      N[a][i] = N[b][j]
               PROVE  a = b /\ i = j
    BY <1>1 DEF Linked
  <2>1. \A m \in D : \A k \in 1..Len(L[m]) : L[m][k] # t
    BY DEF On
  <2>2. i \in Nat /\ j \in Nat
    <3>1. Len(N[a]) \in Nat /\ Len(N[b]) \in Nat
      BY <1>1
    <3> QED
      BY <3>1
  <2>3. CASE ~new(a, i) /\ ~new(b, j)
    <3> HIDE DEF new, at
    <3>1. a = b /\ at(a, i) = at(b, j)
      BY <1>2, <2>3 DEF Linked
    <3> QED
      BY <2>2, <3>1 DEF at
  <2>4. CASE new(a, i) /\ new(b, j)
    BY <2>4
  <2>5. CASE new(a, i) /\ ~new(b, j)
    <3> HIDE DEF at
    <3>1. N[a][i] = t
      BY <1>1, <2>5
    <3>2. N[b][j] # t
      BY <1>2, <2>1, <2>5
    <3> QED
      BY <3>1, <3>2
  <2>6. CASE ~new(a, i) /\ new(b, j)
    <3> HIDE DEF at
    <3>1. N[b][j] = t
      BY <1>1, <2>6
    <3>2. N[a][i] # t
      BY <1>2, <2>1, <2>6
    <3> QED
      BY <3>1, <3>2
  <2> QED
    BY <2>3, <2>4, <2>5, <2>6
<1> QED
  BY <1>1, <1>3, <1>4 DEF N

\* Moving the head of a list to the tail of a list (possibly the same one).
LEMMA MoveHeadFacts ==
  ASSUME NEW T, NEW D, NEW L \in [D -> Seq(T)], NEW a \in D, NEW b \in D,
         L[a] # <<>>, Linked(L)
  PROVE  /\ MoveHead(L, a, b) \in [D -> Seq(T)]
         /\ Linked(MoveHead(L, a, b))
         /\ Head(L[a]) \in T /\ On(L, a, Head(L[a]))
         /\ \A m \in D, u \in T :
               On(MoveHead(L, a, b), m, u) <=>
                  (On(L, m, u) /\ u # Head(L[a])) \/ (m = b /\ u = Head(L[a]))
         /\ \A m \in D : m \notin {a, b} => MoveHead(L, a, b)[m] = L[m]
         /\ a # b => /\ Len(MoveHead(L, a, b)[a]) = Len(L[a]) - 1
                     /\ Len(MoveHead(L, a, b)[b]) = Len(L[b]) + 1
         /\ a = b => Len(MoveHead(L, a, b)[a]) = Len(L[a])
<1> DEFINE R == RemHead(L, a)
           h == Head(L[a])
<1>1. /\ R \in [D -> Seq(T)]
      /\ Len(R[a]) = Len(L[a]) - 1
      /\ \A m \in D : m # a => R[m] = L[m]
      /\ h \in T /\ On(L, a, h)
      /\ \A m \in D, u \in T : On(R, m, u) <=> On(L, m, u) /\ u # h
      /\ Linked(R)
  BY RemHeadFacts
<1>2. MoveHead(L, a, b) = AddTail(R, b, h)
  BY DEF MoveHead
<1> HIDE DEF R, h
<1>3. /\ AddTail(R, b, h) \in [D -> Seq(T)]
      /\ Len(AddTail(R, b, h)[b]) = Len(R[b]) + 1
      /\ \A m \in D : m # b => AddTail(R, b, h)[m] = R[m]
      /\ \A m \in D, u \in T : On(AddTail(R, b, h), m, u) <=> On(R, m, u) \/ (m = b /\ u = h)
      /\ Linked(AddTail(R, b, h))
  <2>1. \A m \in D : ~On(R, m, h)
    BY <1>1
  <2>2. ASSUME NEW M \in [D -> Seq(T)], NEW t \in T, Linked(M), \A m \in D : ~On(M, m, t)
        PROVE  /\ AddTail(M, b, t) \in [D -> Seq(T)]
               /\ Len(AddTail(M, b, t)[b]) = Len(M[b]) + 1
               /\ \A m \in D : m # b => AddTail(M, b, t)[m] = M[m]
               /\ \A m \in D, u \in T : On(AddTail(M, b, t), m, u) <=> On(M, m, u) \/ (m = b /\ u = t)
               /\ Linked(AddTail(M, b, t))
    BY <2>2, AddTailFacts
  <2> QED
    BY <1>1, <2>1, <2>2, ZenonT(30)
<1>4. Len(L[a]) \in Nat /\ Len(L[b]) \in Nat
  OBVIOUS
<1>5. \A m \in D, u \in T : On(AddTail(R, b, h), m, u) <=>
         (On(L, m, u) /\ u # h) \/ (m = b /\ u = h)
  BY <1>1, <1>3
<1>6. \A m \in D : m \notin {a, b} => AddTail(R, b, h)[m] = L[m]
  BY <1>1, <1>3
<1>7. a # b => /\ Len(AddTail(R, b, h)[a]) = Len(L[a]) - 1
               /\ Len(AddTail(R, b, h)[b]) = Len(L[b]) + 1
  BY <1>1, <1>3
<1>8. a = b => Len(AddTail(R, b, h)[a]) = Len(L[a])
  BY <1>1, <1>3, <1>4
<1> HIDE DEF h
<1> QED
  BY <1>1, <1>2, <1>3, <1>5, <1>6, <1>7, <1>8, Zenon DEF h

\* Moving the tail of a list to the head of another.
LEMMA MoveTailFacts ==
  ASSUME NEW T, NEW D, NEW L \in [D -> Seq(T)], NEW a \in D, NEW b \in D, a # b,
         L[a] # <<>>, Linked(L)
  PROVE  /\ MoveTail(L, a, b) \in [D -> Seq(T)]
         /\ Linked(MoveTail(L, a, b))
         /\ \E h \in T : /\ On(L, a, h)
                         /\ \A m \in D, u \in T :
                               On(MoveTail(L, a, b), m, u) <=>
                                  (On(L, m, u) /\ u # h) \/ (m = b /\ u = h)
         /\ \A m \in D : m \notin {a, b} => MoveTail(L, a, b)[m] = L[m]
         /\ Len(MoveTail(L, a, b)[a]) = Len(L[a]) - 1
         /\ Len(MoveTail(L, a, b)[b]) = Len(L[b]) + 1
<1> DEFINE R == RemTail(L, a)
           h == L[a][Len(L[a])]
<1>1. /\ R \in [D -> Seq(T)]
      /\ Len(R[a]) = Len(L[a]) - 1
      /\ \A m \in D : m # a => R[m] = L[m]
      /\ h \in T /\ On(L, a, h)
      /\ \A m \in D, u \in T : On(R, m, u) <=> On(L, m, u) /\ u # h
      /\ Linked(R)
  BY RemTailFacts
<1>2. MoveTail(L, a, b) = AddHead(R, b, h)
  BY DEF MoveTail
<1> HIDE DEF R, h
<1>3. /\ AddHead(R, b, h) \in [D -> Seq(T)]
      /\ Len(AddHead(R, b, h)[b]) = Len(R[b]) + 1
      /\ \A m \in D : m # b => AddHead(R, b, h)[m] = R[m]
      /\ \A m \in D, u \in T : On(AddHead(R, b, h), m, u) <=> On(R, m, u) \/ (m = b /\ u = h)
      /\ Linked(AddHead(R, b, h))
  <2>1. \A m \in D : ~On(R, m, h)
    BY <1>1
  <2>2. ASSUME NEW M \in [D -> Seq(T)], NEW t \in T, Linked(M), \A m \in D : ~On(M, m, t)
        PROVE  /\ AddHead(M, b, t) \in [D -> Seq(T)]
               /\ Len(AddHead(M, b, t)[b]) = Len(M[b]) + 1
               /\ \A m \in D : m # b => AddHead(M, b, t)[m] = M[m]
               /\ \A m \in D, u \in T : On(AddHead(M, b, t), m, u) <=> On(M, m, u) \/ (m = b /\ u = t)
               /\ Linked(AddHead(M, b, t))
    BY <2>2, AddHeadFacts
  <2> QED
    BY <1>1, <2>1, <2>2, ZenonT(30)
<1>4. \A m \in D, u \in T : On(AddHead(R, b, h), m, u) <=>
         (On(L, m, u) /\ u # h) \/ (m = b /\ u = h)
  BY <1>1, <1>3
<1>5. \A m \in D : m \notin {a, b} => AddHead(R, b, h)[m] = L[m]
  BY <1>1, <1>3
<1>6. /\ Len(AddHead(R, b, h)[a]) = Len(L[a]) - 1
      /\ Len(AddHead(R, b, h)[b]) = Len(L[b]) + 1
  BY <1>1, <1>3
<1>7. \E x \in T : /\ On(L, a, x)
                   /\ \A m \in D, u \in T : On(AddHead(R, b, h), m, u) <=>
                         (On(L, m, u) /\ u # x) \/ (m = b /\ u = x)
  BY <1>1, <1>4, Zenon
<1>8. \E x \in T : /\ On(L, a, x)
                   /\ \A m \in D, u \in T : On(MoveTail(L, a, b), m, u) <=>
                         (On(L, m, u) /\ u # x) \/ (m = b /\ u = x)
  BY <1>2, <1>7
<1>9. /\ MoveTail(L, a, b) \in [D -> Seq(T)]
      /\ Linked(MoveTail(L, a, b))
      /\ \A m \in D : m \notin {a, b} => MoveTail(L, a, b)[m] = L[m]
      /\ Len(MoveTail(L, a, b)[a]) = Len(L[a]) - 1
      /\ Len(MoveTail(L, a, b)[b]) = Len(L[b]) + 1
  BY <1>2, <1>3, <1>5, <1>6
<1> QED
  BY <1>8, <1>9

\* Emptying one list into another.
LEMMA MoveAllFacts ==
  ASSUME NEW T, NEW D, NEW L \in [D -> Seq(T)], NEW a \in D, NEW b \in D, a # b,
         Linked(L)
  PROVE  /\ MoveAll(L, a, b) \in [D -> Seq(T)]
         /\ Linked(MoveAll(L, a, b))
         /\ \A m \in D, u \in T :
               On(MoveAll(L, a, b), m, u) <=>
                  (On(L, m, u) /\ m # a) \/ (m = b /\ On(L, a, u))
         /\ \A m \in D : m \notin {a, b} => MoveAll(L, a, b)[m] = L[m]
         /\ L[a] # <<>> => MoveAll(L, a, b)[b] # <<>>
<1> DEFINE N == MoveAll(L, a, b)
           p == Len(L[a])
           q == Len(L[b])
<1>0. L[a] \in Seq(T) /\ L[b] \in Seq(T) /\ p \in Nat /\ q \in Nat
  OBVIOUS
<1>1. /\ L[b] \o L[a] \in Seq(T)
      /\ Len(L[b] \o L[a]) = q + p
      /\ \A i \in 1..(q + p) : (L[b] \o L[a])[i] = IF i <= q THEN L[b][i] ELSE L[a][i - q]
  BY <1>0, ConcatProperties
<1>2. /\ N \in [D -> Seq(T)]
      /\ N[a] = <<>>
      /\ N[b] = L[b] \o L[a]
      /\ \A m \in D : m \notin {a, b} => N[m] = L[m]
  <2> DEFINE ba == L[b] \o L[a]
  <2>1. ba \in Seq(T) /\ N = [L EXCEPT ![b] = ba, ![a] = <<>>]
    BY <1>1 DEF MoveAll
  <2>2. <<>> \in Seq(T)
    OBVIOUS
  <2> HIDE DEF ba, N
  <2> QED
    BY <2>1, <2>2 DEF ba
<1>3. Len(N[a]) = 0 /\ Len(N[b]) = q + p
  BY <1>1, <1>2
<1> HIDE DEF N, p, q
\* The position in L of the thread at position k of list m of N.
<1> DEFINE lst(m, k) == IF m = b /\ ~(k <= q) THEN a ELSE m
           at(m, k) == IF m = b /\ ~(k <= q) THEN k - q ELSE k
<1>4. \A m \in D : \A k \in 1..Len(N[m]) :
         /\ lst(m, k) \in D
         /\ at(m, k) \in 1..Len(L[lst(m, k)])
         /\ N[m][k] = L[lst(m, k)][at(m, k)]
  <2> SUFFICES ASSUME NEW m \in D, NEW k \in 1..Len(N[m])
               PROVE  /\ lst(m, k) \in D
                      /\ at(m, k) \in 1..Len(L[lst(m, k)])
                      /\ N[m][k] = L[lst(m, k)][at(m, k)]
    OBVIOUS
  <2>1. CASE m \notin {a, b}
    BY <1>2, <2>1
  <2>2. CASE m = a
    BY <1>3, <2>2
  <2>3. CASE m = b /\ k <= q
    <3>1. k \in 1..q /\ k \in 1..(q + p)
      BY <1>0, <1>3, <2>3
    <3> QED
      BY <1>1, <1>2, <2>3, <3>1 DEF q
  <2>4. CASE m = b /\ ~(k <= q)
    <3>1. k - q \in 1..p /\ k \in 1..(q + p)
      BY <1>0, <1>3, <2>4
    <3> QED
      BY <1>1, <1>2, <2>4, <3>1 DEF p
  <2> QED
    BY <2>1, <2>2, <2>3, <2>4
<1>5. Linked(N)
  <2> SUFFICES ASSUME NEW x \in D, NEW y \in D,
                      NEW i \in 1..Len(N[x]), NEW j \in 1..Len(N[y]),
                      N[x][i] = N[y][j]
               PROVE  x = y /\ i = j
    BY <1>2 DEF Linked
  <2>1. i \in Nat /\ j \in Nat
    <3>1. Len(N[x]) \in Nat /\ Len(N[y]) \in Nat
      BY <1>2
    <3> QED
      BY <3>1
  <2>2. lst(x, i) = lst(y, j) /\ at(x, i) = at(y, j)
    <3> HIDE DEF lst, at
    <3>1. /\ lst(x, i) \in D /\ at(x, i) \in 1..Len(L[lst(x, i)])
          /\ N[x][i] = L[lst(x, i)][at(x, i)]
      BY <1>4
    <3>2. /\ lst(y, j) \in D /\ at(y, j) \in 1..Len(L[lst(y, j)])
          /\ N[y][j] = L[lst(y, j)][at(y, j)]
      BY <1>4
    <3>3. \A l1, l2 \in D : \A k1 \in 1..Len(L[l1]), k2 \in 1..Len(L[l2]) :
             L[l1][k1] = L[l2][k2] => l1 = l2 /\ k1 = k2
      BY DEF Linked
    <3>4. L[lst(x, i)][at(x, i)] = L[lst(y, j)][at(y, j)]
      BY <3>1, <3>2
    <3> QED
      BY <3>1, <3>2, <3>3, <3>4
  <2>3. x # a /\ y # a
    BY <1>3
  <2> QED
    BY <1>0, <2>1, <2>2, <2>3
<1>6. ASSUME NEW m \in D, NEW u \in T
      PROVE  On(N, m, u) <=> (On(L, m, u) /\ m # a) \/ (m = b /\ On(L, a, u))
  <2>1. CASE m \notin {a, b}
    BY <1>2, <2>1 DEF On
  <2>2. CASE m = a
    BY <1>3, <2>2 DEF On
  <2>3. CASE m = b
    <3>1. ASSUME On(N, b, u) PROVE On(L, b, u) \/ On(L, a, u)
      <4>1. PICK k \in 1..Len(N[b]) : N[b][k] = u
        BY <3>1 DEF On
      <4>2. /\ at(b, k) \in 1..Len(L[lst(b, k)])
            /\ L[lst(b, k)][at(b, k)] = u
        BY <1>4, <4>1
      <4>3. lst(b, k) \in {a, b}
        OBVIOUS
      <4> HIDE DEF lst, at
      <4> QED
        BY <4>2, <4>3 DEF On
    <3>2. ASSUME On(L, b, u) PROVE On(N, b, u)
      <4>1. PICK i \in 1..q : L[b][i] = u
        BY <3>2 DEF On, q
      <4>2. i \in 1..(q + p) /\ i <= q
        BY <1>0, <4>1
      <4> QED
        BY <1>1, <1>2, <1>3, <4>1, <4>2 DEF On
    <3>3. ASSUME On(L, a, u) PROVE On(N, b, u)
      <4>1. PICK i \in 1..p : L[a][i] = u
        BY <3>3 DEF On, p
      <4>2. i + q \in 1..(q + p) /\ ~(i + q <= q) /\ (i + q) - q = i
        BY <1>0, <4>1
      <4> QED
        BY <1>1, <1>2, <1>3, <4>1, <4>2 DEF On
    <3> QED
      BY <2>3, <3>1, <3>2, <3>3
  <2> QED
    BY <2>1, <2>2, <2>3
<1>7. L[a] # <<>> => N[b] # <<>>
  <2> SUFFICES ASSUME L[a] # <<>> PROVE N[b] # <<>>
    OBVIOUS
  <2>1. p # 0
    BY <1>0 DEF p
  <2>2. q + p # 0
    BY <1>0, <2>1
  <2>3. Len(N[b]) # 0
    BY <1>3, <2>2
  <2> QED
    BY <2>3
<1> QED
  BY <1>2, <1>5, <1>6, <1>7 DEF N

\* Emptying a list.
LEMMA ClearFacts ==
  ASSUME NEW T, NEW D, NEW L \in [D -> Seq(T)], NEW a \in D, Linked(L)
  PROVE  LET N == [L EXCEPT ![a] = <<>>]
         IN  /\ N \in [D -> Seq(T)]
             /\ Linked(N)
             /\ \A m \in D : m # a => N[m] = L[m]
             /\ \A m \in D, u \in T : On(N, m, u) <=> On(L, m, u) /\ m # a
<1> DEFINE N == [L EXCEPT ![a] = <<>>]
<1>1. /\ N \in [D -> Seq(T)]
      /\ \A m \in D : m # a => N[m] = L[m]
      /\ Len(N[a]) = 0
  OBVIOUS
<1> HIDE DEF N
<1>2. Linked(N)
  <2> SUFFICES ASSUME NEW x \in D, NEW y \in D,
                      NEW i \in 1..Len(N[x]), NEW j \in 1..Len(N[y]),
                      N[x][i] = N[y][j]
               PROVE  x = y /\ i = j
    BY <1>1 DEF Linked
  <2>1. x # a /\ y # a
    BY <1>1
  <2> QED
    BY <1>1, <2>1 DEF Linked
<1>3. \A m \in D, u \in T : On(N, m, u) <=> On(L, m, u) /\ m # a
  BY <1>1 DEF On
<1> QED
  BY <1>1, <1>2, <1>3 DEF N

=============================================================================
