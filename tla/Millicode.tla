----------------------------- MODULE Millicode -----------------------------
(***************************************************************************)
(* The 64-bit arithmetic that gcc calls on a 32-bit machine                *)
(* (common/gcc-millicode), for ints of 2 * HALF_BITS bits and long longs   *)
(* of twice that, as the library says it is written.  A long long is a     *)
(* number below 2 ^ LONGLONG_BITS; signed ones are read as two's           *)
(* complement.  Division is Knuth's Program D on four digits of HALF_BITS  *)
(* bits.  The operations are checked on every pair of operands (ma, mb).   *)
(***************************************************************************)
EXTENDS Integers, Sequences, SequencesExt, FiniteSetsExt

CONSTANT HALF_BITS      \* bits of half an int

ASSUME HalfBitsAssumption == HALF_BITS \in Nat \ {0}

B == 2 ^ HALF_BITS
INT_BITS == 2 * HALF_BITS
LONGLONG_BITS == 2 * INT_BITS
LL == 2 ^ LONGLONG_BITS

VARIABLES ma, mb    \* the operands
milliVars == <<ma, mb>>

\* union uu and the macros of longlong.h.
uint(x) == x % (B * B)
ull(x) == x % LL
Hi(x) == x \div (B * B)
Lo(x) == uint(x)
Whole(h, l) == uint(h) * (B * B) + uint(l)
HHALF(x) == x \div B
LHALF(x) == x % B
LHUP(x) == uint(x * B)
COMBINE(a, b) == a * B + b
Carry(p) == IF p THEN 1 ELSE 0
Signed(x) == IF x < LL \div 2 THEN x ELSE x - LL
SignedInt(x) == IF x < (B * B) \div 2 THEN x ELSE x - B * B

-----------------------------------------------------------------------------
(* Addition, subtraction, comparison, shifts *)

adddi3(a, b) ==
  LET lo == uint(Lo(a) + Lo(b))
  IN  Whole(Hi(a) + Hi(b) + Carry(lo < Lo(b)), lo)

subdi3(a, b) ==
  LET lo == uint(Lo(a) - Lo(b))
  IN  Whole(Hi(a) - Hi(b) - Carry(lo > Lo(a)), lo)

negdi2(a) ==
  LET lo == uint(0 - Lo(a))
  IN  Whole(0 - Hi(a) - Carry(lo > 0), lo)

Compare(h, k, l, m) == IF h < k THEN 0 ELSE IF h > k THEN 2 ELSE IF l < m THEN 0 ELSE IF l > m THEN 2 ELSE 1
cmpdi2(a, b) == Compare(SignedInt(Hi(a)), SignedInt(Hi(b)), Lo(a), Lo(b))
ucmpdi2(a, b) == Compare(Hi(a), Hi(b), Lo(a), Lo(b))

\* ashldi3 and lshldi3
ashldi3(a, s) ==
  IF s = 0 THEN a
  ELSE IF s >= INT_BITS THEN Whole(Lo(a) * 2 ^ (s - INT_BITS), 0)
  ELSE Whole(uint(Hi(a) * 2 ^ s) + Lo(a) \div 2 ^ (INT_BITS - s), Lo(a) * 2 ^ s)

lshrdi3(a, s) ==
  IF s = 0 THEN a
  ELSE IF s >= INT_BITS THEN Whole(0, Hi(a) \div 2 ^ (s - INT_BITS))
  ELSE Whole(Hi(a) \div 2 ^ s, Lo(a) \div 2 ^ s + uint(Hi(a) * 2 ^ (INT_BITS - s)))

\* The sign word is shifted by INT_BITS - 1 and then by one.
ashrdi3(a, s) ==
  LET h == SignedInt(Hi(a))
  IN  IF s = 0 THEN a
      ELSE IF s >= INT_BITS THEN Whole((h \div 2 ^ (INT_BITS - 1)) \div 2, h \div 2 ^ (s - INT_BITS))
      ELSE Whole(h \div 2 ^ s, Lo(a) \div 2 ^ s + uint(Hi(a) * 2 ^ (INT_BITS - s)))

-----------------------------------------------------------------------------
(* Multiplication *)

Diff(a, b) == IF a >= b THEN a - b ELSE b - a

\* prodh:prodl plus or minus x << N, with the carry or borrow.
AddHalf(p, x) ==
  LET lo == uint(p.l + LHUP(x)) IN [h |-> uint(p.h + HHALF(x) + Carry(lo < p.l)), l |-> lo]
SubHalf(p, x) ==
  LET lo == uint(p.l - LHUP(x)) IN [h |-> uint(p.h - (HHALF(x) + Carry(lo > p.l))), l |-> lo]
AddLow(p, x) ==
  LET lo == uint(p.l + x) IN [h |-> uint(p.h + Carry(lo < x)), l |-> lo]

\* Faulty variant: the borrow of the middle term is forgotten.
NoBorrow(p, neg, mid) ==
  IF neg THEN [h |-> uint(p.h - HHALF(mid)), l |-> uint(p.l - LHUP(mid))] ELSE AddHalf(p, mid)
MiddleTerm(p, neg, mid) == IF neg THEN SubHalf(p, mid) ELSE AddHalf(p, mid)

\* int times int, from four products of halves.
lmulq(u, v) ==
  LET u1 == HHALF(u)  u0 == LHALF(u)  v1 == HHALF(v)  v0 == LHALF(v)
      high == u1 * v1  low == u0 * v0  mid == Diff(u1, u0) * Diff(v0, v1)
      neg == (u1 < u0) # (v0 < v1)
      p == AddLow(AddHalf(MiddleTerm([h |-> uint(high + HHALF(high)), l |-> LHUP(high)], neg, mid),
                          low), low)
  IN  IF u1 = 0 /\ v1 = 0 THEN low ELSE Whole(p.h, p.l)

MulAbs(u, v) ==
  LET low == lmulq(Lo(u), Lo(v))
      mid == uint(Diff(Hi(u), Lo(u)) * Diff(Lo(v), Hi(v)))
      neg == (Hi(u) < Lo(u)) # (Lo(v) < Hi(v))
  IN  IF Hi(u) = 0 /\ Hi(v) = 0 THEN low
      ELSE Whole(Hi(u) * Hi(v) + (IF neg THEN 0 - mid ELSE mid) + Lo(low) + Hi(low), Lo(low))

Abs(a) == IF Signed(a) < 0 THEN ull(0 - a) ELSE a
WithSign(neg, a) == IF neg THEN ull(0 - a) ELSE a
muldi3(a, b) == WithSign((Signed(a) < 0) # (Signed(b) < 0), MulAbs(Abs(a), Abs(b)))

-----------------------------------------------------------------------------
(* Division *)

\* u[0] .. u[4]
Digits(x) == [i \in 0 .. 4 |-> IF i = 0 THEN 0 ELSE (x \div B ^ (4 - i)) % B]
LeadingZeros(d) == Max({z \in 0 .. 4 : \A i \in 1 .. z : d[i] = 0})
\* The digits from i = 0 on, z further down.
From(d, z, len) == [i \in 0 .. len |-> d[i + z]]
Value(d, last) == MapThenSumSet(LAMBDA i : d[i] * B ^ (last - i), 0 .. last)

\* p[first] .. p[first + len] shifted left by sh bits.
shl(p, first, len, sh) ==
  [i \in DOMAIN p |->
    IF i < first \/ sh = 0 THEN p[i]
    ELSE LHALF(p[i] * 2 ^ sh) + (IF i = first + len THEN 0 ELSE p[i + 1] \div 2 ^ (HALF_BITS - sh))]

\* Exercise 16, for a divisor of one digit.
ShortDivide(u, t) ==
  FoldLeft(LAMBDA acc, i : [q |-> acc.q * B + COMBINE(acc.r, u[i]) \div t, r |-> COMBINE(acc.r, u[i]) % t],
           [q |-> 0, r |-> 0], <<1, 2, 3, 4>>)

\* D3: how often qhat is decremented before it passes the test or rhat reaches B.
Decrements(qhat, rhat, least, v1, v2, uj2) ==
  Min({k \in least .. B : \/ k > 0 /\ rhat + k * v1 >= B
                          \/ v2 * (qhat - k) <= COMBINE(rhat + k * v1, uj2)})
Qhat(u, v, j) ==
  IF u[j] = v[1] THEN B - Decrements(B, u[j + 1], 1, v[1], v[2], u[j + 2])
  ELSE LET nn == COMBINE(u[j], u[j + 1])
       IN  nn \div v[1] - Decrements(nn \div v[1], nn % v[1], 0, v[1], v[2], u[j + 2])

\* D4: u[j .. j + n] minus qhat times v; t carries the borrow.
MultiplySubtract(u, v, n, j, qhat) ==
  LET s == FoldLeft(LAMBDA acc, i :
             LET t == uint(acc.u[i + j] - v[i] * qhat - acc.t)
             IN  [u |-> [acc.u EXCEPT ![i + j] = LHALF(t)], t |-> (B - HHALF(t)) % B],
             [u |-> u, t |-> 0], Reverse([i \in 1 .. n |-> i]))
      t == uint(s.u[j] - s.t)
  IN  [u |-> [s.u EXCEPT ![j] = LHALF(t)], borrow |-> HHALF(t) # 0]

\* D6: v is added back.
AddBack(u, v, n, j) ==
  LET s == FoldLeft(LAMBDA acc, i :
             LET t == acc.t + acc.u[i + j] + v[i]
             IN  [u |-> [acc.u EXCEPT ![i + j] = LHALF(t)], t |-> HHALF(t)],
             [u |-> u, t |-> 0], Reverse([i \in 1 .. n |-> i]))
  IN  [s.u EXCEPT ![j] = LHALF(@ + s.t)]

\* D3 to D6 for one digit of the quotient.
DigitOf(acc, r, qhat, v, n, j) ==
  IF r.borrow THEN [u |-> AddBack(r.u, v, n, j), q |-> acc.q * B + qhat - 1]
  ELSE [u |-> r.u, q |-> acc.q * B + qhat]
StepD(acc, v, n, j, qhat) == DigitOf(acc, MultiplySubtract(acc.u, v, n, j, qhat), qhat, v, n, j)

\* The remainder, shifted back.
Unshift(u, m, n, d) ==
  IF d = 0 THEN u
  ELSE [i \in DOMAIN u |->
         IF i < m THEN u[i] ELSE IF i = m THEN 0
         ELSE u[i] \div 2 ^ d + LHALF(u[i - 1] * 2 ^ (HALF_BITS - d))]

ProgramD(u, v, m, n, d) ==
  LET f == FoldLeft(LAMBDA acc, j : StepD(acc, v, n, j, Qhat(acc.u, v, j)),
                    [u |-> u, q |-> 0], [i \in 1 .. m + 1 |-> i - 1])
  IN  [q |-> f.q, r |-> Value(Unshift(f.u, m, n, d), m + n)]

\* D1: the shift that makes v[1] at least B / 2.
NormalShift(v1) == Min({d \in 0 .. HALF_BITS : v1 * 2 ^ d >= B \div 2})
Normalized(u, v, m, n, d) == ProgramD(shl(u, 0, m + n, d), shl(v, 1, n - 1, d), m, n, d)
LongDivide(u, v, zu, zv) ==
  Normalized(From(u, zu, 4 - zu), From(v, zv, 4 - zv), zv - zu, 4 - zv, NormalShift(v[zv + 1]))

\* The quotient and the remainder for a divisor that is not 0.
qdivrem(a, b) ==
  IF a < b THEN [q |-> 0, r |-> a]
  ELSE IF LeadingZeros(Digits(b)) = 3 THEN ShortDivide(Digits(a), b)
  ELSE LongDivide(Digits(a), Digits(b), LeadingZeros(Digits(a)), LeadingZeros(Digits(b)))

udivdi3(a, b) == qdivrem(a, b).q
umoddi3(a, b) == qdivrem(a, b).r
divdi3(a, b) == WithSign((Signed(a) < 0) # (Signed(b) < 0), qdivrem(Abs(a), Abs(b)).q)
moddi3(a, b) == WithSign(Signed(a) < 0, qdivrem(Abs(a), Abs(b)).r)

-----------------------------------------------------------------------------

milliInit == ma \in 0 .. LL - 1 /\ mb = 0
milliNext == mb < LL - 1 /\ mb' = mb + 1 /\ UNCHANGED ma
milliSpec == milliInit /\ [][milliNext]_milliVars

(* Properties *)

\* C's division of signed numbers: towards zero.
Quotient(x, y) == LET q == (IF x < 0 THEN 0 - x ELSE x) \div (IF y < 0 THEN 0 - y ELSE y)
                  IN  IF (x < 0) # (y < 0) THEN 0 - q ELSE q

\* Carries, borrows, the guess of a quotient digit and its correction, and the signs
\* are right for every pair of operands: each operation gives what arithmetic modulo
\* 2 ^ LONGLONG_BITS does.
MillicodeIsRight ==
  LET x == Signed(ma)
      y == Signed(mb)
  IN  /\ adddi3(ma, mb) = ull(ma + mb) /\ subdi3(ma, mb) = ull(ma - mb)
      /\ negdi2(ma) = ull(0 - ma)
      /\ muldi3(ma, mb) = ull(ma * mb)
      /\ cmpdi2(ma, mb) = (IF x < y THEN 0 ELSE IF x > y THEN 2 ELSE 1)
      /\ ucmpdi2(ma, mb) = (IF ma < mb THEN 0 ELSE IF ma > mb THEN 2 ELSE 1)
      /\ mb # 0 =>
           /\ udivdi3(ma, mb) = ma \div mb /\ umoddi3(ma, mb) = ma % mb
           /\ divdi3(ma, mb) = ull(Quotient(x, y))
           /\ moddi3(ma, mb) = ull(x - y * Quotient(x, y))
      /\ mb < LONGLONG_BITS =>
           /\ ashldi3(ma, mb) = ull(ma * 2 ^ mb) /\ lshrdi3(ma, mb) = ma \div 2 ^ mb
           /\ ashrdi3(ma, mb) = ull(x \div 2 ^ mb)
=============================================================================
