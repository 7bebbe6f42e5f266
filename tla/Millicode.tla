------------------------------ MODULE Millicode -----------------------------
(***************************************************************************)
(* The arithmetic on long long that the compiler calls functions for,      *)
(* against the arithmetic of the integers.  An unsigned int has            *)
(* 2 * HALF_BITS bits; a long long is the number that its two ints make,   *)
(* unsigned, and Signed gives the value it has as a signed one.            *)
(***************************************************************************)
EXTENDS Integers, SequencesExt, Bitwise

CONSTANT HALF_BITS

B == 2 ^ HALF_BITS               \* the digit base of the division
INT_BITS == 2 * HALF_BITS
W == 2 ^ INT_BITS                \* one more than the largest unsigned int
LL == 0..(W * W - 1)

H(x) == x \div W
L(x) == x % W
uu(h, l) == ((h % W) * W) + (l % W)
SignedInt(i) == IF i >= W \div 2 THEN i - W ELSE i
Signed(x) == IF x >= (W * W) \div 2 THEN x - W * W ELSE x
HHALF(x) == x \div B
LHALF(x) == x % B
LHUP(x)  == (x * B) % W
Bit(b) == IF b THEN 1 ELSE 0

\* Mutant: the carry is also taken from a sum that equals its operand.
LateCarry(a, b) == LET l == (L(a) + L(b)) % W IN uu(H(a) + H(b) + Bit(l <= L(b)), l)

__adddi3(a, b) == LET l == (L(a) + L(b)) % W IN uu(H(a) + H(b) + Bit(l < L(b)), l)
__subdi3(a, b) == LET l == (L(a) - L(b)) % W IN uu(H(a) - H(b) - Bit(l > L(a)), l)
__negdi2(a)    == LET l == (0 - L(a)) % W IN uu(0 - H(a) - Bit(l > 0), l)
__one_cmpldi2(a) == uu(W - 1 - H(a), W - 1 - L(a))
__anddi3(a, b) == uu(H(a) & H(b), L(a) & L(b))
__iordi3(a, b) == uu(H(a) | H(b), L(a) | L(b))
__xordi3(a, b) == uu(H(a) ^^ H(b), L(a) ^^ L(b))

__ashldi3(a, shift) ==
  IF shift = 0 THEN a
  ELSE IF shift >= INT_BITS THEN uu(L(a) * 2 ^ (shift - INT_BITS), 0)
  ELSE uu(((H(a) * 2 ^ shift) % W) | (L(a) \div 2 ^ (INT_BITS - shift)), L(a) * 2 ^ shift)
__lshldi3(a, shift) ==
  IF shift = 0 THEN a
  ELSE IF shift >= INT_BITS THEN uu(L(a) * 2 ^ (shift - INT_BITS), 0)
  ELSE uu(((H(a) * 2 ^ shift) % W) | (L(a) \div 2 ^ (INT_BITS - shift)), L(a) * 2 ^ shift)
__lshrdi3(a, shift) ==
  IF shift = 0 THEN a
  ELSE IF shift >= INT_BITS THEN uu(0, H(a) \div 2 ^ (shift - INT_BITS))
  ELSE uu(H(a) \div 2 ^ shift,
          (L(a) \div 2 ^ shift) | ((H(a) * 2 ^ (INT_BITS - shift)) % W))
\* A right shift of a signed int fills with its sign.
__ashrdi3(a, shift) ==
  LET s == SignedInt(H(a))
  IN  IF shift = 0 THEN a
      ELSE IF shift >= INT_BITS
      THEN uu((s \div 2 ^ (INT_BITS - 1)) \div 2, s \div 2 ^ (shift - INT_BITS))
      ELSE uu(s \div 2 ^ shift,
              (L(a) \div 2 ^ shift) | ((H(a) * 2 ^ (INT_BITS - shift)) % W))

Order(h1, h2, l1, l2) == IF h1 < h2 THEN 0 ELSE IF h1 > h2 THEN 2
                         ELSE IF l1 < l2 THEN 0 ELSE IF l1 > l2 THEN 2 ELSE 1
__cmpdi2(a, b)  == Order(SignedInt(H(a)), SignedInt(H(b)), L(a), L(b))
__ucmpdi2(a, b) == Order(H(a), H(b), L(a), L(b))

(***************************************************************************)
(* Multiplication, first of two ints, then of two long longs.              *)
(***************************************************************************)
\* A sum and a difference of numbers of two ints, with the carry of the lower.
Plus(x, h, l)  == LET y == (x[2] + l) % W IN <<x[1] + h + Bit(y < x[2]), y>>
Minus(x, h, l) == LET y == (x[2] - l) % W IN <<x[1] - (h + Bit(y > x[2])), y>>
Join(x) == uu(x[1], x[2])

\* By halves; mid is the product of their differences.
Karatsuba(u1, u0, v1, v0) ==
  LET udiff == IF u1 >= u0 THEN u1 - u0 ELSE u0 - u1
      vdiff == IF v0 >= v1 THEN v0 - v1 ELSE v1 - v0
      mid   == udiff * vdiff
      AddHigh(high) == <<high + HHALF(high), LHUP(high)>>
      AddMid(prod)  == IF (u1 < u0) # (v0 < v1) THEN Minus(prod, HHALF(mid), LHUP(mid))
                       ELSE Plus(prod, HHALF(mid), LHUP(mid))
      AddLow(prod, low) == Plus(Plus(prod, HHALF(low), LHUP(low)), 0, low)
  IN  IF u1 = 0 /\ v1 = 0 THEN u0 * v0
      ELSE Join(AddLow(AddMid(AddHigh(u1 * v1)), u0 * v0))
__lmulq(u, v) == Karatsuba(HHALF(u), LHALF(u), HHALF(v), LHALF(v))

Magnitude(x) == IF Signed(x) < 0 THEN __negdi2(x) ELSE x
Product(u1, u0, v1, v0) ==
  LET udiff == IF u1 >= u0 THEN u1 - u0 ELSE u0 - u1
      vdiff == IF v0 >= v1 THEN v0 - v1 ELSE v1 - v0
      mid   == IF (u1 < u0) # (v0 < v1) THEN 0 - udiff * vdiff ELSE udiff * vdiff
      Sum(low) == IF u1 = 0 /\ v1 = 0 THEN low ELSE uu(u1 * v1 + mid + L(low) + H(low), L(low))
  IN  Sum(__lmulq(u0, v0))
__muldi3(a, b) ==
  LET prod(u, v) == Product(H(u), L(u), H(v), L(v))
      Sign(p) == IF (Signed(a) < 0) # (Signed(b) < 0) THEN __negdi2(p) ELSE p
  IN  Sign(prod(Magnitude(a), Magnitude(b)))

(***************************************************************************)
(* Division, digit by digit.                                               *)
(***************************************************************************)
COMBINE(a, b) == ((a * B) % W) + b

\* p[from..from+len] is shifted left by sh bits.
shl(p, from, len, sh) ==
  [i \in DOMAIN p |->
     IF i \notin from..(from + len) THEN p[i]
     ELSE LHALF(p[i] * 2 ^ sh) + (IF i = from + len THEN 0 ELSE p[i + 1] \div 2 ^ (HALF_BITS - sh))]

\* D3: the digit of the quotient is estimated from the leading digits.
RECURSIVE Shrink(_, _, _, _, _)
TooBig(qhat, rhat, uj2, v1, v2) ==
  IF rhat + v1 >= B THEN qhat - 1 ELSE Shrink(qhat - 1, rhat + v1, uj2, v1, v2)
Shrink(qhat, rhat, uj2, v1, v2) ==
  IF v2 * qhat > COMBINE(rhat, uj2) THEN TooBig(qhat, rhat, uj2, v1, v2) ELSE qhat
Estimate(uj0, uj1, uj2, v1, v2) ==
  IF uj0 = v1 THEN TooBig(B, uj1, uj2, v1, v2)
  ELSE Shrink(COMBINE(uj0, uj1) \div v1, COMBINE(uj0, uj1) % v1, uj2, v1, v2)

\* Mutant: qhat is taken to be right.
NoAddBack(u, at, v, n, qhat) ==
  LET t[i \in 1..(n + 1)] ==
        IF i = n + 1 THEN 0
        ELSE (B - HHALF((u[at + i] - v[i] * qhat - t[i + 1]) % W)) % B
  IN  [u |-> [x \in DOMAIN u |->
                IF x = at THEN LHALF((u[at] - t[1]) % W)
                ELSE IF x \in (at + 1)..(at + n)
                THEN LHALF((u[x] - v[x - at] * qhat - t[x - at + 1]) % W) ELSE u[x]],
       q |-> qhat]

\* D4 to D6: qhat * v[1..n] is subtracted from u[at..at+n], and v added back
\* when qhat was too large.
Subtract(u, at, v, n, qhat) ==
  LET t[i \in 1..(n + 1)] ==
        IF i = n + 1 THEN 0
        ELSE (B - HHALF((u[at + i] - v[i] * qhat - t[i + 1]) % W)) % B
      top == (u[at] - t[1]) % W
      u1  == [x \in DOMAIN u |->
                IF x = at THEN LHALF(top)
                ELSE IF x \in (at + 1)..(at + n)
                THEN LHALF((u[x] - v[x - at] * qhat - t[x - at + 1]) % W) ELSE u[x]]
      c[i \in 1..(n + 1)] ==
        IF i = n + 1 THEN 0 ELSE HHALF(c[i + 1] + u1[at + i] + v[i])
      u2  == [x \in DOMAIN u |->
                IF x = at THEN LHALF(u1[at] + c[1])
                ELSE IF x \in (at + 1)..(at + n) THEN LHALF(c[x - at + 1] + u1[x] + v[x - at])
                ELSE u1[x]]
  IN  IF HHALF(top) # 0 THEN [u |-> u2, q |-> qhat - 1] ELSE [u |-> u1, q |-> qhat]

Digits(x) == [i \in 0..4 |-> IF i = 0 THEN 0 ELSE (x \div B ^ (4 - i)) % B]
Number(d) == uu(COMBINE(d[1], d[2]), COMBINE(d[3], d[4]))

RECURSIVE ProgramD(_, _, _, _, _, _, _)
ProgramD(u, s, v, n, m, j, q) ==
  IF j > m THEN [u |-> u, q |-> q]
  ELSE LET Next1(r) == ProgramD(r.u, s, v, n, m, j + 1, [q EXCEPT ![4 - m + j] = r.q])
       IN  Next1(Subtract(u, s + j, v, n,
                          Estimate(u[s + j], u[s + j + 1], u[s + j + 2], v[1], v[2])))

\* A divisor of one digit: t.
ShortDivision(u, t) ==
  LET Step(x, digit) == <<Append(x[1], COMBINE(x[2], digit) \div t), COMBINE(x[2], digit) % t>>
      Result(x) == [q |-> Number([i \in 1..4 |-> x[1][i]]), r |-> x[2]]
  IN  Result(FoldLeft(Step, <<<<>>, 0>>, [i \in 1..4 |-> u[i]]))

\* D1 and D8: the digits are shifted so that the divisor's first is at least
\* half of B, and the remainder, from u[s + m], is shifted back.
Normalized(u, v, n, s, m, d) ==
  LET Result(x) ==
        [q |-> Number(x.q),
         r |-> Number([i \in 0..4 |->
                 IF d = 0 THEN x.u[i]
                 ELSE IF i \in (s + m + 1)..(s + m + n)
                 THEN (x.u[i] \div 2 ^ d) + LHALF(x.u[i - 1] * 2 ^ (HALF_BITS - d))
                 ELSE IF i = s + m THEN 0 ELSE x.u[i]])]
  IN  Result(ProgramD(IF d > 0 THEN shl(u, s, m + n, d) ELSE u, s,
                      IF d > 0 THEN shl(v, 1, n - 1, d) ELSE v, n, m, 0, [i \in 0..4 |-> 0]))
Shift(v1) ==
  CHOOSE d \in 0..(HALF_BITS - 1) :
    v1 * 2 ^ d >= B \div 2 /\ (d = 0 \/ v1 * 2 ^ (d - 1) < B \div 2)

\* The first digit of x that is not zero.
First(x) == CHOOSE i \in 1..4 : x[i] # 0 /\ \A j \in 1..(i - 1) : x[j] = 0
Divide(u, v, n, s) ==           \* u points to uspace[s], and v has n digits
  IF n = 1 THEN ShortDivision(u, v[1])
  ELSE Normalized(u, v, n, s, (4 - n) - s, Shift(v[1]))
__qdivrem(ull, vll) ==
  LET Long(u, v, n) == Divide(u, [i \in 1..n |-> v[4 - n + i]], n, First(u) - 1)
      Whole(u, v) == Long(u, v, 5 - First(v))
  IN  IF ull < vll THEN [q |-> 0, r |-> ull] ELSE Whole(Digits(ull), Digits(vll))

__udivdi3(a, b) == __qdivrem(a, b).q
__umoddi3(a, b) == __qdivrem(a, b).r
__divdi3(a, b) ==
  LET Sign(uq) == IF (Signed(a) < 0) # (Signed(b) < 0) THEN __negdi2(uq) ELSE uq
  IN  Sign(__qdivrem(Magnitude(a), Magnitude(b)).q)
__moddi3(a, b) ==
  LET Sign(ur) == IF Signed(a) < 0 THEN __negdi2(ur) ELSE ur
  IN  Sign(__qdivrem(Magnitude(a), Magnitude(b)).r)

(***************************************************************************)
(* The operands go through all pairs.                                      *)
(***************************************************************************)
VARIABLES a, b
vars == <<a, b>>
Init == a \in LL /\ b = 0
Next == b + 1 \in LL /\ b' = b + 1 /\ UNCHANGED a
Spec == Init /\ [][Next]_vars

\* The quotient and the remainder are those of the integers, unsigned and,
\* rounded towards zero, signed; the estimate of a digit that is too large
\* by one is put right.
DivisionExact ==
  b > 0 =>
    LET sa == Signed(a)
        sb == Signed(b)
        abs(x) == IF x < 0 THEN 0 - x ELSE x
    IN  /\ __udivdi3(a, b) = a \div b
        /\ __umoddi3(a, b) = a % b
        /\ __divdi3(a, b) = ((IF (sa < 0) # (sb < 0) THEN 0 - 1 ELSE 1)
                              * (abs(sa) \div abs(sb))) % (W * W)
        /\ __moddi3(a, b) = ((IF sa < 0 THEN 0 - 1 ELSE 1) * (abs(sa) % abs(sb))) % (W * W)

\* Sums, differences, products, shifts and comparisons are those of the
\* integers modulo the size of a long long, carries and signs included.
WordsExact ==
  LET N == W * W
  IN  /\ __adddi3(a, b) = (a + b) % N
      /\ __subdi3(a, b) = (a - b) % N
      /\ __muldi3(a, b) = (a * b) % N
      /\ __negdi2(a) = (0 - a) % N
      /\ __one_cmpldi2(a) = N - 1 - a
      /\ __anddi3(a, b) = (a & b) /\ __iordi3(a, b) = (a | b) /\ __xordi3(a, b) = (a ^^ b)
      /\ __ucmpdi2(a, b) = (IF a < b THEN 0 ELSE IF a > b THEN 2 ELSE 1)
      /\ __cmpdi2(a, b) = (IF Signed(a) < Signed(b) THEN 0 ELSE IF Signed(a) > Signed(b) THEN 2 ELSE 1)
      /\ b < 2 * INT_BITS =>
           /\ __ashldi3(a, b) = (a * 2 ^ b) % N
           /\ __lshldi3(a, b) = (a * 2 ^ b) % N
           /\ __lshrdi3(a, b) = a \div 2 ^ b
           /\ __ashrdi3(a, b) = (Signed(a) \div 2 ^ b) % N
=============================================================================
