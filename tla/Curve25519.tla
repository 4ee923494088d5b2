------------------------------ MODULE Curve25519 ------------------------------
(* X25519 and Ed25519 (src/stdlib/x25519/x25519.cpp, src/stdlib/ed25519/ed25519.cpp)
   for the field of 2^(Limb * Limbs - 1) - C elements.  The two files hold the same
   arithmetic.  An element is the sequence of its limbs, the least significant first,
   which may be negative or too large until Pack; a packed element or a scalar is the
   sequence of its limbs, where the code writes each limb of it as two bytes. *)
EXTENDS Integers, SequencesExt

CONSTANTS Limb, Limbs, C,          \* 16, 16, 19
          A24,                     \* of the Montgomery curve: 121665
          EdD, EdX, EdY, SqrtM1,   \* of the Edwards curve: D, the base point, a root of -1
          EdL                      \* the order of the base point, a little above a power of 2

Base == 2 ^ Limb
Bits == Limb * Limbs
FoldOver(op(_, _), start, n) ==    \* op for each of 1 .. n; a value is taken before the next step
    LET after[i \in 0 .. n] == IF i = 0 THEN start ELSE CHOOSE x \in {op(y, i) : y \in {after[i - 1]}} : TRUE
    IN  after[n]
List(n, op(_)) == SubSeq([i \in 1 .. n |-> op(i)], 1, n)       \* its values are taken here
BitOf(v, i) == (v \div 2 ^ i) % 2
Limbed(v) == List(Limbs, LAMBDA i : (v \div Base ^ (i - 1)) % Base)
Value(s) == FoldOver(LAMBDA v, i : v + s[i] * Base ^ (i - 1), 0, Len(s))

-----------------------------------------------------------------------------
(* The field. *)

Gf0 == Limbed(0)
Gf1 == Limbed(1)
CarryAround(o, back) ==
    FoldOver(LAMBDA x, i : LET c == x[i] \div Base IN
               List(Limbs, LAMBDA k : IF k = i THEN x[i] - c * Base ELSE IF k # (i % Limbs) + 1 THEN x[k]
                                      ELSE x[k] + c * (IF i = Limbs THEN back ELSE 1)), o, Limbs)
CarryPlain(o) == CarryAround(o, C)      \* mutant: the top bit that p does not have is forgotten
Carry(o) == CarryAround(o, 2 * C)       \* what leaves the top limb comes in at the bottom, times 2 * C
Plus(a, b) == List(Limbs, LAMBDA i : a[i] + b[i])
Minus(a, b) == List(Limbs, LAMBDA i : a[i] - b[i])
Product(a, b) == List(2 * Limbs, LAMBDA k :
    FoldOver(LAMBDA v, i : IF k - i \in 0 .. Limbs - 1 THEN v + a[i] * b[k - i + 1] ELSE v, 0, Limbs))
Mul(a, b) == CHOOSE r \in {Carry(Carry(List(Limbs, LAMBDA i : t[i] + 2 * C * t[i + Limbs]))) :
                              t \in {Product(x, y) : x \in {a}, y \in {b}}} : TRUE
Sqr(a) == Mul(a, a)
PowerOf(z, top, skipped) ==        \* square and multiply, the bits of the exponent 1 but for those skipped
    FoldOver(LAMBDA c, i : IF BitOf(skipped, top + 1 - i) = 1 THEN Sqr(c) ELSE Mul(Sqr(c), z), z, top + 1)
Invert(z) == PowerOf(z, Bits - 3, C + 1)                        \* z^(p - 2)
Pow2523(z) == PowerOf(z, Bits - 6, (C + 5) \div 8 - 1)          \* z^((p - 5) / 8)
Trial(t) ==                        \* t - p, or t if that is negative
    LET p == List(Limbs, LAMBDA i : IF i = 1 THEN Base - C ELSE IF i = Limbs THEN Base \div 2 - 1 ELSE Base - 1)
        m == FoldOver(LAMBDA acc, i : LET d == t[i] - p[i] - acc[2] IN <<Append(acc[1], d % Base), BitOf(d, Limb)>>,
                      <<<<>>, 0>>, Limbs)
    IN  IF m[2] = 1 THEN t ELSE m[1]
Pack(n) == Trial(Trial(Carry(Carry(Carry(n)))))
Unpack(s) == [s EXCEPT ![Limbs] = @ % (Base \div 2)]
Parity(a) == Pack(a)[1] % 2
Same(a, b) == Pack(a) = Pack(b)
Clamp(k) == (((k \div 8) * 8) % 2 ^ (Bits - 2)) + 2 ^ (Bits - 2)

-----------------------------------------------------------------------------
(* X25519: the ladder on x/z pairs, and <<>> where the result is all zero. *)

Swapped(bit, p) == IF bit = 1 THEN <<p[2], p[1]>> ELSE p
LadderStep(s, bit, x) ==           \* s: <<a, b, c, d>>, the pairs <<a, c>> and <<b, d>>
    LET ab == Swapped(bit, <<s[1], s[2]>>)
        cd == Swapped(bit, <<s[3], s[4]>>)
        e1 == Plus(ab[1], cd[1])
        a1 == Minus(ab[1], cd[1])
        c1 == Plus(ab[2], cd[2])
        b1 == Minus(ab[2], cd[2])
        d2 == Sqr(e1)
        f2 == Sqr(a1)
        a2 == Mul(c1, a1)
        c2 == Mul(b1, e1)
        c3 == Minus(d2, f2)
        out == Swapped(bit, <<Mul(d2, f2), Sqr(Plus(a2, c2))>>)
        low == Swapped(bit, <<Mul(c3, Plus(Mul(c3, Limbed(A24)), d2)), Mul(Sqr(Minus(a2, c2)), x)>>)
    IN  <<out[1], out[2], low[1], low[2]>>
ScalarMultX(k, point) ==
    LET x == Unpack(point)
        z == Clamp(k)
        s == FoldOver(LAMBDA s, i : LadderStep(s, BitOf(z, Bits - 1 - i), x), <<Gf1, x, Gf0, Gf1>>, Bits - 1)
    IN  Pack(Mul(s[1], Invert(s[3])))
X25519(k, point) == LET r == ScalarMultX(k, point) IN IF r = Gf0 THEN <<>> ELSE r

-----------------------------------------------------------------------------
(* Ed25519: points <<X, Y, Z, T>>. *)

EdAdd(p, q) ==
    LET a == Mul(Minus(p[2], p[1]), Minus(q[2], q[1]))
        b == Mul(Plus(p[1], p[2]), Plus(q[1], q[2]))
        c == Mul(Mul(p[4], q[4]), Limbed((2 * EdD) % (2 ^ (Bits - 1) - C)))
        d == Mul(p[3], q[3])
        d2 == Plus(d, d)
        e == Minus(b, a)
        f == Minus(d2, c)
        g == Plus(d2, c)
        h == Plus(b, a)
    IN  <<Mul(e, f), Mul(h, g), Mul(g, f), Mul(e, h)>>
PackPoint(p) ==                    \* y, with the parity of x in the top bit
    LET zi == Invert(p[3]) IN
    [Pack(Mul(p[2], zi)) EXCEPT ![Limbs] = @ + Parity(Mul(p[1], zi)) * (Base \div 2)]
ScalarMult(point, k) ==
    FoldOver(LAMBDA s, i : LET w == Swapped(BitOf(k, Bits - i), s)
                           IN  Swapped(BitOf(k, Bits - i), <<EdAdd(w[1], w[1]), EdAdd(w[2], w[1])>>),
             <<<<Gf0, Gf1, Gf1, Gf0>>, point>>, Bits)[1]
BasePoint == <<Limbed(EdX), Limbed(EdY), Gf1, Mul(Limbed(EdX), Limbed(EdY))>>
ScalarBase(k) == ScalarMult(BasePoint, k)

(* x modulo EdL, for 2 * Limbs digits: what is above EdL's power of 2 is folded in from
   the top, times the little that EdL exceeds it by, and the top digit once more. *)
LConst == Limbed(EdL)
TopBit == Max({b \in 0 .. Bits - 1 : 2 ^ b <= EdL})
Span == Limbs - 1                  \* digits that a fold changes: 20 of 32
ModL(digits) ==
    LET Low(x, i, carry, at) ==    \* one digit of a fold of x[i]
            LET v == x[at] + carry - 2 ^ (Bits - TopBit) * x[i] * LConst[at - (i - Limbs) + 1]
                next == (v + Base \div 2) \div Base
            IN  <<List(2 * Limbs, LAMBDA k : IF k = at THEN v - next * Base ELSE x[k]), next>>
        Fold(x, k) ==              \* k-th fold: of the digit i
            LET i == 2 * Limbs + 1 - k
                r == FoldOver(LAMBDA acc, j : Low(acc[1], i, acc[2], i - Limbs + j - 1), <<x, 0>>, Span)
            IN  List(2 * Limbs, LAMBDA j : IF j = i THEN 0 ELSE IF j = i - Limbs + Span THEN r[1][j] + r[2] ELSE r[1][j])
        folded == FoldOver(Fold, digits, Limbs)
        top == folded[Limbs] \div 2 ^ (TopBit % Limb)
        r == FoldOver(LAMBDA acc, j : LET v == folded[j] + acc[2] - top * LConst[j] IN <<Append(acc[1], v % Base), v \div Base>>,
                      <<<<>>, 0>>, Limbs)
        last == FoldOver(LAMBDA acc, j : LET v == r[1][j] - r[2] * LConst[j] + acc[2] IN <<Append(acc[1], v % Base), v \div Base>>,
                         <<<<>>, 0>>, Limbs)
    IN  last[1]
ScalarIsCanonical(s) == \E i \in DOMAIN s : s[i] < LConst[i] /\ \A j \in i + 1 .. Limbs : s[j] = LConst[j]

UnpackNeg(s) ==                    \* {the negative of the point that s packs}
    LET y == Unpack(s)
        num == Minus(Sqr(y), Gf1)
        den == Plus(Gf1, Mul(Sqr(y), Limbed(EdD)))
        den2 == Sqr(den)
        den6 == Mul(Sqr(den2), den2)
        t == Pow2523(Mul(Mul(den6, num), den))
        x == Mul(Mul(Mul(Mul(t, num), den), den), den)
        Root(r) == Same(Mul(Sqr(r), den), num)
        x2 == IF Root(x) THEN x ELSE Mul(x, Limbed(SqrtM1))
        neg == IF Parity(x2) = s[Limbs] \div (Base \div 2) THEN Minus(Gf0, x2) ELSE x2
    IN  IF Root(x2) THEN {<<neg, y, Gf1, Mul(neg, y)>>} ELSE {}

Sha512(s) ==                       \* 2 * Limbs digits: any function that depends on every digit
    List(2 * Limbs, LAMBDA k : FoldOver(LAMBDA h, i : (h * (4 * k + 1) + s[i] + k) % Base, 7 * k, Len(s)))
Half(d, k) == SubSeq(d, (k - 1) * Limbs + 1, k * Limbs)
PublicKey(seed) == PackPoint(ScalarBase(Clamp(Value(Half(Sha512(seed), 1)))))
Sign(seed, message) ==
    LET d == Sha512(seed)
        a == Limbed(Clamp(Value(Half(d, 1))))
        r == ModL(Sha512(Half(d, 2) \o message))
        R == PackPoint(ScalarBase(Value(r)))
        h == ModL(Sha512(R \o PublicKey(seed) \o message))
        x == List(2 * Limbs, LAMBDA k : (IF k <= Limbs THEN r[k] ELSE 0) + Product(h, a)[k])
    IN  R \o ModL(x)
Verify(public, message, sig) ==
    /\ Len(public) = Limbs /\ Len(sig) = 2 * Limbs
    /\ ScalarIsCanonical(Half(sig, 2))
    /\ \E q \in UnpackNeg(public) :
         LET h == ModL(Sha512(Half(sig, 1) \o public \o message))
         IN  PackPoint(EdAdd(ScalarMult(q, Value(h)), ScalarBase(Value(Half(sig, 2))))) = Half(sig, 1)

-----------------------------------------------------------------------------
(* What this is for, in integers modulo Prime: the affine group laws of the Montgomery
   and the Edwards curve, and the signatures as equations in the group. *)

Prime == 2 ^ (Bits - 1) - C
RECURSIVE Raised(_, _)
Raised(a, k) == IF k = 0 THEN 1 ELSE LET h == Raised(a, k \div 2) IN (((h * h) % Prime) * (IF k % 2 = 1 THEN a ELSE 1)) % Prime
Inverse0(a) == Raised(a % Prime, Prime - 2)

(* Multiples by doubling and adding, for any addition. *)
Multiple(sum(_, _), none, k, a) ==
    FoldOver(LAMBDA s, i : LET twice == sum(s, s) IN IF BitOf(k, Bits - i) = 1 THEN sum(twice, a) ELSE twice, none, Bits)

(* A point <<u, 1>> of D * y^2 = x^3 + A * x^2 + x, where D is what makes it one. *)
Infinity == <<>>
OnLine(u) == (((u * u) % Prime) * u + (4 * A24 + 2) * ((u * u) % Prime) + u) % Prime
MontgomerySum(D, a, b) ==
    LET A == 4 * A24 + 2
        slope == IF a = b THEN (((3 * ((a[1] * a[1]) % Prime) + 2 * A * a[1] + 1) % Prime) * Inverse0((2 * D * a[2]) % Prime)) % Prime
                 ELSE (((b[2] - a[2]) % Prime) * Inverse0(b[1] - a[1])) % Prime
        x == (D * ((slope * slope) % Prime) - A - a[1] - b[1]) % Prime
    IN  IF a = Infinity THEN b ELSE IF b = Infinity THEN a
        ELSE IF a[1] = b[1] /\ (a # b \/ a[2] = 0) THEN Infinity
        ELSE <<x, (slope * ((a[1] - x) % Prime) - a[2]) % Prime>>
(* The shared secret is the x-coordinate of a multiple of the other side's point, by a
   multiple of 8 with the top bit set; a point that this takes to infinity is refused. *)
SecretIsTheMultiple(k, point) ==
    LET u == (Value(point) % 2 ^ (Bits - 1)) % Prime
        D == OnLine(u)
        n == 2 ^ (Bits - 2) + 8 * ((k \div 8) % 2 ^ (Bits - 5))
        r == Multiple(LAMBDA a, b : MontgomerySum(D, a, b), Infinity, n, <<u, 1>>)
    IN  X25519(k, point) = IF D = 0 \/ r = Infinity \/ r[1] = 0 THEN <<>> ELSE Limbed(r[1])

(* Ed25519 *)
EdSum(a, b) ==
    LET t == (((EdD * ((a[1] * b[1]) % Prime)) % Prime) * ((a[2] * b[2]) % Prime)) % Prime
    IN  <<(((a[1] * b[2] + a[2] * b[1]) % Prime) * Inverse0(1 + t)) % Prime, (((a[2] * b[2] + a[1] * b[1]) % Prime) * Inverse0(1 - t)) % Prime>>
EdTimes(k, a) == Multiple(EdSum, <<0, 1>>, k, a)
Encoded(a) == Limbed(a[2] + (a[1] % 2) * 2 ^ (Bits - 1))
Decoded(s) ==                      \* {the point}; a sign on x = 0 is not looked at
    LET y == (Value(s) % 2 ^ (Bits - 1)) % Prime
        x2 == (((y * y - 1) % Prime) * Inverse0(EdD * ((y * y) % Prime) + 1)) % Prime
        root == {r \in {Raised(x2, (Prime + 3) \div 8), (Raised(x2, (Prime + 3) \div 8) * SqrtM1) % Prime} : (r * r) % Prime = x2}
    IN  {<<IF r % 2 = Value(s) \div 2 ^ (Bits - 1) \/ r = 0 THEN r ELSE Prime - r, y>> : r \in root}
Remainder(digits) == FoldOver(LAMBDA v, i : (v * Base + digits[Len(digits) + 1 - i]) % EdL, 0, Len(digits))
Neg(a) == <<(Prime - a[1]) % Prime, a[2]>>
(* A signature is accepted exactly if its scalar is below the order and S * B = R + h * A
   in the packed form of R; the signature of a key's owner is accepted, and no longer
   once the order is added to its scalar. *)
SignatureIsTheEquation(public, message, sig) ==
    LET S == Value(Half(sig, 2))
        h == Remainder(Sha512(Half(sig, 1) \o public \o message))
    IN  Verify(public, message, sig)
          = (S < EdL /\ \E A \in Decoded(public) :
                Half(sig, 1) = Encoded(EdSum(EdTimes(S, <<EdX, EdY>>), Neg(EdTimes(h, A)))))
OwnersSignatureIsAccepted(seed, message) ==
    LET sig == Sign(seed, message)
        a == Clamp(Value(Half(Sha512(seed), 1)))
        S == Value(Half(sig, 2))
    IN  /\ PublicKey(seed) = Encoded(EdTimes(a, <<EdX, EdY>>))
        /\ Verify(PublicKey(seed), message, sig)
        /\ ~Verify(PublicKey(seed), message, Half(sig, 1) \o Limbed(S + EdL))
        /\ Value(ModL(Sha512(message))) = Remainder(Sha512(message))
=============================================================================
