--------------------------------- MODULE Ec ---------------------------------
(* The ECDSA machinery that p256 and p384 share (src/stdlib/p256/ec_core.hpp) with
   the signing of p256.cpp, for limbs of any width and any curve y^2 = x^3 - 3x + B.
   A value is the sequence of its limbs, the least significant first.  What the code
   selects by a mask is an IF here: that both sides take equally long is not a
   property of states. *)
EXTENDS Integers, SequencesExt

CONSTANTS Limb, Limbs,       \* bits of a limb (64), limbs of a value (4, 6)
          Byte,              \* bits of a byte (8), of which a limb holds a whole number
          P, N, B, GX, GY,   \* the curve
          MaxAttempts        \* nonces that are tried: 64

Base == 2 ^ Limb
Bits == Limb * Limbs
Bytes == Bits \div Byte
FoldOver(op(_, _), start, n) ==      \* op for each of 1 .. n; a value is taken before the next step
    LET after[i \in 0 .. n] == IF i = 0 THEN start ELSE CHOOSE x \in {op(y, i) : y \in {after[i - 1]}} : TRUE
    IN  after[n]

ToLimbs(n) == [i \in 1 .. Limbs |-> (n \div Base ^ (i - 1)) % Base]
Zero == ToLimbs(0)
One == ToLimbs(1)
IsZero(a) == \A i \in DOMAIN a : a[i] = 0
Bit(a, i) == (a[(i \div Limb) + 1] \div 2 ^ (i % Limb)) % 2         \* of the bits 0, 1, ...

(* Limb by limb with a carry, which is -1 where the code has a borrow. *)
Carried(digit(_)) ==
    FoldOver(LAMBDA acc, i : LET d == digit(i) + acc[2] IN <<Append(acc[1], d % Base), d \div Base>>, <<<<>>, 0>>, Limbs)
AddCarry(a, b) == Carried(LAMBDA i : a[i] + b[i])
SubBorrow(a, b) == Carried(LAMBDA i : a[i] - b[i])
Difference(a, b) == SubBorrow(a, b)[1]
Geq(a, b) == SubBorrow(a, b)[2] = 0
Reduced(a, top, m) == IF top # 0 \/ Geq(a, m) THEN Difference(a, m) ELSE a

-----------------------------------------------------------------------------
(* Montgomery arithmetic modulo M.m, R = 2^Bits. *)

MontMul(a, b, M) ==
    LET Plus(t, x, k) == Carried(LAMBDA i : t[i] + x[i] * k)
        Step(t, i) ==        \* t + a * b[i], made a multiple of the base and divided by it
            LET u == Plus(t, a, b[i])
                s == t[Limbs + 1] + u[2]
                v == Plus(u[1], M.m, (u[1][1] * M.n0) % Base)
                s2 == (s % Base) + v[2]
            IN  Tail(v[1]) \o <<s2 % Base, (s \div Base) + (s2 \div Base)>>
        t == FoldOver(Step, [i \in 1 .. Limbs + 1 |-> 0], Limbs)
    IN  Reduced(SubSeq(t, 1, Limbs), t[Limbs + 1], M.m)
MontAddNoCarry(a, b, M) == Reduced(AddCarry(a, b)[1], 0, M.m)        \* mutant
MontAdd(a, b, M) == Reduced(AddCarry(a, b)[1], AddCarry(a, b)[2], M.m)
MontSub(a, b, M) == LET d == SubBorrow(a, b) IN IF d[2] = 0 THEN d[1] ELSE AddCarry(d[1], M.m)[1]
ToMont(a, M) == MontMul(a, M.rr, M)
FromMont(a, M) == MontMul(a, One, M)
MontInv(a, M) ==             \* a^(m - 2)
    FoldOver(LAMBDA x, i : <<IF Bit(Difference(M.m, ToLimbs(2)), i - 1) = 1 THEN MontMul(x[1], x[2], M) ELSE x[1],
                             MontMul(x[2], x[2], M)>>, <<M.one, a>>, Bits)[1]
InvWord(a) == FoldOver(LAMBDA x, i : (x * (2 - a * x)) % Base, a, 5)
MakeMont(m) ==
    LET rr == FoldOver(LAMBDA x, i : LET d == AddCarry(x, x) IN Reduced(d[1], d[2], m), One, 2 * Bits)
        M == [m |-> m, rr |-> rr, one |-> Zero, n0 |-> (0 - InvWord(m[1])) % Base]
    IN  [M EXCEPT !.one = MontMul(One, rr, M)]
Fp == MakeMont(ToLimbs(P))
Fn == MakeMont(ToLimbs(N))

-----------------------------------------------------------------------------
(* Jacobian points, x = X / Z^2 and y = Y / Z^3, in Montgomery form. *)

Mul(a, b) == MontMul(a, b, Fp)
Plus(a, b) == MontAdd(a, b, Fp)
Minus(a, b) == MontSub(a, b, Fp)
Twice(a) == Plus(a, a)
Infinity == [X |-> Fp.one, Y |-> Fp.one, Z |-> Zero, inf |-> TRUE]
AtInfinity(q) == q.inf \/ IsZero(q.Z)

Doubled(q) ==                \* the formula, with the flag left to the caller
    LET A == Mul(q.X, q.X)
        Y2 == Mul(q.Y, q.Y)
        C == Mul(Y2, Y2)
        XB == Plus(q.X, Y2)
        D == Twice(Minus(Minus(Mul(XB, XB), A), C))
        ZZ == Mul(q.Z, q.Z)
        t == Mul(Minus(q.X, ZZ), Plus(q.X, ZZ))
        E == Plus(Twice(t), t)
        X3 == Minus(Minus(Mul(E, E), D), D)
    IN  [X |-> X3, Y |-> Minus(Mul(E, Minus(D, X3)), Twice(Twice(Twice(C)))), Z |-> Twice(Mul(q.Y, q.Z)), inf |-> FALSE]
JacDouble(q) == IF AtInfinity(q) THEN Infinity ELSE Doubled(q)
Flagged(q) == [q EXCEPT !.inf = IsZero(q.Z)]
JacDoubleCt(q) == Flagged(Doubled(q))

Chord(a, b) ==               \* the formula for two points that differ, and its H and R
    LET aZZ == Mul(a.Z, a.Z)
        bZZ == Mul(b.Z, b.Z)
        U1 == Mul(a.X, bZZ)
        S1 == Mul(a.Y, Mul(b.Z, bZZ))
        H == Minus(Mul(b.X, aZZ), U1)
        R == Minus(Mul(b.Y, Mul(a.Z, aZZ)), S1)
        HH == Mul(H, H)
        HHH == Mul(HH, H)
        V == Mul(U1, HH)
        X3 == Minus(Minus(Minus(Mul(R, R), HHH), V), V)
    IN  [H |-> H, R |-> R, sum |-> [X |-> X3, Y |-> Minus(Mul(R, Minus(V, X3)), Mul(S1, HHH)),
                                    Z |-> Mul(Mul(a.Z, b.Z), H), inf |-> FALSE]]
JacAdd(a, b) ==
    LET c == Chord(a, b)
    IN  CASE AtInfinity(a) -> b
          [] ~AtInfinity(a) /\ AtInfinity(b) -> a
          [] ~AtInfinity(a) /\ ~AtInfinity(b) /\ IsZero(c.H) -> IF IsZero(c.R) THEN JacDouble(a) ELSE Infinity
          [] OTHER -> c.sum
Cmov(r, a, m) == IF m THEN Flagged(a) ELSE Flagged(r)
JacAddCt(a, b) ==            \* the last selection is the one that counts
    LET c == Chord(a, b)
        r1 == Cmov(c.sum, JacDoubleCt(a), IsZero(c.H) /\ IsZero(c.R))
        r2 == Cmov(r1, Infinity, IsZero(c.H) /\ ~IsZero(c.R))
        r3 == Cmov(r2, a, IsZero(b.Z))
    IN  Cmov(r3, b, IsZero(a.Z))

AffineToJac(x, y) == [X |-> ToMont(x, Fp), Y |-> ToMont(y, Fp), Z |-> Fp.one, inf |-> FALSE]
BasePoint == AffineToJac(ToLimbs(GX), ToLimbs(GY))
JacAffine(q) ==              \* <<x, y>>, out of Montgomery form
    LET z == MontInv(q.Z, Fp)
        z2 == Mul(z, z)
    IN  <<FromMont(Mul(q.X, z2), Fp), FromMont(Mul(q.Y, Mul(z2, z)), Fp)>>

JacDoubleMul(u1, a, u2, b) ==    \* u1 * a + u2 * b, two bits of both at a time
    LET Multiples(q) == <<Infinity, q, JacDouble(q), JacAdd(JacDouble(q), q)>>
        as == Multiples(a)
        bs == Multiples(b)
        table == [i, j \in 0 .. 3 |-> IF i = 0 THEN bs[j + 1] ELSE IF j = 0 THEN as[i + 1] ELSE JacAdd(as[i + 1], bs[j + 1])]
        Window(u, i) == (u[(i \div Limb) + 1] \div 2 ^ (i % Limb)) % 4
        Step(acc, k) == LET i == Bits - 2 * k
                            w == <<Window(u1, i), Window(u2, i)>>
                            t == JacDouble(JacDouble(acc))
                        IN  IF w = <<0, 0>> THEN t ELSE JacAdd(t, table[w])
    IN  FoldOver(Step, Infinity, Bits \div 2)

GComb ==                     \* for a set of limbs, the sum of 2^(Limb * (i - 1)) * G over it
    LET shifted == FoldOver(LAMBDA gs, i : Append(gs, FoldOver(LAMBDA q, k : JacDouble(q), Last(gs), Limb)),
                            <<BasePoint>>, Limbs - 1)
    IN  [s \in SUBSET (1 .. Limbs) |-> FoldOver(LAMBDA acc, i : IF i \in s THEN JacAdd(acc, shifted[i]) ELSE acc, Infinity, Limbs)]
JacMulBase(k) ==             \* k * G: bit j of every limb at a time
    FoldOver(LAMBDA acc, step : JacAddCt(JacDoubleCt(acc), Flagged(GComb[{i \in 1 .. Limbs : Bit(k, Limb * i - step) = 1}])),
             Infinity, Limb)

(* The checks of the branch-free operations that the tests run.  The sweep's operands a and
   b are any limbs; both are brought into the field first. *)
CtFieldSelfcheck(a, b) ==
    LET m == Fp.m
        RefAdd(x, y) == LET s == AddCarry(x, y)
                            t == SubBorrow(s[1], m)
                        IN  IF s[2] # 0 \/ t[2] = 0 THEN t[1] ELSE s[1]
        RefSub(x, y) == LET d == SubBorrow(x, y) IN IF d[2] # 0 THEN AddCarry(d[1], m)[1] ELSE d[1]
        Agree(x, y) == MontAdd(x, y, Fp) = RefAdd(x, y) /\ MontSub(x, y, Fp) = RefSub(x, y)
        ar == MontMul(a, Fp.one, Fp)
        br == MontMul(b, Fp.one, Fp)
    IN  /\ \A x, y \in {Zero, One, Difference(m, One), m, Fp.rr} : Agree(x, y)
        /\ Agree(ar, br) /\ ~Geq(MontMul(ar, br, Fp), m)
CtAddSelfcheck ==
    LET g2 == JacDouble(BasePoint)
        p == JacAdd(g2, BasePoint)
        q == JacAdd(JacDouble(g2), BasePoint)
        AffineEq(u, v) == IF IsZero(u.Z) \/ IsZero(v.Z) THEN IsZero(u.Z) = IsZero(v.Z) ELSE JacAffine(u) = JacAffine(v)
    IN  /\ AffineEq(JacAddCt(p, q), JacAdd(p, q)) /\ AffineEq(JacAddCt(p, p), JacDouble(p))
        /\ IsZero(JacAddCt(p, [p EXCEPT !.Y = Minus(Zero, p.Y)]).Z)
        /\ AffineEq(JacAddCt(Infinity, p), p) /\ AffineEq(JacAddCt(p, Infinity), p)
        /\ IsZero(JacAddCt(Infinity, Infinity).Z)
        /\ AffineEq(JacDoubleCt(p), JacDouble(p)) /\ IsZero(JacDoubleCt(Infinity).Z)

-----------------------------------------------------------------------------
(* Bytes, the most significant first. *)

BeToFe(b) == [limb \in 1 .. Limbs |->
    FoldLeft(LAMBDA v, x : v * 2 ^ Byte + x, 0, SubSeq(b, (Limbs - limb) * (Limb \div Byte) + 1, (Limbs - limb + 1) * (Limb \div Byte)))]
FeToBe(a) == [k \in 1 .. Bytes |-> LET place == Byte * (Bytes - k) IN
    (a[(place \div Limb) + 1] \div 2 ^ (place % Limb)) % 2 ^ Byte]
ReduceModN(v) == Reduced(v, 0, ToLimbs(N))
HashToScalar(h) ==           \* the leftmost bytes, or a short digest as a number
    ReduceModN(BeToFe(IF Len(h) >= Bytes THEN SubSeq(h, 1, Bytes) ELSE [i \in 1 .. Bytes - Len(h) |-> 0] \o h))

SeqTag == 48
IntTag == 2
LongForm == 2 ^ (Byte - 1)
At(s, i) == IF i \in DOMAIN s THEN s[i] ELSE -1
RECURSIVE Stripped(_)
Stripped(v) == IF Len(v) > 1 /\ v[1] = 0 THEN Stripped(Tail(v)) ELSE v
ReadInt(der, i) ==           \* {<<the integer in all its bytes, the place after it>>}, {} if there is none
    LET len == At(der, i + 1)
        v == Stripped(SubSeq(der, i + 2, i + 1 + len))
    IN  IF At(der, i) # IntTag \/ len \notin 1 .. LongForm - 1 \/ i + 1 + len > Len(der) \/ Len(v) > Bytes THEN {}
        ELSE {<<[k \in 1 .. Bytes - Len(v) |-> 0] \o v, i + 2 + len>>}
DerToRs(der) ==
    IF At(der, 1) # SeqTag \/ At(der, 2) \notin 0 .. LongForm - 1 \/ At(der, 2) + 2 # Len(der) THEN {}
    ELSE UNION {{r[1] \o s[1] : s \in ReadInt(der, r[2])} : r \in ReadInt(der, 3)}
RsToDer(raw) ==
    LET Encoded(v) == LET w == Stripped(v)
                          signed == IF w[1] >= LongForm THEN <<0>> \o w ELSE w
                      IN  <<IntTag, Len(signed)>> \o signed
        r == SubSeq(raw, 1, Bytes)
        s == SubSeq(raw, Bytes + 1, 2 * Bytes)
    IN  IF Len(raw) # 2 * Bytes \/ IsZero(r) \/ IsZero(s) THEN <<>>
        ELSE <<SeqTag, Len(Encoded(r)) + Len(Encoded(s))>> \o Encoded(r) \o Encoded(s)

(* The key in a certificate: BIT STRING, its length, no unused bits, uncompressed. *)
SpkiEcPoint(der) ==
    LET starts == {i \in 1 .. Len(der) - 2 * Bytes - 3 :
                     der[i] = 3 /\ der[i + 1] = 2 * Bytes + 2 /\ der[i + 2] = 0 /\ der[i + 3] = 4}
    IN  IF starts = {} THEN <<>> ELSE SubSeq(der, Min(starts) + 4, Min(starts) + 3 + 2 * Bytes)

-----------------------------------------------------------------------------
(* ECDSA.  A key, a digest and a signature are bytes; <<>> is the failure of a call. *)

OnCurve(x, y) ==
    LET xm == ToMont(x, Fp)
        ym == ToMont(y, Fp)
    IN  Mul(ym, ym) = Plus(Minus(Mul(Mul(xm, xm), xm), Plus(Twice(xm), xm)), ToMont(ToLimbs(B), Fp))
Scalar(a) == ~IsZero(a) /\ ~Geq(a, ToLimbs(N))
Halves(s) == <<BeToFe(SubSeq(s, 1, Bytes)), BeToFe(SubSeq(s, Bytes + 1, 2 * Bytes))>>
VerifyRaw(pubkey, hash, sig) ==
    LET r == Halves(sig)[1]
        s == Halves(sig)[2]
        x == Halves(pubkey)[1]
        y == Halves(pubkey)[2]
        w == MontInv(ToMont(s, Fn), Fn)
        Over(v) == FromMont(MontMul(ToMont(v, Fn), w, Fn), Fn)
        q == JacDoubleMul(Over(HashToScalar(hash)), BasePoint, Over(r), AffineToJac(x, y))
    IN  /\ Len(pubkey) = 2 * Bytes /\ Len(sig) = 2 * Bytes
        /\ Scalar(r) /\ Scalar(s)
        /\ ~Geq(x, ToLimbs(P)) /\ ~Geq(y, ToLimbs(P)) /\ OnCurve(x, y)
        /\ ~AtInfinity(q) /\ ReduceModN(JacAffine(q)[1]) = r
VerifyDer(pubkey, hash, der) == \E raw \in DerToRs(der) : VerifyRaw(pubkey, hash, raw)

(* candidates: the nonces the HMAC generator of RFC 6979 comes up with, in bytes. *)
Attempt(d, e, k) ==          \* the signature this nonce gives, <<>> if it will not do
    LET R == JacMulBase(k)
        r == ReduceModN(JacAffine(R)[1])
        s == FromMont(MontMul(MontInv(ToMont(k, Fn), Fn),
                              MontAdd(ToMont(e, Fn), MontMul(ToMont(r, Fn), ToMont(d, Fn), Fn), Fn), Fn), Fn)
    IN  IF ~Scalar(k) \/ AtInfinity(R) \/ IsZero(r) \/ IsZero(s) THEN <<>> ELSE FeToBe(r) \o FeToBe(s)
SignRaw(privkey, hash, candidates) ==
    LET d == BeToFe(privkey)
        tries == [i \in 1 .. Min({MaxAttempts, Len(candidates)}) |-> Attempt(d, HashToScalar(hash), BeToFe(candidates[i]))]
        good == {i \in DOMAIN tries : tries[i] # <<>>}
    IN  IF Len(privkey) # Bytes \/ ~Scalar(d) \/ good = {} THEN <<>> ELSE tries[Min(good)]
PublicFromPrivate(privkey) ==
    LET d == BeToFe(privkey)
        q == JacMulBase(d)
    IN  IF Len(privkey) # Bytes \/ ~Scalar(d) \/ AtInfinity(q) THEN <<>>
        ELSE FeToBe(JacAffine(q)[1]) \o FeToBe(JacAffine(q)[2])

-----------------------------------------------------------------------------
(* The field and the group as mathematics has them, numbers modulo P and multiples of G,
   and what the arithmetic above owes to them. *)

Value(a) == FoldOver(LAMBDA v, i : v + a[i] * Base ^ (i - 1), 0, Limbs)
RECURSIVE Power(_, _, _)
Power(a, k, m) == IF k = 0 THEN 1 ELSE LET h == Power(a, k \div 2, m)
                                            hh == (h * h) % m
                                        IN  IF k % 2 = 1 THEN (hh * a) % m ELSE hh
InverseOf(a, m) == Power(a % m, m - 2, m)

None == <<>>                 \* the point at infinity of the affine points <<x, y>>
Sum(a, b) ==
    LET slope == IF a = b THEN ((3 * a[1] * a[1] - 3) % P) * InverseOf(2 * a[2], P)
                 ELSE ((b[2] - a[2]) % P) * InverseOf(b[1] - a[1], P)
        l == slope % P
        x == (l * l - a[1] - b[1]) % P
    IN  IF a = None THEN b ELSE IF b = None THEN a
        ELSE IF a[1] = b[1] /\ (a[2] + b[2]) % P = 0 THEN None
        ELSE <<x, (l * (a[1] - x) - a[2]) % P>>
RECURSIVE Times(_)
Times(k) == IF k = 0 THEN None
            ELSE LET h == Times(k \div 2) IN IF k % 2 = 1 THEN Sum(Sum(h, h), <<GX, GY>>) ELSE Sum(h, h)
Multiple(k) == Times(k % N)  \* k * G

(* The arithmetic is modular, in both of its fields, for values that are reduced. *)
FieldIsModular(a, b) == \A m \in {P, N} : \A M \in {MakeMont(ToLimbs(m))} :
    LET x == ToLimbs(a % m)
        y == ToLimbs(b % m)
        Is(r, v) == r = ToLimbs(v % m)
    IN  /\ Is(MontAdd(x, y, M), (a % m) + (b % m)) /\ Is(MontSub(x, y, M), a - b)
        /\ Is(FromMont(ToMont(x, M), M), a)
        /\ Is(FromMont(MontMul(ToMont(x, M), ToMont(y, M), M), M), (a % m) * (b % m))
        /\ a % m # 0 => Is(FromMont(MontInv(ToMont(x, M), M), M), InverseOf(a, m))
        /\ FeToBe(x) = [k \in 1 .. Bytes |-> ((a % m) \div 2 ^ (Byte * (Bytes - k))) % 2 ^ Byte] /\ BeToFe(FeToBe(x)) = x

(* A point of the code stands for a multiple of G, whatever its Z, and both kinds of
   addition and doubling and both kinds of multiplication add in the group. *)
Scaled(k, z) ==              \* k * G with this Z
    LET p == Multiple(k)
        M(v) == ToMont(ToLimbs(v % P), Fp)
        zz == (z * z) % P
    IN  IF p = None THEN Infinity ELSE [X |-> M(p[1] * zz), Y |-> M(((p[2] * zz) % P) * z), Z |-> M(z), inf |-> FALSE]
Stands(q, k) ==
    IF Multiple(k) = None THEN AtInfinity(q)
    ELSE ~AtInfinity(q) /\ JacAffine(q) = <<ToLimbs(Multiple(k)[1]), ToLimbs(Multiple(k)[2])>>
GroupIsCyclic(i, j, y, z) ==
    LET a == Scaled(i, y)
        b == Scaled(j, z)
    IN  /\ Stands(a, i) /\ Stands(JacAdd(a, b), i + j) /\ Stands(JacAddCt(a, b), i + j)
        /\ Stands(JacDouble(a), 2 * i) /\ Stands(JacDoubleCt(a), 2 * i)
        /\ JacDoubleCt(a).inf = IsZero(JacDoubleCt(a).Z) /\ JacAddCt(a, b).inf = IsZero(JacAddCt(a, b).Z)

(* ECDSA as the standard has it, over numbers: what is signed verifies, in both
   encodings and only for its digest and key; a nonce that will not do is passed over;
   and verify accepts what the equation of the standard accepts. *)
Number(b) == FoldLeft(LAMBDA v, x : v * 2 ^ Byte + x, 0, b)
Digest(h) == Number(SubSeq(h, 1, Min({Bytes, Len(h)}))) % N
InBytes(n) == FeToBe(ToLimbs(n))
Signature(d, e, k) ==        \* <<>> or <<r, s>>
    LET r == IF k \in 1 .. N - 1 THEN Multiple(k)[1] % N ELSE 0
        s == (InverseOf(k, N) * ((e + r * d) % N)) % N
    IN  IF r = 0 \/ s = 0 THEN <<>> ELSE <<r, s>>
Accepts(q, e, r, s) ==       \* q = d * G
    LET w == InverseOf(s, N)
        R == Multiple(((e * w) % N) + ((((r * w) % N) * q) % N))
    IN  r \in 1 .. N - 1 /\ s \in 1 .. N - 1 /\ R # None /\ R[1] % N = r
SignedIsVerified(d, hash, ks) ==
    LET private == InBytes(d)
        public == PublicFromPrivate(private)
        sig == SignRaw(private, hash, [i \in DOMAIN ks |-> InBytes(ks[i])])
        good == SelectSeq(ks, LAMBDA k : Signature(d, Digest(hash), k) # <<>>)
        expected == Signature(d, Digest(hash), good[1])
    IN  IF d \notin 1 .. N - 1 THEN public = <<>> /\ sig = <<>>
        ELSE /\ public = InBytes(Multiple(d)[1]) \o InBytes(Multiple(d)[2])
             /\ SpkiEcPoint(<<SeqTag, 3, 4, 3, 2 * Bytes + 2, 0, 4>> \o public) = public
             /\ IF good = <<>> THEN sig = <<>>
                ELSE /\ sig = InBytes(expected[1]) \o InBytes(expected[2])
                     /\ DerToRs(RsToDer(sig)) = {sig}
                     /\ VerifyRaw(public, hash, sig) /\ VerifyDer(public, hash, RsToDer(sig))
VerifyIsTheEquation(q, hash, r, s) ==
    LET p == Multiple(q)
        Verify(x, y) == VerifyRaw(InBytes(x) \o InBytes(y), hash, InBytes(r) \o InBytes(s))
    IN  p # None => /\ Verify(p[1], p[2]) = Accepts(q, Digest(hash), r, s)
                    /\ (2 * p[2] + 1) % P # 0 => ~Verify(p[1], (p[2] + 1) % P)      \* not on the curve
=============================================================================
