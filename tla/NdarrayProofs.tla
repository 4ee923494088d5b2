---------------------------- MODULE NdarrayProofs ----------------------------
(* Theorems about Ndarray for any program, any shapes and any bounds of slices:  *)
(* no view and no block leaves its buffer, a statement changes only what it      *)
(* writes to by name and the views that expire in it, and what it computes is    *)
(* what it means on functions from indices to numbers (Numpy).                   *)
EXTENDS Numpy, FiniteSetTheorems, WellFoundedInduction, TLAPS

(* Induction over the numbers from 0 to n: a set that holds 0 and, with a        *)
(* number, the next one holds them all.                                          *)
LEMMA Counting ==
  ASSUME NEW n \in Nat, NEW T, 0 \in T, \A k \in 1 .. n : k - 1 \in T => k \in T
  PROVE  \A k \in 0 .. n : k \in T
<1> DEFINE Bad == {k \in 0 .. n : k \notin T}
           R == OpToRel(<, Nat)
<1>1. SUFFICES ASSUME Bad # {} PROVE FALSE
  OBVIOUS
<1>2. IsWellFoundedOn(R, Nat)
  BY NatLessThanWellFounded
<1>3. \A k, j \in Nat : <<j, k>> \in R <=> j < k
  BY DEF OpToRel
<1> HIDE DEF R
<1>4. PICK k \in Bad : \A j \in Bad : ~(<<j, k>> \in R)
  <2>1. Bad \subseteq Nat
    OBVIOUS
  <2> HIDE DEF Bad
  <2> QED
    BY <1>1, <1>2, <2>1, WFMin
<1>5. k \in 1 .. n /\ k - 1 \in 0 .. n /\ k - 1 \in Nat /\ k - 1 < k
  BY <1>4
<1>6. k - 1 \notin Bad
  <2>1. <<k - 1, k>> \in R
    <3> HIDE DEF Bad
    <3> QED
      BY <1>3, <1>5
  <2> HIDE DEF Bad
  <2> QED
    BY <1>4, <2>1
<1> QED
  BY <1>4, <1>5, <1>6

(* A recursive function from its first value and one step for each number.       *)
Runs(X, n, c, s, f) == f \in [0 .. n -> X] /\ f[0] = c /\ \A k \in 1 .. n : f[k] = s[k][f[k - 1]]
LEMMA Recursion ==
  ASSUME NEW X, NEW n \in Nat, NEW c \in X, NEW s \in [1 .. n -> [X -> X]]
  PROVE  \E f \in [0 .. n -> X] : Runs(X, n, c, s, f)
<1> DEFINE T == {m \in 0 .. n : \E f \in [0 .. m -> X] : Runs(X, m, c, s, f)}
<1>1. 0 \in T
  <2> DEFINE f == [k \in 0 .. 0 |-> c]
  <2>1. Runs(X, 0, c, s, f) /\ f \in [0 .. 0 -> X]
    BY DEF Runs
  <2> HIDE DEF f
  <2> QED
    BY <2>1
<1>2. ASSUME NEW m \in 1 .. n, m - 1 \in T PROVE m \in T
  <2>1. m - 1 \in 0 .. n /\ m \in 0 .. n
    OBVIOUS
  <2>2. PICK f \in [0 .. m - 1 -> X] : Runs(X, m - 1, c, s, f)
    BY <1>2
  <2> DEFINE g == [k \in 0 .. m |-> IF k = m THEN s[m][f[m - 1]] ELSE f[k]]
  <2>3. s[m][f[m - 1]] \in X
    BY <2>1, <2>2
  <2>4. g \in [0 .. m -> X]
    BY <2>1, <2>2, <2>3
  <2>5. g[0] = c
    BY <2>1, <2>2 DEF Runs
  <2>6. ASSUME NEW k \in 1 .. m PROVE g[k] = s[k][g[k - 1]]
    <3>1. CASE k = m
      BY <2>1, <3>1
    <3>2. CASE k # m
      <4>1. k \in 1 .. m - 1 /\ k - 1 \in 0 .. m - 1 /\ k - 1 # m
        BY <2>1, <3>2
      <4>2. f[k] = s[k][f[k - 1]]
        BY <2>2, <4>1 DEF Runs
      <4> QED
        BY <3>2, <4>1, <4>2
    <3> QED
      BY <3>1, <3>2
  <2>7. Runs(X, m, c, s, g)
    BY <2>4, <2>5, <2>6 DEF Runs
  <2> HIDE DEF g
  <2> QED
    BY <2>1, <2>4, <2>7
<1>3. n \in T
  <2> HIDE DEF T
  <2>1. n \in 0 .. n
    OBVIOUS
  <2> QED
    BY <1>1, <1>2, <2>1, Counting
<1> QED
  BY <1>3

-----------------------------------------------------------------------------
(* Shapes, strides and positions: the recursive definitions have the values they *)
(* say, for every shape of natural numbers.                                      *)
Counts == Nat \union {TooLarge}
LEMMA TimesIs ==
  ASSUME NEW t \in Counts, NEW d \in Nat PROVE Times(t, d) \in Counts
BY DEF Times, Counts

LEMMA ProductsAre ==
  ASSUME NEW shape \in Seq(Nat)
  PROVE  LET t == Products(shape) IN
           /\ t \in [0 .. Len(shape) -> Counts]
           /\ t[0] = 1
           /\ \A k \in 1 .. Len(shape) : t[k] = Times(t[k - 1], shape[k])
<1> DEFINE n == Len(shape)
           s == [k \in 1 .. n |-> [x \in Counts |-> Times(x, shape[k])]]
           F(t) == [k \in 0 .. n |-> IF k = 0 THEN 1 ELSE Times(t[k - 1], shape[k])]
           p == Products(shape)
<1>1. n \in Nat /\ \A k \in 1 .. n : shape[k] \in Nat
  OBVIOUS
<1>2. s \in [1 .. n -> [Counts -> Counts]]
  BY <1>1, TimesIs
<1>3. 1 \in Counts
  BY DEF Counts
<1>4. PICK f \in [0 .. n -> Counts] : Runs(Counts, n, 1, s, f)
  <2> HIDE DEF n, s
  <2> QED
    BY <1>1, <1>2, <1>3, Recursion
<1>5. \A k \in 1 .. n : f[k] = Times(f[k - 1], shape[k])
  <2>1. \A k \in 1 .. n : k - 1 \in 0 .. n
    BY <1>1
  <2> QED
    BY <1>4, <2>1 DEF Runs
<1>6. f = F(f)
  BY <1>4, <1>5 DEF Runs
<1>7. p = F(p)
  BY <1>6 DEF Products
<1>8. p[0] = 1 /\ \A k \in 1 .. n : p[k] = Times(p[k - 1], shape[k])
  <2>1. 0 \in 0 .. n /\ \A k \in 1 .. n : k \in 0 .. n /\ k # 0
    BY <1>1
  <2> HIDE DEF p, n
  <2> QED
    BY <1>7, <2>1
<1>9. \A k \in 0 .. n : p[k] \in Counts
  <2> DEFINE T == {k \in 0 .. n : p[k] \in Counts}
  <2> HIDE DEF p
  <2>1. 0 \in T
    BY <1>1, <1>3, <1>8
  <2>2. ASSUME NEW k \in 1 .. n, k - 1 \in T PROVE k \in T
    <3>1. p[k] = Times(p[k - 1], shape[k]) /\ p[k - 1] \in Counts /\ shape[k] \in Nat /\ k \in 0 .. n
      BY <1>1, <1>8, <2>2
    <3>2. p[k] \in Counts
      BY <3>1, TimesIs
    <3> QED
      BY <3>1, <3>2
  <2> HIDE DEF T
  <2>3. \A k \in 0 .. n : k \in T
    BY <1>1, <2>1, <2>2, Counting
  <2> QED
    BY <2>3 DEF T
<1>10. p \in [0 .. n -> Counts]
  <2> HIDE DEF p, n
  <2> QED
    BY <1>7, <1>9
<1> HIDE DEF p
<1> QED
  BY <1>8, <1>10 DEF p

LEMMA StridesAre ==
  ASSUME NEW shape \in Seq(Nat)
  PROVE  LET st == ContiguousStrides(shape) n == Len(shape) IN
           /\ st \in [1 .. n -> Nat] /\ st \in Seq(Nat) /\ Len(st) = n
           /\ n > 0 => st[n] = 1
           /\ \A k \in 1 .. n - 1 : st[k] = st[k + 1] * shape[k + 1]
<1> DEFINE n == Len(shape)
           s == [k \in 1 .. n |-> [x \in Nat |-> IF k = 1 THEN 1 ELSE x * shape[n - k + 2]]]
           F(t) == [i \in DOMAIN shape |-> IF i = Len(shape) THEN 1 ELSE t[i + 1] * shape[i + 1]]
           p == ContiguousStrides(shape)
<1>1. n \in Nat /\ DOMAIN shape = 1 .. n /\ \A k \in 1 .. n : shape[k] \in Nat
  OBVIOUS
<1>2. s \in [1 .. n -> [Nat -> Nat]]
  <2>1. ASSUME NEW k \in 1 .. n, NEW x \in Nat PROVE (IF k = 1 THEN 1 ELSE x * shape[n - k + 2]) \in Nat
    <3>1. k # 1 => n - k + 2 \in 1 .. n
      BY <1>1
    <3>2. k # 1 => shape[n - k + 2] \in Nat
      BY <1>1, <3>1
    <3> QED
      BY <3>2
  <2> QED
    BY <2>1
<1>0. n \in Nat
  OBVIOUS
<1> HIDE DEF n
<1>3. PICK f \in [0 .. n -> Nat] : Runs(Nat, n, 1, s, f)
  <2> HIDE DEF s
  <2> QED
    BY <1>0, <1>2, Recursion
<1> DEFINE g == [i \in 1 .. n |-> f[n + 1 - i]]
<1>4. ASSUME NEW i \in 1 .. n PROVE g[i] = IF i = n THEN 1 ELSE g[i + 1] * shape[i + 1]
  <2>1. PICK j \in 1 .. n : j = n + 1 - i
    BY <1>0
  <2>2. j - 1 \in 0 .. n /\ n - j + 2 = i + 1
    BY <1>0, <2>1
  <2>3. f[j] = s[j][f[j - 1]]
    BY <1>3 DEF Runs
  <2>4. f[j] = IF j = 1 THEN 1 ELSE f[j - 1] * shape[i + 1]
    BY <1>3, <2>2, <2>3
  <2>5. i # n => i + 1 \in 1 .. n /\ n + 1 - (i + 1) = j - 1
    BY <1>0, <2>1
  <2>6. (j = 1) <=> (i = n)
    BY <1>0, <2>1
  <2>7. i # n => g[i + 1] = f[j - 1]
    BY <2>5
  <2>8. g[i] = f[j]
    BY <2>1
  <2> HIDE DEF s, g
  <2> QED
    BY <2>4, <2>6, <2>7, <2>8
<1>5. g = F(g)
  BY <1>1, <1>4 DEF n
<1>6. p = F(p)
  BY <1>5 DEF ContiguousStrides
<1>7. \A i \in 1 .. n : p[i] = IF i = n THEN 1 ELSE p[i + 1] * shape[i + 1]
  BY <1>1, <1>6 DEF n
<1> HIDE DEF p
<1>8. \A i \in 1 .. n : p[i] \in Nat
  <2> DEFINE T == {k \in 0 .. n : k > 0 => p[n + 1 - k] \in Nat}
  <2>1. 0 \in T
    BY <1>1
  <2>2. ASSUME NEW k \in 1 .. n, k - 1 \in T PROVE k \in T
    <3>1. n + 1 - k \in 1 .. n /\ (k = 1 <=> n + 1 - k = n)
      BY <1>1
    <3>2. CASE k = 1
      <4>1. n \in 1 .. n /\ n + 1 - k = n
        BY <3>1, <3>2
      <4>2. p[n] = 1
        BY <1>7, <4>1
      <4>3. p[n + 1 - k] \in Nat
        BY <4>1, <4>2
      <4> QED
        BY <4>3
    <3>3. CASE k # 1
      <4>1. p[n + 1 - (k - 1)] \in Nat
        BY <2>2, <3>3
      <4>2. n + 1 - (k - 1) = n + 1 - k + 1 /\ n + 1 - k + 1 \in 1 .. n
        BY <1>1, <3>3
      <4>3. p[n + 1 - k] = p[n + 1 - k + 1] * shape[n + 1 - k + 1]
        BY <1>7, <3>1, <3>3
      <4>4. shape[n + 1 - k + 1] \in Nat /\ p[n + 1 - k + 1] \in Nat
        BY <1>1, <4>1, <4>2
      <4> QED
        BY <4>3, <4>4
    <3> QED
      BY <3>2, <3>3
  <2> HIDE DEF T
  <2>3. \A k \in 0 .. n : k \in T
    BY <1>1, <2>1, <2>2, Counting
  <2>4. ASSUME NEW i \in 1 .. n PROVE p[i] \in Nat
    <3>1. n + 1 - i \in 0 .. n /\ n + 1 - i > 0 /\ n + 1 - (n + 1 - i) = i
      BY <1>1
    <3> QED
      BY <2>3, <3>1 DEF T
  <2> QED
    BY <2>4
<1>9. p \in [1 .. n -> Nat]
  BY <1>1, <1>6, <1>8
<1>10. p \in Seq(Nat) /\ Len(p) = n
  BY <1>1, <1>9
<1>11. n > 0 => p[n] = 1
  <2>1. n > 0 => n \in 1 .. n
    BY <1>0
  <2> QED
    BY <1>7, <2>1
<1>12. \A k \in 1 .. n - 1 : p[k] = p[k + 1] * shape[k + 1]
  <2>1. \A k \in 1 .. n - 1 : k \in 1 .. n /\ k # n
    BY <1>0
  <2> QED
    BY <1>7, <2>1
<1> QED
  BY <1>9, <1>10, <1>11, <1>12 DEF p, n

Views == [buffer : Nat, shape : Seq(Nat), strides : Seq(Nat), offset : Nat]
Shaped(a) == a \in Views /\ Len(a.strides) = Len(a.shape)

LEMMA OffsetsAre ==
  ASSUME NEW a, Shaped(a), NEW ix \in Seq(Int), Len(ix) = Len(a.shape)
  PROVE  LET off == Offsets(a, ix) IN
           /\ off \in [0 .. Len(ix) -> Int]
           /\ off[0] = a.offset
           /\ \A k \in 1 .. Len(ix) : off[k] = off[k - 1] + ix[k] * a.strides[k]
<1> DEFINE n == Len(ix)
           s == [k \in 1 .. n |-> [x \in Int |-> x + ix[k] * a.strides[k]]]
           F(t) == [k \in 0 .. n |-> IF k = 0 THEN a.offset ELSE t[k - 1] + ix[k] * a.strides[k]]
           p == Offsets(a, ix)
<1>1. n \in Nat /\ a.offset \in Int /\ \A k \in 1 .. n : ix[k] \in Int /\ a.strides[k] \in Int
  BY DEF Shaped, Views
<1>2. s \in [1 .. n -> [Int -> Int]]
  BY <1>1
<1>3. PICK f \in [0 .. n -> Int] : Runs(Int, n, a.offset, s, f)
  <2> HIDE DEF n, s
  <2> QED
    BY <1>1, <1>2, Recursion
<1>4. \A k \in 1 .. n : f[k] = f[k - 1] + ix[k] * a.strides[k]
  <2>1. \A k \in 1 .. n : k - 1 \in 0 .. n
    BY <1>1
  <2> QED
    BY <1>3, <2>1 DEF Runs
<1>5. f = F(f)
  BY <1>3, <1>4 DEF Runs
<1>6. p = F(p)
  BY <1>5 DEF Offsets
<1>7. p[0] = a.offset /\ \A k \in 1 .. n : p[k] = p[k - 1] + ix[k] * a.strides[k]
  <2>1. 0 \in 0 .. n /\ \A k \in 1 .. n : k \in 0 .. n /\ k # 0
    BY <1>1
  <2> HIDE DEF p, n
  <2> QED
    BY <1>6, <2>1
<1> HIDE DEF p
<1>8. \A k \in 0 .. n : p[k] \in Int
  <2> DEFINE T == {k \in 0 .. n : p[k] \in Int}
  <2>1. 0 \in T
    BY <1>1, <1>7
  <2>2. ASSUME NEW k \in 1 .. n, k - 1 \in T PROVE k \in T
    <3>1. p[k] = p[k - 1] + ix[k] * a.strides[k] /\ p[k - 1] \in Int
      BY <1>7, <2>2
    <3>4. \A u \in Seq(Int) : Len(u) = n => u[k] \in Int
      BY <1>1
    <3>5. k \in 0 .. n
      BY <1>1
    <3>2. ix[k] \in Int /\ a.strides[k] \in Int /\ k \in 0 .. n
      BY <1>1, <3>4, <3>5
    <3>3. p[k] \in Int
      BY <3>1, <3>2
    <3> QED
      BY <3>2, <3>3
  <2> HIDE DEF T
  <2>3. \A k \in 0 .. n : k \in T
    BY <1>1, <2>1, <2>2, Counting
  <2> QED
    BY <2>3 DEF T
<1>9. p \in [0 .. n -> Int]
  <2> HIDE DEF n
  <2> QED
    BY <1>6, <1>8
<1> QED
  BY <1>7, <1>9 DEF p

(* A count that fits is exact: no partial product on the way was too large.      *)
LEMMA ExactPrefixes ==
  ASSUME NEW shape \in Seq(Nat), Product(shape) # TooLarge
  PROVE  LET t == Products(shape) IN
           /\ \A k \in 0 .. Len(shape) : t[k] \in Nat
           /\ \A k \in 1 .. Len(shape) : t[k] = t[k - 1] * shape[k]
<1> DEFINE n == Len(shape)
           p == Products(shape)
           T == {k \in 0 .. n : p[n - k] \in Nat}
<1>1. n \in Nat /\ \A k \in 1 .. n : shape[k] \in Nat
  OBVIOUS
<1>2. p \in [0 .. n -> Counts] /\ \A k \in 1 .. n : p[k] = Times(p[k - 1], shape[k])
  BY ProductsAre
<1>3. p[n] \in Nat
  <2>1. p[n] \in Counts
    BY <1>1, <1>2
  <2> QED
    BY <2>1 DEF Product, Counts
<1> HIDE DEF p, n
<1>4. 0 \in T
  BY <1>1, <1>3
<1>5. ASSUME NEW k \in 1 .. n, k - 1 \in T PROVE k \in T
  <2>1. PICK j \in 1 .. n : j = n - (k - 1)
    BY <1>1
  <2>2. p[j] \in Nat /\ n - k = j - 1 /\ j - 1 \in 0 .. n
    BY <1>1, <1>5, <2>1
  <2>3. p[j] = Times(p[j - 1], shape[j]) /\ p[j - 1] \in Counts
    BY <1>2, <2>2
  <2>4. p[j - 1] # TooLarge
    BY <2>2, <2>3 DEF Times, TooLarge
  <2> QED
    BY <2>2, <2>3, <2>4 DEF Counts
<1>6. ASSUME NEW k \in 0 .. n PROVE p[k] \in Nat
  <2>1. \A j \in 0 .. n : j \in T
    <3> HIDE DEF T
    <3> QED
      BY <1>1, <1>4, <1>5, Counting
  <2>2. n - k \in 0 .. n /\ n - (n - k) = k
    BY <1>1
  <2> QED
    BY <2>1, <2>2
<1>7. ASSUME NEW k \in 1 .. n PROVE p[k] = p[k - 1] * shape[k]
  <2>1. k \in 0 .. n /\ k - 1 \in 0 .. n
    BY <1>1
  <2>2. p[k] = Times(p[k - 1], shape[k]) /\ p[k] \in Nat /\ p[k - 1] \in Nat
    BY <1>2, <1>6, <2>1
  <2> QED
    BY <2>2 DEF Times, TooLarge
<1> QED
  BY <1>6, <1>7 DEF p, n

LEMMA Regroup == ASSUME NEW x \in Nat, NEW y \in Nat, NEW z \in Nat PROVE x * (y * z) = (x * z) * y
OBVIOUS

(* The first stride of a contiguous shape spans its whole block.                 *)
LEMMA WholeBlock ==
  ASSUME NEW shape \in Seq(Nat), Len(shape) > 0, Product(shape) # TooLarge
  PROVE  ContiguousStrides(shape)[1] * shape[1] = Product(shape)
<1> DEFINE n == Len(shape)
           p == Products(shape)
           st == ContiguousStrides(shape)
           T == {k \in 0 .. n - 1 : p[n - k] * st[n - k] = p[n]}
<1>1. n \in Nat /\ n - 1 \in Nat /\ n \in 1 .. n /\ 1 \in 1 .. n /\ \A k \in 1 .. n : shape[k] \in Nat
  OBVIOUS
<1>2. /\ \A k \in 0 .. n : p[k] \in Nat
      /\ \A k \in 1 .. n : p[k] = p[k - 1] * shape[k]
  BY ExactPrefixes
<1>3. /\ \A k \in 1 .. n : st[k] \in Nat
      /\ st[n] = 1
      /\ \A k \in 1 .. n - 1 : st[k] = st[k + 1] * shape[k + 1]
  BY <1>1, StridesAre
<1>4. p[0] = 1
  BY ProductsAre
<1>5. Product(shape) = p[n]
  BY DEF Product
<1> HIDE DEF p, n, st
<1>6. 0 \in T
  <2>1. p[n] * 1 = p[n] /\ n - 0 = n
    BY <1>1, <1>2
  <2> QED
    BY <1>1, <1>3, <2>1
<1>7. ASSUME NEW k \in 1 .. n - 1, k - 1 \in T PROVE k \in T
  <2>1. PICK m \in 1 .. n - 1 : m = n - k
    BY <1>1
  <2>2. m + 1 = n - (k - 1) /\ m + 1 \in 1 .. n /\ m \in 1 .. n /\ m + 1 - 1 = m /\ m \in 0 .. n
    BY <1>1, <2>1
  <2>3. p[m + 1] * st[m + 1] = p[n]
    BY <1>7, <2>2
  <2>4. p[m + 1] = p[m] * shape[m + 1] /\ st[m] = st[m + 1] * shape[m + 1]
    BY <1>2, <1>3, <2>2
  <2>5. p[m] \in Nat /\ shape[m + 1] \in Nat /\ st[m + 1] \in Nat
    BY <1>1, <1>2, <1>3, <2>2
  <2>6. p[m] * (st[m + 1] * shape[m + 1]) = (p[m] * shape[m + 1]) * st[m + 1]
    BY <2>5, Regroup
  <2>7. p[m] * st[m] = p[n]
    BY <2>3, <2>4, <2>6
  <2> QED
    BY <2>1, <2>7
<1>8. p[1] * st[1] = p[n]
  <2>1. \A k \in 0 .. n - 1 : k \in T
    <3> HIDE DEF T
    <3> QED
      BY <1>1, <1>6, <1>7, Counting
  <2>2. n - 1 \in 0 .. n - 1 /\ n - (n - 1) = 1
    BY <1>1
  <2> QED
    BY <2>1, <2>2
<1>9. p[1] = shape[1]
  <2>1. p[1] = p[0] * shape[1] /\ shape[1] \in Nat
    BY <1>1, <1>2
  <2> QED
    BY <1>4, <2>1
<1>10. st[1] \in Nat /\ shape[1] \in Nat
  BY <1>1, <1>3
<1>11. st[1] * shape[1] = shape[1] * st[1]
  BY <1>10
<1> QED
  BY <1>5, <1>8, <1>9, <1>11 DEF st

LEMMA IndicesAre ==
  ASSUME NEW shape \in Seq(Nat), NEW ix
  PROVE  ix \in Indices(shape) <=> ix \in [1 .. Len(shape) -> Nat] /\ \A i \in 1 .. Len(shape) : ix[i] < shape[i]
<1> DEFINE n == Len(shape)
           U == UNION {0 .. shape[i] - 1 : i \in DOMAIN shape}
<1>1. n \in Nat /\ DOMAIN shape = 1 .. n /\ \A i \in 1 .. n : shape[i] \in Nat
  OBVIOUS
<1>2. U \subseteq Nat
  BY <1>1
<1>3. ASSUME NEW i \in 1 .. n, NEW d \in Nat, d < shape[i] PROVE d \in U
  <2>1. d \in 0 .. shape[i] - 1
    BY <1>1, <1>3
  <2> QED
    BY <1>1, <2>1
<1>4. ix \in Indices(shape) <=> ix \in [1 .. n -> U] /\ \A i \in 1 .. n : ix[i] < shape[i]
  BY <1>1 DEF Indices
<1> HIDE DEF n, U
<1>5. ix \in [1 .. n -> U] => ix \in [1 .. n -> Nat]
  BY <1>2
<1>6. ix \in [1 .. n -> Nat] /\ (\A i \in 1 .. n : ix[i] < shape[i]) => ix \in [1 .. n -> U]
  BY <1>3
<1> QED
  BY <1>4, <1>5, <1>6 DEF n

LEMMA IndexSeq ==
  ASSUME NEW shape \in Seq(Nat), NEW ix \in Indices(shape)
  PROVE  ix \in Seq(Nat) /\ ix \in Seq(Int) /\ Len(ix) = Len(shape) /\ \A i \in 1 .. Len(shape) : ix[i] \in Nat /\ ix[i] < shape[i]
<1>1. ix \in [1 .. Len(shape) -> Nat] /\ \A i \in 1 .. Len(shape) : ix[i] < shape[i]
  BY IndicesAre
<1>2. Len(shape) \in Nat
  OBVIOUS
<1>3. ASSUME NEW n \in Nat, NEW f \in [1 .. n -> Nat]
      PROVE  f \in Seq(Nat) /\ f \in Seq(Int) /\ Len(f) = n /\ \A i \in 1 .. n : f[i] \in Nat
  <2>1. f \in Seq(Nat) /\ Len(f) = n
    OBVIOUS
  <2>2. f \in [1 .. n -> Int]
    OBVIOUS
  <2> QED
    BY <2>1, <2>2
<1> QED
  BY <1>1, <1>2, <1>3

(* Positions of the indices of a view: partial sums of natural numbers.          *)
LEMMA OffsetsOfIndex ==
  ASSUME NEW a, Shaped(a), NEW ix \in Indices(a.shape)
  PROVE  LET off == Offsets(a, ix) n == Len(a.shape) IN
           /\ \A k \in 0 .. n : off[k] \in Nat
           /\ off[0] = a.offset
           /\ \A k \in 1 .. n : off[k] = off[k - 1] + ix[k] * a.strides[k]
           /\ Position(a, ix) = off[n]
<1> DEFINE n == Len(a.shape)
           off == Offsets(a, ix)
           T == {k \in 0 .. n : off[k] \in Nat}
<1>1. a.shape \in Seq(Nat) /\ n \in Nat /\ a.offset \in Nat /\ \A k \in 1 .. n : a.strides[k] \in Nat
  BY DEF Shaped, Views
<1>2. ix \in Seq(Int) /\ Len(ix) = n /\ \A k \in 1 .. n : ix[k] \in Nat
  BY <1>1, IndexSeq
<1>3. off[0] = a.offset /\ \A k \in 1 .. n : off[k] = off[k - 1] + ix[k] * a.strides[k]
  BY <1>2, OffsetsAre
<1>4. Position(a, ix) = off[n]
  BY <1>2 DEF Position
<1> HIDE DEF off, n
<1>5. 0 \in T
  BY <1>1, <1>3
<1>6. ASSUME NEW k \in 1 .. n, k - 1 \in T PROVE k \in T
  <2>1. off[k - 1] \in Nat /\ ix[k] \in Nat /\ a.strides[k] \in Nat /\ k \in 0 .. n
    BY <1>1, <1>2, <1>6
  <2>2. ix[k] * a.strides[k] \in Nat
    BY <2>1
  <2>3. off[k] \in Nat
    BY <1>3, <2>1, <2>2
  <2> QED
    BY <2>1, <2>3
<1>7. \A k \in 0 .. n : k \in T
  <2> HIDE DEF T
  <2> QED
    BY <1>1, <1>5, <1>6, Counting
<1> QED
  BY <1>3, <1>4, <1>7 DEF off, n

LEMMA PositionNat ==
  ASSUME NEW a, Shaped(a), NEW ix \in Indices(a.shape)
  PROVE  Position(a, ix) \in Nat
<1>1. Len(a.shape) \in Nat /\ Len(a.shape) \in 0 .. Len(a.shape)
  BY DEF Shaped, Views
<1> QED
  BY <1>1, OffsetsOfIndex

LEMMA ScaledLess ==
  ASSUME NEW x \in Nat, NEW y \in Nat, NEW z \in Nat, x < y
  PROVE  x * z + z <= y * z
<1>1. PICK d \in Nat : y = x + 1 + d
  <2>1. y - x - 1 \in Nat /\ y = x + 1 + (y - x - 1)
    OBVIOUS
  <2> QED
    BY <2>1
<1>2. y * z = x * z + z + d * z
  BY <1>1
<1>3. d * z \in Nat /\ x * z \in Nat
  OBVIOUS
<1> QED
  BY <1>2, <1>3

(* In a contiguous view the indices fill one block: no position is behind it.    *)
LEMMA BlockBound ==
  ASSUME NEW a, Shaped(a), IsContiguous(a), Size(a) # TooLarge, NEW ix \in Indices(a.shape)
  PROVE  Position(a, ix) \in Nat /\ a.offset <= Position(a, ix) /\ Position(a, ix) + 1 <= a.offset + Size(a)
<1> DEFINE n == Len(a.shape)
           off == Offsets(a, ix)
           T == {k \in 0 .. n : off[k] >= a.offset}
           U == {k \in 0 .. n : k > 0 => off[k] + a.strides[k] <= a.offset + Size(a)}
<1>1. a.shape \in Seq(Nat) /\ n \in Nat /\ a.offset \in Nat
  BY DEF Shaped, Views
<1>2. \A k \in 1 .. n : ix[k] \in Nat /\ ix[k] < a.shape[k] /\ a.shape[k] \in Nat
  BY <1>1, IndexSeq
<1>3. /\ \A k \in 0 .. n : off[k] \in Nat
      /\ off[0] = a.offset
      /\ \A k \in 1 .. n : off[k] = off[k - 1] + ix[k] * a.strides[k]
      /\ Position(a, ix) = off[n]
  BY OffsetsOfIndex
<1>4. a.strides = ContiguousStrides(a.shape)
  BY DEF IsContiguous
<1>5. /\ \A k \in 1 .. n : a.strides[k] \in Nat
      /\ n > 0 => a.strides[n] = 1
      /\ \A k \in 1 .. n - 1 : a.strides[k] = a.strides[k + 1] * a.shape[k + 1]
  BY <1>1, <1>4, StridesAre
<1>6. n > 0 => a.strides[1] * a.shape[1] = Size(a)
  BY <1>1, <1>4, WholeBlock DEF Size
<1>7. n = 0 => Size(a) = 1
  <2>1. Products(a.shape)[0] = 1
    BY <1>1, ProductsAre
  <2> QED
    BY <2>1 DEF Size, Product
<1>8. Size(a) \in Nat
  <2>1. \A k \in 0 .. n : Products(a.shape)[k] \in Nat
    BY <1>1, ExactPrefixes DEF Size
  <2> QED
    BY <1>1, <2>1 DEF Size, Product
<1> HIDE DEF off, n
<1>9. ASSUME NEW k \in 1 .. n, k - 1 \in T PROVE k \in T
  <2>1. off[k - 1] \in Nat /\ ix[k] \in Nat /\ a.strides[k] \in Nat /\ k \in 0 .. n /\ off[k - 1] >= a.offset
    BY <1>2, <1>3, <1>5, <1>9
  <2>2. ix[k] * a.strides[k] \in Nat
    BY <2>1
  <2>3. off[k] >= a.offset
    BY <1>1, <1>3, <2>1, <2>2
  <2> QED
    BY <2>1, <2>3
<1>10. off[n] >= a.offset
  <2>1. 0 \in T
    BY <1>1, <1>3
  <2>2. \A k \in 0 .. n : k \in T
    <3> HIDE DEF T
    <3> QED
      BY <1>1, <1>9, <2>1, Counting
  <2>3. n \in 0 .. n
    BY <1>1
  <2> QED
    BY <2>2, <2>3
<1>11. ASSUME NEW k \in 1 .. n, k - 1 \in U PROVE k \in U
  <2>0. k \in 0 .. n /\ k - 1 \in 0 .. n
    BY <1>1
  <2>1. off[k - 1] \in Nat /\ ix[k] \in Nat /\ a.strides[k] \in Nat /\ a.shape[k] \in Nat /\ ix[k] < a.shape[k]
    BY <1>2, <1>3, <1>5, <2>0
  <2>2. ix[k] * a.strides[k] + a.strides[k] <= a.shape[k] * a.strides[k]
    BY <2>1, ScaledLess
  <2>3. off[k] = off[k - 1] + ix[k] * a.strides[k]
    BY <1>3
  <2>4. a.shape[k] * a.strides[k] = a.strides[k] * a.shape[k] /\ ix[k] * a.strides[k] \in Nat /\ a.strides[k] * a.shape[k] \in Nat
    BY <2>1
  <2>5. off[k - 1] + a.strides[k] * a.shape[k] <= a.offset + Size(a)
    <3>1. CASE k = 1
      <4>1. a.strides[1] * a.shape[1] = Size(a) /\ off[0] = a.offset /\ k - 1 = 0
        BY <1>1, <1>3, <1>6, <3>1
      <4> QED
        BY <1>1, <1>8, <3>1, <4>1
    <3>2. CASE k # 1
      <4>1. k - 1 \in 1 .. n - 1 /\ k - 1 + 1 = k /\ k - 1 > 0
        BY <1>1, <3>2
      <4>2. off[k - 1] + a.strides[k - 1] <= a.offset + Size(a)
        BY <1>11, <4>1
      <4>3. a.strides[k - 1] = a.strides[k] * a.shape[k]
        BY <1>5, <4>1
      <4> QED
        BY <4>2, <4>3
    <3> QED
      BY <3>1, <3>2
  <2>6. off[k] + a.strides[k] <= a.offset + Size(a)
    <3>1. PICK x \in Nat : x = ix[k] * a.strides[k]
      BY <2>4
    <3>2. PICK y \in Nat : y = a.strides[k] * a.shape[k]
      BY <2>4
    <3>3. x + a.strides[k] <= y /\ off[k] = off[k - 1] + x /\ off[k - 1] + y <= a.offset + Size(a)
      BY <2>2, <2>3, <2>4, <2>5, <3>1, <3>2
    <3>4. PICK s \in Nat : s = a.strides[k]
      BY <2>1
    <3>5. PICK q \in Nat : q = off[k - 1]
      BY <2>1
    <3>6. PICK w \in Nat : w = a.offset + Size(a)
      BY <1>1, <1>8
    <3>7. x + s <= y /\ q + y <= w
      BY <3>3, <3>4, <3>5, <3>6
    <3>8. q + x + s <= w
      BY <3>7
    <3> QED
      BY <3>3, <3>4, <3>5, <3>6, <3>8
  <2> QED
    BY <2>0, <2>6
<1>12. off[n] + 1 <= a.offset + Size(a)
  <2>1. 0 \in U
    BY <1>1
  <2>2. \A k \in 0 .. n : k \in U
    <3> HIDE DEF U
    <3> QED
      BY <1>1, <1>11, <2>1, Counting
  <2>3. n \in 0 .. n
    BY <1>1
  <2>4. CASE n > 0
    BY <1>5, <2>2, <2>3, <2>4
  <2>5. CASE n = 0
    BY <1>1, <1>3, <1>7, <2>5
  <2> QED
    BY <1>1, <2>4, <2>5
<1>13. off[n] \in Nat
  BY <1>1, <1>3
<1> QED
  BY <1>3, <1>10, <1>12, <1>13

(* The odometer.                                                                 *)
LEMMA GreatestOf ==
  ASSUME NEW n \in Nat, NEW S, S \subseteq 1 .. n, S # {}
  PROVE  \E m \in S : \A j \in S : j <= m
<1> DEFINE T == {k \in 0 .. n : \E j \in S : j > k}
<1>1. SUFFICES ASSUME \A m \in S : \E j \in S : ~(j <= m) PROVE FALSE
  OBVIOUS
<1>2. 0 \in T
  <2>1. PICK j \in S : TRUE
    OBVIOUS
  <2>2. j \in 1 .. n /\ j > 0 /\ 0 \in 0 .. n
    OBVIOUS
  <2> QED
    BY <2>2
<1>3. ASSUME NEW k \in 1 .. n, k - 1 \in T PROVE k \in T
  <2>1. PICK j \in S : j > k - 1
    BY <1>3
  <2>2. j \in 1 .. n /\ (j = k \/ j > k) /\ k \in 0 .. n
    BY <2>1
  <2>3. CASE j = k
    <3>1. PICK i \in S : ~(i <= k)
      BY <1>1, <2>3
    <3>2. i > k
      BY <2>2, <3>1
    <3> QED
      BY <2>2, <3>2
  <2>4. CASE j > k
    BY <2>2, <2>4
  <2> QED
    BY <2>2, <2>3, <2>4
<1>4. n \in T
  <2>1. n \in 0 .. n
    OBVIOUS
  <2> HIDE DEF T
  <2> QED
    BY <1>2, <1>3, <2>1, Counting
<1>5. PICK j \in S : j > n
  BY <1>4
<1>6. j \in 1 .. n
  OBVIOUS
<1> QED
  BY <1>5, <1>6

Rank(shape, ix) == Position(Contiguous(0, shape), ix)
LEMMA ContiguousIs ==
  ASSUME NEW shape \in Seq(Nat), NEW b \in Nat
  PROVE  LET a == Contiguous(b, shape) IN
           /\ Shaped(a) /\ IsContiguous(a) /\ Size(a) = Product(shape)
           /\ a.buffer = b /\ a.shape = shape /\ a.offset = 0 /\ a.strides = ContiguousStrides(shape)
<1>1. ContiguousStrides(shape) \in Seq(Nat) /\ Len(ContiguousStrides(shape)) = Len(shape)
  BY StridesAre
<1> QED
  BY <1>1 DEF Contiguous, Shaped, Views, IsContiguous, Size

(* Where the odometer goes: the digit m that can still advance moves on by one   *)
(* and those behind it start again.                                              *)
Advances(shape, ix, jx, m) ==
  /\ m \in 1 .. Len(shape) /\ ix[m] + 1 < shape[m]
  /\ \A k \in 1 .. Len(shape) : /\ k < m => jx[k] = ix[k]
                                /\ k = m => jx[k] = ix[k] + 1
                                /\ k > m => jx[k] = 0 /\ ix[k] + 1 = shape[k]
LEMMA NextIs ==
  ASSUME NEW shape \in Seq(Nat), NEW ix \in Indices(shape), CanAdvance(ix, shape) # {}
  PROVE  /\ NextIndex(ix, shape) \in Indices(shape) /\ NextIndex(ix, shape) # <<>>
         /\ \E m \in 1 .. Len(shape) : Advances(shape, ix, NextIndex(ix, shape), m)
<1> DEFINE n == Len(shape)
           S == CanAdvance(ix, shape)
           jx == NextIndex(ix, shape)
<1>1. n \in Nat /\ \A k \in 1 .. n : shape[k] \in Nat
  OBVIOUS
<1>2. ix \in Seq(Nat) /\ Len(ix) = n /\ DOMAIN ix = 1 .. n /\ \A k \in 1 .. n : ix[k] \in Nat /\ ix[k] < shape[k]
  BY IndexSeq
<1>3. S = {k \in 1 .. n : ix[k] + 1 < shape[k]}
  BY <1>2 DEF CanAdvance
<1> HIDE DEF n
<1>4. PICK m \in S : \A j \in S : j <= m
  <2>1. S \subseteq 1 .. n
    BY <1>3
  <2> HIDE DEF S
  <2> QED
    BY <1>1, <2>1, GreatestOf DEF S
<1> DEFINE c == CHOOSE i \in S : \A j \in S : j <= i
<1>5. c \in S /\ \A j \in S : j <= c
  BY <1>4
<1>6. jx = [i \in 1 .. n |-> IF i < c THEN ix[i] ELSE IF i = c THEN ix[i] + 1 ELSE 0]
  BY <1>2 DEF NextIndex
<1> HIDE DEF c, S, jx
<1>7. c \in 1 .. n /\ ix[c] + 1 < shape[c]
  BY <1>3, <1>5
<1>8. ASSUME NEW k \in 1 .. n
      PROVE  /\ k < c => jx[k] = ix[k]
             /\ k = c => jx[k] = ix[k] + 1
             /\ k > c => jx[k] = 0 /\ ix[k] + 1 = shape[k]
  <2>1. k > c => ~(ix[k] + 1 < shape[k])
    BY <1>3, <1>5, <1>7
  <2>2. ix[k] \in Nat /\ shape[k] \in Nat /\ ix[k] < shape[k]
    BY <1>1, <1>2
  <2>3. k > c => ix[k] + 1 = shape[k]
    BY <2>1, <2>2
  <2> QED
    BY <1>6, <1>7, <2>3
<1>9. Advances(shape, ix, jx, c)
  BY <1>7, <1>8 DEF Advances, n
<1>10. ASSUME NEW k \in 1 .. n PROVE jx[k] \in Nat /\ jx[k] < shape[k]
  <2>1. ix[k] \in Nat /\ shape[k] \in Nat /\ ix[k] < shape[k]
    BY <1>1, <1>2
  <2>2. k < c \/ k = c \/ k > c
    BY <1>7
  <2>3. k = c => ix[k] + 1 < shape[k]
    BY <1>7
  <2> QED
    BY <1>8, <2>1, <2>2, <2>3
<1>11. jx \in [1 .. n -> Nat]
  BY <1>6, <1>10
<1>12. jx \in Indices(shape)
  BY <1>10, <1>11, IndicesAre DEF n
<1>13. jx # <<>>
  <2>1. DOMAIN jx = 1 .. n /\ c \in DOMAIN jx
    BY <1>6, <1>7
  <2>2. DOMAIN <<>> = {}
    OBVIOUS
  <2> QED
    BY <2>1, <2>2
<1> QED
  BY <1>7, <1>9, <1>12, <1>13 DEF jx, n

LEMMA OneMore == ASSUME NEW x \in Nat, NEW y \in Nat, NEW z \in Nat, x + 1 = y PROVE x * z + z = z * y
OBVIOUS

(* The next index is at the next place of the block.                             *)
LEMMA NextPosition ==
  ASSUME NEW a, Shaped(a), IsContiguous(a), NEW ix \in Indices(a.shape), NEW jx \in Indices(a.shape),
         NEW m \in 1 .. Len(a.shape), Advances(a.shape, ix, jx, m)
  PROVE  Position(a, jx) = Position(a, ix) + 1
<1> DEFINE n == Len(a.shape)
           p == Offsets(a, ix)
           q == Offsets(a, jx)
           st == a.strides
           T == {k \in 0 .. n : k < m => q[k] = p[k]}
           U == {k \in 0 .. n : k >= m => q[k] = p[k] + st[k]}
<1>1. a.shape \in Seq(Nat) /\ n \in Nat /\ m \in 1 .. n
  BY DEF Shaped, Views
<1>2. \A k \in 1 .. n : ix[k] \in Nat /\ jx[k] \in Nat /\ a.shape[k] \in Nat
  <2>1. \A k \in 1 .. n : ix[k] \in Nat /\ jx[k] \in Nat
    BY <1>1, IndexSeq
  <2>2. \A k \in 1 .. n : a.shape[k] \in Nat
    BY <1>1
  <2> QED
    BY <2>1, <2>2
<1>3. /\ \A k \in 0 .. n : p[k] \in Nat
      /\ p[0] = a.offset
      /\ \A k \in 1 .. n : p[k] = p[k - 1] + ix[k] * st[k]
      /\ Position(a, ix) = p[n]
  BY OffsetsOfIndex
<1>4. /\ \A k \in 0 .. n : q[k] \in Nat
      /\ q[0] = a.offset
      /\ \A k \in 1 .. n : q[k] = q[k - 1] + jx[k] * st[k]
      /\ Position(a, jx) = q[n]
  BY OffsetsOfIndex
<1>5. /\ \A k \in 1 .. n : st[k] \in Nat
      /\ n > 0 => st[n] = 1
      /\ \A k \in 1 .. n - 1 : st[k] = st[k + 1] * a.shape[k + 1]
  BY <1>1, StridesAre DEF IsContiguous
<1>6. \A k \in 1 .. n : /\ k < m => jx[k] = ix[k]
                        /\ k = m => jx[k] = ix[k] + 1
                        /\ k > m => jx[k] = 0 /\ ix[k] + 1 = a.shape[k]
  BY DEF Advances
<1> HIDE DEF n, p, q, st
<1>7. \A k \in 0 .. n : k \in T
  <2>1. 0 \in T
    BY <1>1, <1>3, <1>4
  <2>2. ASSUME NEW k \in 1 .. n, k - 1 \in T PROVE k \in T
    <3>1. k \in 0 .. n /\ k - 1 \in 0 .. n /\ (k < m => k - 1 < m)
      BY <1>1
    <3>2. p[k] = p[k - 1] + ix[k] * st[k] /\ q[k] = q[k - 1] + jx[k] * st[k]
      BY <1>3, <1>4
    <3>3. k < m => q[k] = p[k]
      BY <1>6, <2>2, <3>1, <3>2
    <3> QED
      BY <3>1, <3>3
  <2> HIDE DEF T
  <2> QED
    BY <1>1, <2>1, <2>2, Counting
<1>8. \A k \in 0 .. n : k \in U
  <2>1. 0 \in U
    BY <1>1
  <2>2. ASSUME NEW k \in 1 .. n, k - 1 \in U PROVE k \in U
    <3>0. k \in 0 .. n /\ k - 1 \in 0 .. n
      BY <1>1
    <3>1. p[k] = p[k - 1] + ix[k] * st[k] /\ q[k] = q[k - 1] + jx[k] * st[k]
      BY <1>3, <1>4
    <3>2. ix[k] \in Nat /\ st[k] \in Nat /\ p[k - 1] \in Nat /\ q[k - 1] \in Nat /\ a.shape[k] \in Nat
      BY <1>2, <1>3, <1>4, <1>5, <3>0
    <3>3. CASE k < m
      BY <1>1, <3>0, <3>3
    <3>4. CASE k = m
      <4>1. q[k - 1] = p[k - 1]
        <5>1. k - 1 \in T /\ k - 1 < m
          BY <1>1, <1>7, <3>0, <3>4
        <5> QED
          BY <5>1
      <4>2. jx[k] = ix[k] + 1
        BY <1>6, <3>4
      <4>3. (ix[k] + 1) * st[k] = ix[k] * st[k] + st[k]
        BY <3>2
      <4>4. ix[k] * st[k] \in Nat
        BY <3>2
      <4>5. q[k] = p[k] + st[k]
        BY <3>1, <3>2, <4>1, <4>2, <4>3, <4>4
      <4> QED
        BY <3>0, <4>5
    <3>5. CASE k > m
      <4>1. k - 1 >= m /\ k - 1 \in 1 .. n - 1 /\ k - 1 + 1 = k
        BY <1>1, <3>5
      <4>2. q[k - 1] = p[k - 1] + st[k - 1]
        BY <2>2, <4>1
      <4>3. jx[k] = 0 /\ ix[k] + 1 = a.shape[k]
        BY <1>6, <3>5
      <4>4. st[k - 1] = st[k] * a.shape[k]
        BY <1>5, <4>1
      <4>9. ix[k] * st[k] + st[k] = st[k] * a.shape[k]
        BY <3>2, <4>3, OneMore
      <4>5. ix[k] * st[k] + st[k] = st[k - 1]
        BY <4>4, <4>9
      <4>6. 0 * st[k] = 0 /\ ix[k] * st[k] \in Nat
        BY <3>2
      <4>7. q[k] = q[k - 1]
        BY <3>1, <3>2, <4>3, <4>6
      <4>8. q[k] = p[k] + st[k]
        BY <3>1, <3>2, <4>2, <4>5, <4>6, <4>7
      <4> QED
        BY <3>0, <4>8
    <3> QED
      BY <1>1, <3>0, <3>3, <3>4, <3>5
  <2> HIDE DEF U
  <2> QED
    BY <1>1, <2>1, <2>2, Counting
<1>9. n \in 0 .. n /\ n >= m /\ n > 0
  BY <1>1
<1>10. q[n] = p[n] + st[n] /\ st[n] = 1
  BY <1>5, <1>8, <1>9
<1> QED
  BY <1>3, <1>4, <1>10

(* The odometer wraps at the last place of the block.                            *)
LEMMA LastPosition ==
  ASSUME NEW a, Shaped(a), IsContiguous(a), Size(a) # TooLarge, NEW ix \in Indices(a.shape),
         CanAdvance(ix, a.shape) = {}
  PROVE  Position(a, ix) + 1 = a.offset + Size(a)
<1> DEFINE n == Len(a.shape)
           p == Offsets(a, ix)
           st == a.strides
           U == {k \in 0 .. n : k > 0 => p[k] + st[k] = a.offset + Size(a)}
<1>1. a.shape \in Seq(Nat) /\ n \in Nat /\ a.offset \in Nat
  BY DEF Shaped, Views
<1>2. DOMAIN ix = 1 .. n /\ \A k \in 1 .. n : ix[k] \in Nat /\ ix[k] < a.shape[k] /\ a.shape[k] \in Nat
  BY <1>1, IndexSeq
<1>3. /\ \A k \in 0 .. n : p[k] \in Nat
      /\ p[0] = a.offset
      /\ \A k \in 1 .. n : p[k] = p[k - 1] + ix[k] * st[k]
      /\ Position(a, ix) = p[n]
  BY OffsetsOfIndex
<1>4. a.strides = ContiguousStrides(a.shape)
  BY DEF IsContiguous
<1>5. /\ \A k \in 1 .. n : st[k] \in Nat
      /\ n > 0 => st[n] = 1
      /\ \A k \in 1 .. n - 1 : st[k] = st[k + 1] * a.shape[k + 1]
  BY <1>1, <1>4, StridesAre
<1>6. n > 0 => st[1] * a.shape[1] = Size(a)
  BY <1>1, <1>4, WholeBlock DEF Size
<1>7. n = 0 => Size(a) = 1
  <2>1. Products(a.shape)[0] = 1
    BY <1>1, ProductsAre
  <2> QED
    BY <2>1 DEF Size, Product
<1>8. \A k \in 1 .. n : ix[k] + 1 = a.shape[k]
  <2>1. ASSUME NEW k \in 1 .. n PROVE ix[k] + 1 = a.shape[k]
    <3>1. ~(ix[k] + 1 < a.shape[k])
      BY <1>2 DEF CanAdvance
    <3> QED
      BY <1>2, <3>1
  <2> QED
    BY <2>1
<1> HIDE DEF n, p, st
<1>9. ASSUME NEW k \in 1 .. n, k - 1 \in U PROVE k \in U
  <2>0. k \in 0 .. n /\ k - 1 \in 0 .. n
    BY <1>1
  <2>1. p[k] = p[k - 1] + ix[k] * st[k] /\ ix[k] + 1 = a.shape[k]
    BY <1>3, <1>8
  <2>2. ix[k] \in Nat /\ st[k] \in Nat /\ p[k - 1] \in Nat /\ a.shape[k] \in Nat
    BY <1>2, <1>3, <1>5, <2>0
  <2>3. ix[k] * st[k] + st[k] = st[k] * a.shape[k] /\ ix[k] * st[k] \in Nat
    BY <2>1, <2>2, OneMore
  <2>4. p[k] + st[k] = p[k - 1] + st[k] * a.shape[k]
    BY <2>1, <2>2, <2>3
  <2>5. CASE k = 1
    <3>1. n > 0 /\ k - 1 = 0
      BY <1>1, <2>5
    <3> QED
      BY <1>3, <1>6, <2>0, <2>4, <2>5, <3>1
  <2>6. CASE k # 1
    <3>1. k - 1 \in 1 .. n - 1 /\ k - 1 + 1 = k /\ k - 1 > 0
      BY <1>1, <2>6
    <3>2. p[k - 1] + st[k - 1] = a.offset + Size(a)
      BY <1>9, <3>1
    <3>3. st[k - 1] = st[k] * a.shape[k]
      BY <1>5, <3>1
    <3> QED
      BY <2>0, <2>4, <3>2, <3>3
  <2> QED
    BY <2>5, <2>6
<1>10. \A k \in 0 .. n : k \in U
  <2>1. 0 \in U
    BY <1>1
  <2> HIDE DEF U
  <2> QED
    BY <1>1, <1>9, <2>1, Counting
<1>11. n \in 0 .. n
  BY <1>1
<1>12. CASE n > 0
  BY <1>3, <1>5, <1>10, <1>11, <1>12
<1>13. CASE n = 0
  BY <1>1, <1>3, <1>7, <1>13
<1> QED
  BY <1>1, <1>12, <1>13

LEMMA SizeNat ==
  ASSUME NEW shape \in Seq(Nat)
  PROVE  Product(shape) \in Counts /\ (Product(shape) # TooLarge => Product(shape) \in Nat)
<1>1. Len(shape) \in 0 .. Len(shape)
  OBVIOUS
<1>2. Product(shape) \in Counts
  BY <1>1, ProductsAre DEF Product
<1> QED
  BY <1>2 DEF Counts

(* An array with elements has a first index.                                     *)
LEMMA OriginIs ==
  ASSUME NEW shape \in Seq(Nat), Product(shape) # TooLarge, Product(shape) > 0
  PROVE  Origin(shape) \in Indices(shape)
<1> DEFINE n == Len(shape)
           p == Products(shape)
           T == {k \in 0 .. n : p[n - k] > 0}
<1>1. n \in Nat /\ DOMAIN shape = 1 .. n /\ \A k \in 1 .. n : shape[k] \in Nat
  OBVIOUS
<1>2. /\ \A k \in 0 .. n : p[k] \in Nat
      /\ \A k \in 1 .. n : p[k] = p[k - 1] * shape[k]
  BY ExactPrefixes
<1>3. p[n] > 0
  BY DEF Product
<1>4. Origin(shape) = [i \in 1 .. n |-> 0]
  BY <1>1 DEF Origin
<1> HIDE DEF n, p
<1>5. 0 \in T
  <2>1. n - 0 = n /\ 0 \in 0 .. n
    BY <1>1
  <2> QED
    BY <1>3, <2>1
<1>6. ASSUME NEW k \in 1 .. n, k - 1 \in T PROVE k \in T
  <2>1. PICK j \in 1 .. n : j = n - (k - 1)
    BY <1>1
  <2>2. p[j] > 0 /\ n - k = j - 1 /\ j - 1 \in 0 .. n /\ k \in 0 .. n
    BY <1>1, <1>6, <2>1
  <2>3. p[j] = p[j - 1] * shape[j] /\ p[j - 1] \in Nat /\ shape[j] \in Nat
    BY <1>1, <1>2, <2>2
  <2>4. p[j - 1] # 0
    BY <2>2, <2>3
  <2> QED
    BY <2>2, <2>3, <2>4
<1>7. ASSUME NEW i \in 1 .. n PROVE 0 < shape[i]
  <2>1. \A k \in 0 .. n : k \in T
    <3> HIDE DEF T
    <3> QED
      BY <1>1, <1>5, <1>6, Counting
  <2>2. n - i \in 0 .. n /\ n - (n - i) = i
    BY <1>1
  <2>3. p[i] > 0 /\ i - 1 \in 0 .. n
    <3>1. PICK k \in 0 .. n : k = n - i /\ n - k = i
      BY <2>2
    <3>2. p[n - k] > 0
      BY <2>1
    <3>3. i - 1 \in 0 .. n
      BY <1>1
    <3> QED
      BY <3>1, <3>2, <3>3
  <2>4. p[i] = p[i - 1] * shape[i] /\ p[i - 1] \in Nat /\ shape[i] \in Nat
    BY <1>1, <1>2, <2>3
  <2>5. shape[i] # 0
    BY <2>3, <2>4
  <2> QED
    BY <2>4, <2>5
<1> DEFINE o == [i \in 1 .. n |-> 0]
<1>8. o \in [1 .. n -> Nat] /\ \A i \in 1 .. n : o[i] < shape[i]
  BY <1>7
<1> HIDE DEF o
<1>9. o \in Indices(shape)
  BY <1>8, IndicesAre DEF n
<1> QED
  BY <1>4, <1>9 DEF o

LEMMA OriginPosition ==
  ASSUME NEW a, Shaped(a), Origin(a.shape) \in Indices(a.shape)
  PROVE  Position(a, Origin(a.shape)) = a.offset
<1> DEFINE n == Len(a.shape)
           ix == Origin(a.shape)
           p == Offsets(a, ix)
           T == {k \in 0 .. n : p[k] = a.offset}
<1>1. a.shape \in Seq(Nat) /\ n \in Nat /\ a.offset \in Nat /\ DOMAIN a.shape = 1 .. n /\ \A k \in 1 .. n : a.strides[k] \in Nat
  BY DEF Shaped, Views
<1>2. \A k \in 1 .. n : ix[k] = 0
  BY <1>1 DEF Origin
<1>3. /\ p[0] = a.offset
      /\ \A k \in 1 .. n : p[k] = p[k - 1] + ix[k] * a.strides[k]
      /\ Position(a, ix) = p[n]
  BY OffsetsOfIndex
<1> HIDE DEF n, ix, p
<1>4. ASSUME NEW k \in 1 .. n, k - 1 \in T PROVE k \in T
  <2>1. p[k] = p[k - 1] + ix[k] * a.strides[k] /\ p[k - 1] = a.offset /\ ix[k] = 0 /\ a.strides[k] \in Nat
    BY <1>1, <1>2, <1>3, <1>4
  <2>2. 0 * a.strides[k] = 0
    BY <2>1
  <2>3. p[k] = a.offset /\ k \in 0 .. n
    BY <1>1, <2>1, <2>2
  <2> QED
    BY <2>3
<1>5. n \in T
  <2>1. 0 \in T /\ n \in 0 .. n
    BY <1>1, <1>3
  <2> HIDE DEF T
  <2> QED
    BY <1>1, <1>4, <2>1, Counting
<1> QED
  BY <1>3, <1>5 DEF ix

LEMMA OnwardIs ==
  ASSUME NEW shape, NEW trail \in Seq(Seq(Nat)) \ {<<>>}
  PROVE  Onward(trail, shape) \in Seq(Seq(Nat)) \ {<<>>}
<1> DEFINE idx == trail[Len(trail)]
           c == CHOOSE i \in CanAdvance(idx, shape) : \A j \in CanAdvance(idx, shape) : j <= i
           jx == NextIndex(idx, shape)
<1>1. trail \in Seq(Seq(Nat)) /\ Len(trail) \in 1 .. Len(trail)
  OBVIOUS
<1>2. idx \in Seq(Nat)
  BY <1>1
<1>3. jx \in Seq(Nat)
  <2>1. Len(idx) \in Nat /\ DOMAIN idx = 1 .. Len(idx) /\ \A i \in 1 .. Len(idx) : idx[i] \in Nat
    BY <1>2
  <2>2. CASE CanAdvance(idx, shape) = {}
    BY <2>2 DEF NextIndex
  <2>3. CASE CanAdvance(idx, shape) # {}
    <3>1. jx = [i \in 1 .. Len(idx) |-> IF i < c THEN idx[i] ELSE IF i = c THEN idx[i] + 1 ELSE 0]
      BY <2>1, <2>3 DEF NextIndex
    <3> HIDE DEF idx, c, jx
    <3>2. PICK n \in Nat : n = Len(idx)
      BY <2>1
    <3>3. jx \in [1 .. n -> Nat]
      BY <2>1, <3>1, <3>2
    <3>4. \A f \in [1 .. n -> Nat] : f \in Seq(Nat)
      OBVIOUS
    <3> QED
      BY <3>3, <3>4
  <2> QED
    BY <2>2, <2>3
<1> HIDE DEF idx, jx
<1>4. Onward(trail, shape) = IF jx = <<>> THEN trail ELSE Append(trail, jx)
  BY DEF Onward, idx, jx
<1>5. Append(trail, jx) \in Seq(Seq(Nat)) /\ Append(trail, jx) # <<>>
  <2>1. ASSUME NEW S, NEW t \in Seq(S), NEW e \in S PROVE Append(t, e) \in Seq(S) /\ Append(t, e) # <<>>
    <3>1. Append(t, e) \in Seq(S)
      OBVIOUS
    <3>2. Len(Append(t, e)) = Len(t) + 1 /\ Len(t) \in Nat
      OBVIOUS
    <3>3. PICK w : w = Append(t, e)
      OBVIOUS
    <3>4. Len(w) # 0
      BY <3>2, <3>3
    <3>5. w # <<>>
      BY <3>4
    <3> QED
      BY <3>1, <3>3, <3>5
  <2>2. trail \in Seq(Seq(Nat))
    BY <1>1
  <2> QED
    BY <1>3, <2>1, <2>2
<1> QED
  BY <1>4, <1>5

LEMMA TrailsAre ==
  ASSUME NEW shape \in Seq(Nat), Product(shape) \in Nat \ {0}
  PROVE  LET t == Trails(shape) IN
           /\ t[1] = <<Origin(shape)>>
           /\ \A k \in 2 .. Product(shape) : t[k] = Onward(t[k - 1], shape)
<1> DEFINE P == Product(shape)
           n == P - 1
           X == Seq(Seq(Nat)) \ {<<>>}
           c == <<Origin(shape)>>
           s == [k \in 1 .. n |-> [x \in X |-> Onward(x, shape)]]
           F(t) == [k \in 1 .. P |-> IF k = 1 THEN c ELSE Onward(t[k - 1], shape)]
           p == Trails(shape)
<1>1. P \in Nat /\ P >= 1 /\ n \in Nat
  OBVIOUS
<1>2. c \in X
  <2>1. Origin(shape) \in [1 .. Len(shape) -> Nat]
    BY DEF Origin
  <2>2. Origin(shape) \in Seq(Nat)
    BY <2>1
  <2> QED
    BY <2>2
<1> HIDE DEF P
<1>3. s \in [1 .. n -> [X -> X]]
  BY OnwardIs
<1>4. PICK f \in [0 .. n -> X] : Runs(X, n, c, s, f)
  <2> HIDE DEF n, s, c, X
  <2> QED
    BY <1>1, <1>2, <1>3, Recursion
<1> DEFINE g == [k \in 1 .. P |-> f[k - 1]]
<1>5. ASSUME NEW k \in 1 .. P PROVE g[k] = IF k = 1 THEN c ELSE Onward(g[k - 1], shape)
  <2>1. CASE k = 1
    <3>1. f[0] = c /\ k - 1 = 0
      BY <1>4, <2>1 DEF Runs
    <3> QED
      BY <2>1, <3>1
  <2>2. CASE k # 1
    <3>1. PICK j \in 1 .. n : j = k - 1
      BY <1>1, <2>2
    <3>6. \A i \in 1 .. n : f[i] = s[i][f[i - 1]]
      BY <1>4 DEF Runs
    <3>7. j - 1 \in 0 .. n
      BY <1>1
    <3>2. f[j] = s[j][f[j - 1]] /\ j - 1 \in 0 .. n
      <4> HIDE DEF n, s
      <4> QED
        BY <3>6, <3>7
    <3>3. f[j - 1] \in X
      BY <1>4, <3>2
    <3>4. f[j] = Onward(f[j - 1], shape)
      BY <3>2, <3>3
    <3>5. g[k] = f[j] /\ g[k - 1] = f[j - 1]
      BY <1>1, <3>1
    <3> QED
      BY <2>2, <3>4, <3>5
  <2> QED
    BY <2>1, <2>2
<1>6. g = F(g)
  BY <1>5
<1>7. p = F(p)
  BY <1>6 DEF Trails, P
<1> HIDE DEF p
<1>8. p[1] = c
  BY <1>1, <1>7
<1>9. \A k \in 2 .. P : p[k] = Onward(p[k - 1], shape)
  <2>1. \A k \in 2 .. P : k \in 1 .. P /\ k # 1
    BY <1>1
  <2> QED
    BY <1>7, <2>1
<1> QED
  BY <1>8, <1>9 DEF p, P

(* The walk visits every place of the block in order.                            *)
LEMMA WalkIs ==
  ASSUME NEW shape \in Seq(Nat), Product(shape) # TooLarge
  PROVE  /\ Product(shape) \in Nat
         /\ Walk(shape) \in Seq(Indices(shape)) /\ Len(Walk(shape)) = Product(shape)
         /\ \A k \in 1 .. Product(shape) : Walk(shape)[k] \in Indices(shape) /\ Rank(shape, Walk(shape)[k]) = k - 1
<1> DEFINE P == Product(shape)
           I == Indices(shape)
           t == Trails(shape)
           R(w) == /\ w \in Seq(I)
                   /\ \A j \in 1 .. Len(w) : Rank(shape, w[j]) = j - 1
           a == Contiguous(0, shape)
<1>1. P \in Nat
  BY SizeNat
<1>2. Shaped(a) /\ IsContiguous(a) /\ Size(a) = P /\ a.shape = shape /\ a.offset = 0
  BY ContiguousIs
<1>3. CASE P = 0
  <2>1. Walk(shape) = <<>>
    BY <1>3 DEF Walk
  <2> QED
    BY <1>3, <2>1
<1>4. CASE P # 0
  <2>1. Walk(shape) = t[P]
    BY <1>1, <1>4 DEF Walk
  <2>2. t[1] = <<Origin(shape)>> /\ \A k \in 2 .. P : t[k] = Onward(t[k - 1], shape)
    BY <1>1, <1>4, TrailsAre
  <2>3. Origin(shape) \in I
    BY <1>1, <1>4, OriginIs
  <2>4. Rank(shape, Origin(shape)) = 0
    BY <1>2, <2>3, OriginPosition DEF Rank
  <2> HIDE DEF P, I, t, a
  <2> DEFINE T == {k \in 0 .. P : k > 0 => R(t[k]) /\ Len(t[k]) = k}
  <2>5. ASSUME NEW k \in 1 .. P, k - 1 \in T PROVE k \in T
    <3>0. k \in 0 .. P
      BY <1>1
    <3>1. CASE k = 1
      <4>1. R(<<Origin(shape)>>) /\ Len(<<Origin(shape)>>) = 1
        BY <2>3, <2>4
      <4> QED
        BY <2>2, <3>0, <3>1, <4>1
    <3>2. CASE k # 1
      <4>1. k \in 2 .. P /\ k - 1 > 0 /\ k - 1 \in Nat
        BY <1>1, <3>2
      <4>2. R(t[k - 1]) /\ Len(t[k - 1]) = k - 1
        BY <2>5, <4>1
      <4> DEFINE w == t[k - 1]
                 ix == w[Len(w)]
                 jx == NextIndex(ix, shape)
      <4>3. t[k] = Onward(w, shape)
        BY <2>2, <4>1
      <4>4. ix \in I /\ Rank(shape, ix) = k - 2
        <5>1. w \in Seq(I) /\ Len(w) = k - 1 /\ k - 1 \in 1 .. Len(w)
          BY <4>1, <4>2
        <5>2. Rank(shape, w[k - 1]) = k - 1 - 1
          BY <4>2, <5>1
        <5> HIDE DEF w
        <5>3. w[k - 1] \in I /\ ix = w[k - 1]
          BY <5>1
        <5> QED
          BY <5>2, <5>3
      <4>5. CanAdvance(ix, shape) # {}
        <5>1. SUFFICES ASSUME CanAdvance(ix, shape) = {} PROVE FALSE
          OBVIOUS
        <5> HIDE DEF w, ix
        <5>2. Position(a, ix) + 1 = a.offset + Size(a)
          BY <1>2, <4>4, <5>1, LastPosition DEF I, P
        <5>3. Position(a, ix) = k - 2
          BY <4>4 DEF Rank, a
        <5> QED
          BY <1>1, <1>2, <5>2, <5>3
      <4> HIDE DEF w, ix
      <4>6. jx \in I /\ jx # <<>> /\ \E m \in 1 .. Len(shape) : Advances(shape, ix, jx, m)
        BY <4>4, <4>5, NextIs DEF I
      <4>7. Rank(shape, jx) = k - 1
        <5>1. PICK m \in 1 .. Len(shape) : Advances(shape, ix, jx, m)
          BY <4>6
        <5>2. Position(a, jx) = Position(a, ix) + 1
          BY <1>2, <4>4, <4>6, <5>1, NextPosition DEF I
        <5> QED
          BY <4>4, <5>2 DEF Rank, a
      <4>8. t[k] = Append(w, jx)
        BY <4>3, <4>6 DEF Onward, ix
      <4>9. w \in Seq(I) /\ Len(w) = k - 1 /\ \A j \in 1 .. k - 1 : Rank(shape, w[j]) = j - 1
        BY <4>2 DEF w
      <4> HIDE DEF jx
      <4>10. t[k] \in Seq(I) /\ Len(t[k]) = k
        BY <4>1, <4>6, <4>8, <4>9
      <4>11. ASSUME NEW j \in 1 .. k PROVE Rank(shape, t[k][j]) = j - 1
        <5>1. CASE j = k
          <6>1. t[k][j] = jx
            BY <4>1, <4>6, <4>8, <4>9, <5>1
          <6> QED
            BY <4>7, <5>1, <6>1
        <5>2. CASE j # k
          <6>1. j \in 1 .. k - 1
            BY <5>2
          <6>2. t[k][j] = w[j]
            BY <4>6, <4>8, <4>9, <6>1
          <6> QED
            BY <4>9, <6>1, <6>2
        <5> QED
          BY <5>1, <5>2
      <4> QED
        BY <3>0, <4>10, <4>11
    <3> QED
      BY <3>1, <3>2
  <2>6. P \in T
    <3>1. 0 \in T /\ P \in 0 .. P
      BY <1>1
    <3> HIDE DEF T
    <3> QED
      BY <1>1, <2>5, <3>1, Counting
  <2>7. R(t[P]) /\ Len(t[P]) = P
    BY <1>1, <1>4, <2>6
  <2>8. \A k \in 1 .. P : t[P][k] \in I
    BY <2>7
  <2> QED
    BY <1>1, <2>1, <2>7, <2>8 DEF P, I
<1> QED
  BY <1>3, <1>4

LEMMA ContiguousPosition ==
  ASSUME NEW a, Shaped(a), IsContiguous(a), NEW ix \in Indices(a.shape)
  PROVE  Position(a, ix) = a.offset + Rank(a.shape, ix) /\ Rank(a.shape, ix) \in Nat
<1> DEFINE n == Len(a.shape)
           c == Contiguous(0, a.shape)
           p == Offsets(a, ix)
           q == Offsets(c, ix)
           T == {k \in 0 .. n : p[k] = a.offset + q[k]}
<1>1. a.shape \in Seq(Nat) /\ n \in Nat /\ a.offset \in Nat
  BY DEF Shaped, Views
<1>2. Shaped(c) /\ c.shape = a.shape /\ c.offset = 0 /\ c.strides = a.strides
  BY <1>1, ContiguousIs DEF IsContiguous
<1>3. /\ \A k \in 0 .. n : p[k] \in Nat
      /\ p[0] = a.offset
      /\ \A k \in 1 .. n : p[k] = p[k - 1] + ix[k] * a.strides[k]
      /\ Position(a, ix) = p[n]
  BY OffsetsOfIndex
<1> HIDE DEF c
<1>4. /\ \A k \in 0 .. n : q[k] \in Nat
      /\ q[0] = 0
      /\ \A k \in 1 .. n : q[k] = q[k - 1] + ix[k] * a.strides[k]
      /\ Position(c, ix) = q[n]
  BY <1>2, OffsetsOfIndex
<1>5. \A k \in 1 .. n : ix[k] \in Nat /\ a.strides[k] \in Nat
  BY <1>1, IndexSeq DEF Shaped, Views
<1> HIDE DEF n, p, q
<1>6. ASSUME NEW k \in 1 .. n, k - 1 \in T PROVE k \in T
  <2>1. k \in 0 .. n /\ k - 1 \in 0 .. n
    BY <1>1
  <2>2. p[k] = p[k - 1] + ix[k] * a.strides[k] /\ q[k] = q[k - 1] + ix[k] * a.strides[k] /\ p[k - 1] = a.offset + q[k - 1]
    BY <1>3, <1>4, <1>6
  <2>3. ix[k] * a.strides[k] \in Nat /\ q[k - 1] \in Nat
    BY <1>4, <1>5, <2>1
  <2>4. p[k] = a.offset + q[k]
    BY <1>1, <2>2, <2>3
  <2> QED
    BY <2>1, <2>4
<1>7. n \in T /\ n \in 0 .. n
  <2>1. 0 \in T /\ n \in 0 .. n
    BY <1>1, <1>3, <1>4
  <2> HIDE DEF T
  <2> QED
    BY <1>1, <1>6, <2>1, Counting
<1> QED
  BY <1>3, <1>4, <1>7 DEF Rank, c

-----------------------------------------------------------------------------
(* Heaps, and the views and cells that lie in one.  Changes(h, g, C): g is h     *)
(* with perhaps more buffers and other elements in the cells C.                  *)
Heap(h) == h \in [DOMAIN h -> Seq(Elements)] /\ IsFiniteSet(DOMAIN h) /\ DOMAIN h \subseteq Nat
ViewIn(h, a) ==
  /\ Shaped(a) /\ a.buffer \in DOMAIN h
  /\ \A ix \in Indices(a.shape) : Position(a, ix) + 1 \in 1 .. Len(h[a.buffer])
Changes(h, g, C) ==
  /\ DOMAIN h \subseteq DOMAIN g
  /\ \A b \in DOMAIN h : Len(g[b]) = Len(h[b])
  /\ \A b \in DOMAIN h : \A p \in 1 .. Len(h[b]) : <<b, p - 1>> \in C \/ g[b][p] = h[b][p]
Readable(h, t) ==
  \/ \E b \in DOMAIN h : \E p \in 1 .. Len(h[b]) : t = <<"cell", b, p>>
  \/ \E e \in Elements : t = <<"value", e>>

LEMMA ChangesNothing == ASSUME NEW h PROVE Changes(h, h, {})
BY DEF Changes

LEMMA ChangesMore ==
  ASSUME NEW h, NEW g, NEW C, NEW D, Changes(h, g, C), C \subseteq D PROVE Changes(h, g, D)
BY DEF Changes

LEMMA ChangesThen ==
  ASSUME NEW h, NEW g, NEW k, NEW C, Changes(h, g, C), Changes(g, k, C)
  PROVE  Changes(h, k, C)
<1>1. DOMAIN h \subseteq DOMAIN k
  BY DEF Changes
<1>2. ASSUME NEW b \in DOMAIN h PROVE Len(k[b]) = Len(h[b]) /\ b \in DOMAIN g
  BY DEF Changes
<1>3. ASSUME NEW b \in DOMAIN h, NEW p \in 1 .. Len(h[b]) PROVE <<b, p - 1>> \in C \/ k[b][p] = h[b][p]
  <2>1. b \in DOMAIN g /\ p \in 1 .. Len(g[b])
    BY DEF Changes
  <2>2. <<b, p - 1>> \in C \/ g[b][p] = h[b][p]
    BY DEF Changes
  <2>3. <<b, p - 1>> \in C \/ k[b][p] = g[b][p]
    BY <2>1 DEF Changes
  <2> QED
    BY <2>2, <2>3
<1> QED
  BY <1>1, <1>2, <1>3 DEF Changes

LEMMA ViewKept ==
  ASSUME NEW h, NEW g, NEW C, NEW a, ViewIn(h, a), Changes(h, g, C) PROVE ViewIn(g, a)
BY DEF ViewIn, Changes

LEMMA ReadableKept ==
  ASSUME NEW h, NEW g, NEW C, NEW t, Readable(h, t), Changes(h, g, C) PROVE Readable(g, t)
<1>1. CASE \E b \in DOMAIN h : \E p \in 1 .. Len(h[b]) : t = <<"cell", b, p>>
  <2>1. PICK b \in DOMAIN h : \E p \in 1 .. Len(h[b]) : t = <<"cell", b, p>>
    BY <1>1
  <2>2. PICK p \in 1 .. Len(h[b]) : t = <<"cell", b, p>>
    BY <2>1
  <2>3. b \in DOMAIN g /\ p \in 1 .. Len(g[b])
    BY DEF Changes
  <2> QED
    BY <2>2, <2>3 DEF Readable
<1>2. CASE \E e \in Elements : t = <<"value", e>>
  BY <1>2 DEF Readable
<1> QED
  BY <1>1, <1>2 DEF Readable

LEMMA ReadIs ==
  ASSUME NEW h, Heap(h), NEW t, Readable(h, t) PROVE Read(h, t) \in Elements
<1>1. CASE \E b \in DOMAIN h : \E p \in 1 .. Len(h[b]) : t = <<"cell", b, p>>
  <2>1. PICK b \in DOMAIN h : \E p \in 1 .. Len(h[b]) : t = <<"cell", b, p>>
    BY <1>1
  <2>2. PICK p \in 1 .. Len(h[b]) : t = <<"cell", b, p>>
    BY <2>1
  <2>3. h[b] \in Seq(Elements)
    BY DEF Heap
  <2>4. h[b][p] \in Elements
    BY <2>3
  <2>5. t[1] = "cell" /\ t[2] = b /\ t[3] = p
    BY <2>2
  <2> QED
    BY <2>4, <2>5 DEF Read
<1>2. CASE \E e \in Elements : t = <<"value", e>>
  <2>1. PICK e \in Elements : t = <<"value", e>>
    BY <1>2
  <2>2. t[1] = "value" /\ t[2] = e
    BY <2>1
  <2> QED
    BY <2>2 DEF Read
<1> QED
  BY <1>1, <1>2 DEF Readable

(* The cells of a view, as a block and by the walk, are cells of its buffer.     *)
LEMMA BlockIndex ==
  ASSUME NEW a, Shaped(a), IsContiguous(a), Size(a) # TooLarge, NEW k \in 1 .. Size(a)
  PROVE  \E ix \in Indices(a.shape) : Position(a, ix) + 1 = a.offset + k
<1>1. a.shape \in Seq(Nat) /\ a.offset \in Nat
  BY DEF Shaped, Views
<1>2. Walk(a.shape)[k] \in Indices(a.shape) /\ Rank(a.shape, Walk(a.shape)[k]) = k - 1
  BY <1>1, WalkIs DEF Size
<1>3. Position(a, Walk(a.shape)[k]) = a.offset + (k - 1)
  BY <1>2, ContiguousPosition
<1>4. Size(a) \in Nat
  BY <1>1, SizeNat DEF Size
<1> QED
  BY <1>1, <1>2, <1>3, <1>4

LEMMA BlockInside ==
  ASSUME NEW h, NEW a, ViewIn(h, a), IsContiguous(a), NEW k \in 1 .. Size(a)
  PROVE  a.offset + k \in 1 .. Len(h[a.buffer]) /\ <<a.buffer, a.offset + k - 1>> \in CellsOf(a)
<1>1. Shaped(a) /\ a.offset \in Nat /\ a.shape \in Seq(Nat)
  BY DEF ViewIn, Shaped, Views
<1>2. Size(a) # TooLarge
  BY DEF TooLarge
<1>3. PICK ix \in Indices(a.shape) : Position(a, ix) + 1 = a.offset + k
  BY <1>1, <1>2, BlockIndex
<1>4. Position(a, ix) \in Nat
  BY <1>1, PositionNat
<1>5. k \in Int
  BY <1>1, <1>2, SizeNat DEF Size
<1>6. Position(a, ix) = a.offset + k - 1
  BY <1>1, <1>3, <1>4, <1>5
<1>7. <<a.buffer, Position(a, ix)>> \in CellsOf(a)
  BY DEF CellsOf
<1>8. a.offset + k \in 1 .. Len(h[a.buffer])
  BY <1>3 DEF ViewIn
<1> QED
  BY <1>6, <1>7, <1>8

LEMMA FlatIs ==
  ASSUME NEW h, NEW a, ViewIn(h, a), IsContiguous(a), Size(a) # TooLarge
  PROVE  DOMAIN Flat(a) = 1 .. Size(a) /\ \A k \in 1 .. Size(a) : Readable(h, Flat(a)[k])
<1>1. DOMAIN Flat(a) = 1 .. Size(a)
  BY DEF Flat
<1>2. ASSUME NEW k \in 1 .. Size(a) PROVE Readable(h, Flat(a)[k])
  <2>1. a.offset + k \in 1 .. Len(h[a.buffer]) /\ a.buffer \in DOMAIN h
    BY BlockInside DEF ViewIn
  <2>2. a.offset \in Nat /\ a.shape \in Seq(Nat)
    BY DEF ViewIn, Shaped, Views
  <2>3. Size(a) \in Nat
    BY <2>2, SizeNat DEF Size
  <2>4. a.offset + k - 1 + 1 = a.offset + k
    BY <2>2, <2>3
  <2>5. Flat(a)[k] = <<"cell", a.buffer, a.offset + k>>
    BY <2>4 DEF Flat, Cell
  <2> QED
    BY <2>1, <2>5 DEF Readable
<1> QED
  BY <1>1, <1>2

LEMMA WalkedIs ==
  ASSUME NEW h, NEW a, ViewIn(h, a), Size(a) # TooLarge
  PROVE  /\ DOMAIN Walked(a) = 1 .. Size(a) /\ Walked(a) \in Seq({Walked(a)[k] : k \in 1 .. Size(a)}) /\ Len(Walked(a)) = Size(a)
         /\ \A k \in 1 .. Size(a) : /\ Readable(h, Walked(a)[k])
                                    /\ \E ix \in Indices(a.shape) : Walked(a)[k] = <<"cell", a.buffer, Position(a, ix) + 1>>
<1>1. a.shape \in Seq(Nat) /\ Shaped(a)
  BY DEF ViewIn, Shaped, Views
<1>2. /\ Size(a) \in Nat
      /\ Walk(a.shape) \in Seq(Indices(a.shape)) /\ Len(Walk(a.shape)) = Size(a)
      /\ \A k \in 1 .. Size(a) : Walk(a.shape)[k] \in Indices(a.shape)
  BY <1>1, WalkIs DEF Size
<1>3. DOMAIN Walk(a.shape) = 1 .. Size(a)
  BY <1>2
<1>4. Walked(a) = [k \in 1 .. Size(a) |-> <<"cell", a.buffer, Position(a, Walk(a.shape)[k]) + 1>>]
  BY <1>3 DEF Walked, Cell
<1>5. ASSUME NEW k \in 1 .. Size(a)
      PROVE  /\ Readable(h, Walked(a)[k])
             /\ \E ix \in Indices(a.shape) : Walked(a)[k] = <<"cell", a.buffer, Position(a, ix) + 1>>
  <2>1. PICK ix \in Indices(a.shape) : ix = Walk(a.shape)[k]
    BY <1>2
  <2>2. Walked(a)[k] = <<"cell", a.buffer, Position(a, ix) + 1>>
    BY <1>4, <2>1
  <2>3. Position(a, ix) + 1 \in 1 .. Len(h[a.buffer]) /\ a.buffer \in DOMAIN h
    BY DEF ViewIn
  <2> QED
    BY <2>2, <2>3 DEF Readable
<1>6. DOMAIN Walked(a) = 1 .. Size(a)
  BY <1>4
<1>7. Walked(a) \in Seq({Walked(a)[k] : k \in 1 .. Size(a)}) /\ Len(Walked(a)) = Size(a)
  <2>1. ASSUME NEW n \in Nat, NEW f, f = [k \in 1 .. n |-> f[k]]
        PROVE  f \in Seq({f[k] : k \in 1 .. n}) /\ Len(f) = n
    <3>1. f \in [1 .. n -> {f[k] : k \in 1 .. n}]
      BY <2>1
    <3> HIDE <2>1
    <3> QED
      BY <3>1
  <2>2. Walked(a) = [k \in 1 .. Size(a) |-> Walked(a)[k]]
    BY <1>4
  <2> QED
    BY <1>2, <2>1, <2>2
<1> QED
  BY <1>5, <1>6, <1>7

-----------------------------------------------------------------------------
(* Views of views: a slice and a stretched view have cells of their source only. *)
Inside(h, a, v) == ViewIn(h, v) /\ v.buffer = a.buffer /\ CellsOf(v) \subseteq CellsOf(a)
LEMMA InsideByIndex ==
  ASSUME NEW h, NEW a, ViewIn(h, a), NEW v, Shaped(v), v.buffer = a.buffer,
         \A ix \in Indices(v.shape) : \E jx \in Indices(a.shape) : Position(v, ix) = Position(a, jx)
  PROVE  Inside(h, a, v)
<1>1. ASSUME NEW ix \in Indices(v.shape)
      PROVE  Position(v, ix) + 1 \in 1 .. Len(h[a.buffer]) /\ <<v.buffer, Position(v, ix)>> \in CellsOf(a)
  <2>1. PICK jx \in Indices(a.shape) : Position(v, ix) = Position(a, jx)
    OBVIOUS
  <2> QED
    BY <2>1 DEF ViewIn, CellsOf
<1>2. CellsOf(v) \subseteq CellsOf(a)
  <2>1. ASSUME NEW c \in CellsOf(v) PROVE c \in CellsOf(a)
    <3>1. PICK ix \in Indices(v.shape) : c = <<v.buffer, Position(v, ix)>>
      BY DEF CellsOf
    <3> QED
      BY <1>1, <3>1
  <2> QED
    BY <2>1
<1> QED
  BY <1>1, <1>2 DEF Inside, ViewIn

Placed(a, shape, offset) == [a EXCEPT !.shape = shape, !.offset = offset]
Strided(a, shape, strides) == [a EXCEPT !.shape = shape, !.strides = strides]
LEMMA PlacedIs ==
  ASSUME NEW a \in Views, NEW s \in Seq(Nat), NEW w \in Nat
  PROVE  LET v == Placed(a, s, w) IN
           v \in Views /\ v.buffer = a.buffer /\ v.shape = s /\ v.strides = a.strides /\ v.offset = w
BY DEF Views, Placed

LEMMA StridedIs ==
  ASSUME NEW a \in Views, NEW s \in Seq(Nat), NEW w \in Seq(Nat)
  PROVE  LET v == Strided(a, s, w) IN
           v \in Views /\ v.buffer = a.buffer /\ v.shape = s /\ v.offset = a.offset /\ v.strides = w
BY DEF Views, Strided

LEMMA Distribute == ASSUME NEW x \in Nat, NEW y \in Nat, NEW z \in Nat PROVE (x + y) * z = x * z + y * z
OBVIOUS

(* The rows that the bounds of a slice select.                                   *)
Sliced(a, from, count) == [a EXCEPT !.shape[1] = count, !.offset = a.offset + from * a.strides[1]]
LEMMA SliceRows ==
  ASSUME NEW h, NEW a, Shaped(a), NEW lo \in Int, NEW hi \in Int, Slice(h, a, lo, hi).ok
  PROVE  /\ a.shape # <<>> /\ Slice(h, a, lo, hi).heap = h
         /\ \E from, count \in Nat : /\ count = 0 \/ from + count <= a.shape[1]
                                     /\ Slice(h, a, lo, hi).array = Sliced(a, from, count)
                                     /\ Rows(a.shape[1], lo, hi) = from .. from + count - 1
<1> DEFINE n == a.shape[1]
           Within(x) == IF x < 0 THEN 0 ELSE IF x > n THEN n ELSE x
           from == Within(Bound(lo, n))
           to == IF hi = End THEN n ELSE Within(Bound(hi, n))
           count == IF to < from THEN 0 ELSE to - from
<1>1. a.shape # <<>> /\ Slice(h, a, lo, hi) = Got(h, Sliced(a, from, count))
  BY DEF Slice, Throw, Sliced
<1>2. n \in Nat
  <2>1. a.shape \in Seq(Nat) /\ a.shape # <<>>
    BY <1>1 DEF Shaped, Views
  <2> QED
    BY <2>1
<1> HIDE DEF n
<1>3. Bound(lo, n) \in Int /\ Bound(hi, n) \in Int
  BY <1>2 DEF Bound
<1>4. from \in 0 .. n /\ to \in 0 .. n
  BY <1>2, <1>3
<1> DEFINE upto == IF hi = End THEN n ELSE Bound(hi, n)
<1>5. Rows(n, lo, hi) = {i \in 0 .. n - 1 : Bound(lo, n) <= i /\ i < upto}
  BY DEF Rows, Bound
<1>6. upto \in Int /\ \A i \in 0 .. n - 1 : (Bound(lo, n) <= i <=> from <= i) /\ (i < upto <=> i < to)
  BY <1>2, <1>3
<1> HIDE DEF from, to, upto
<1>7. count \in Nat /\ (count = 0 \/ from + count <= n) /\ from \in Nat
  BY <1>2, <1>4
<1>8. Rows(n, lo, hi) = from .. from + count - 1
  <2>1. Rows(n, lo, hi) = {i \in 0 .. n - 1 : from <= i /\ i < to}
    BY <1>5, <1>6
  <2>2. \A i : i \in 0 .. n - 1 /\ from <= i /\ i < to <=> i \in from .. from + count - 1
    BY <1>2, <1>4
  <2> QED
    BY <2>1, <2>2
<1> QED
  BY <1>1, <1>7, <1>8 DEF Got, n

Shifted(ix, from) == [ix EXCEPT ![1] = ix[1] + from]
Resized(shape, count) == [shape EXCEPT ![1] = count]
Shifts(a, v, from, count) ==
  /\ Shaped(v) /\ v.buffer = a.buffer /\ v.shape = Resized(a.shape, count) /\ v.strides = a.strides
  /\ \A ix \in Indices(v.shape) :
        ix[1] < count /\ Shifted(ix, from) \in Indices(a.shape) /\ Position(v, ix) = Position(a, Shifted(ix, from))
LEMMA SlicedIs ==
  ASSUME NEW a, Shaped(a), a.shape # <<>>, NEW from \in Nat, NEW count \in Nat,
         count = 0 \/ from + count <= a.shape[1]
  PROVE  Shifts(a, Sliced(a, from, count), from, count)
<1> DEFINE v == Sliced(a, from, count)
           n == Len(a.shape)
<1>1. /\ a \in Views /\ Len(a.strides) = n /\ a.shape \in Seq(Nat) /\ a.strides \in Seq(Nat) /\ a.offset \in Nat
      /\ n \in Nat /\ n > 0 /\ a.strides[1] \in Nat /\ a.shape[1] \in Nat
  <2>1. a \in Views /\ Len(a.strides) = n /\ a.shape \in Seq(Nat) /\ a.strides \in Seq(Nat) /\ a.offset \in Nat
    BY DEF Shaped, Views
  <2>2. n \in Nat /\ n > 0
    BY <2>1
  <2>3. 1 \in 1 .. n
    BY <2>2
  <2>4. \A s \in Seq(Nat) : Len(s) = n => s[1] \in Nat
    BY <2>3
  <2>5. a.strides[1] \in Nat /\ a.shape[1] \in Nat
    BY <2>1, <2>4
  <2> QED
    BY <2>1, <2>2, <2>5
<1>2. PICK d \in Nat : d = from * a.strides[1]
  BY <1>1
<1>3. [a.shape EXCEPT ![1] = count] \in Seq(Nat) /\ Len([a.shape EXCEPT ![1] = count]) = n
  BY <1>1
<1>4. v \in Views /\ v.buffer = a.buffer /\ v.shape = [a.shape EXCEPT ![1] = count] /\ v.strides = a.strides /\ v.offset = a.offset + d
  <2>1. a.offset + d \in Nat
    BY <1>1, <1>2
  <2>2. v = Placed(a, [a.shape EXCEPT ![1] = count], a.offset + d)
    <3>1. v = [a EXCEPT !.shape[1] = count, !.offset = a.offset + from * a.strides[1]]
      BY DEF Sliced
    <3>2. v = [a EXCEPT !.shape[1] = count, !.offset = a.offset + d]
      BY <1>2, <3>1
    <3>3. a \in Views
      BY <1>1
    <3> HIDE DEF v
    <3> QED
      <4>1. [a EXCEPT !.shape[1] = count, !.offset = a.offset + d] = Placed(a, [a.shape EXCEPT ![1] = count], a.offset + d)
        BY <3>3 DEF Placed, Views
      <4> QED
        BY <3>2, <4>1, Zenon
  <2> HIDE DEF v
  <2> QED
    <3>1. PICK s \in Seq(Nat) : s = [a.shape EXCEPT ![1] = count]
      BY <1>3
    <3>2. PICK w \in Nat : w = a.offset + d
      BY <2>1
    <3>3. a \in Views
      BY <1>1
    <3>4. LET x == Placed(a, s, w) IN
            x \in Views /\ x.buffer = a.buffer /\ x.shape = s /\ x.strides = a.strides /\ x.offset = w
      BY <3>3, PlacedIs
    <3>5. v = Placed(a, s, w)
      BY <2>2, <3>1, <3>2
    <3> QED
      BY <3>1, <3>2, <3>4, <3>5
<1>5. Shaped(v) /\ v.buffer = a.buffer /\ v.strides = a.strides /\ v.offset = a.offset + d /\ v.shape = [a.shape EXCEPT ![1] = count]
  BY <1>1, <1>3, <1>4 DEF Shaped
<1>6. Len(v.shape) = n /\ v.shape \in Seq(Nat) /\ v.shape[1] = count /\ \A k \in 2 .. n : v.shape[k] = a.shape[k]
  <2>1. \A k \in 2 .. n : k \in DOMAIN a.shape /\ k # 1
    BY <1>1
  <2>2. 1 \in DOMAIN a.shape
    BY <1>1
  <2> QED
    BY <1>3, <1>4, <2>1, <2>2
<1> HIDE DEF v
<1>7. ASSUME NEW ix \in Indices(v.shape)
      PROVE  ix[1] < count /\ Shifted(ix, from) \in Indices(a.shape) /\ Position(v, ix) = Position(a, Shifted(ix, from))
  <2> DEFINE jx == [k \in 1 .. n |-> IF k = 1 THEN ix[1] + from ELSE ix[k]]
             p == Offsets(v, ix)
             q == Offsets(a, jx)
             T == {k \in 0 .. n : k > 0 => p[k] = q[k]}
  <2>1. \A k \in 1 .. n : ix[k] \in Nat /\ ix[k] < v.shape[k]
    BY <1>6, IndexSeq
  <2>2. ix[1] \in Nat /\ ix[1] < count
    <3>1. 1 \in 1 .. n
      BY <1>1
    <3> QED
      BY <1>6, <2>1, <3>1
  <2>3. jx \in Indices(a.shape)
    <3>1. jx \in [1 .. n -> Nat]
      BY <2>1, <2>2
    <3>2. ASSUME NEW k \in 1 .. n PROVE jx[k] < a.shape[k]
      <4>1. CASE k = 1
        <5>1. ix[1] + from < a.shape[1]
          <6>1. PICK m \in Nat : m = a.shape[1]
            BY <1>1
          <6>2. from + count <= m \/ count = 0
            BY <6>1
          <6> QED
            BY <2>2, <6>1, <6>2
        <5>2. jx[k] = ix[1] + from
          BY <4>1
        <5> QED
          BY <4>1, <5>1, <5>2
      <4>2. CASE k # 1
        <5>1. k \in 2 .. n
          BY <4>2
        <5> QED
          BY <1>6, <2>1, <4>2, <5>1
      <4> QED
        BY <4>1, <4>2
    <3> HIDE DEF jx
    <3> QED
      BY <1>1, <3>1, <3>2, IndicesAre
  <2>4. /\ \A k \in 0 .. n : p[k] \in Nat
        /\ p[0] = v.offset
        /\ \A k \in 1 .. n : p[k] = p[k - 1] + ix[k] * a.strides[k]
        /\ Position(v, ix) = p[n]
    BY <1>5, <1>6, OffsetsOfIndex
  <2>5. jx[1] = ix[1] + from /\ \A k \in 2 .. n : jx[k] = ix[k]
    BY <1>1
  <2> HIDE DEF jx, p
  <2>6. /\ \A k \in 0 .. n : q[k] \in Nat
        /\ q[0] = a.offset
        /\ \A k \in 1 .. n : q[k] = q[k - 1] + jx[k] * a.strides[k]
        /\ Position(a, jx) = q[n]
    BY <2>3, OffsetsOfIndex
  <2> HIDE DEF q
  <2>7. p[1] = q[1]
    <3>1. 1 \in 1 .. n /\ 1 - 1 = 0
      BY <1>1
    <3>2. p[1] = v.offset + ix[1] * a.strides[1] /\ q[1] = a.offset + (ix[1] + from) * a.strides[1]
      BY <2>4, <2>5, <2>6, <3>1
    <3>3. (ix[1] + from) * a.strides[1] = ix[1] * a.strides[1] + d
      <4>1. ix[1] \in Nat /\ a.strides[1] \in Nat
        BY <1>1, <2>2
      <4>2. (ix[1] + from) * a.strides[1] = ix[1] * a.strides[1] + from * a.strides[1]
        BY <4>1, Distribute
      <4> QED
        BY <1>2, <4>2
    <3>5. \A x, y \in Nat : x * y \in Nat
      OBVIOUS
    <3>4. ix[1] * a.strides[1] \in Nat
      <4>1. ix[1] \in Nat /\ a.strides[1] \in Nat
        BY <1>1, <2>2
      <4> QED
        BY <3>5, <4>1
    <3> QED
      BY <1>1, <1>5, <3>2, <3>3, <3>4
  <2>8. ASSUME NEW k \in 1 .. n, k - 1 \in T PROVE k \in T
    <3>0. k \in 0 .. n
      BY <1>1
    <3>1. CASE k = 1
      BY <2>7, <3>0, <3>1
    <3>2. CASE k # 1
      <4>1. k \in 2 .. n /\ k - 1 > 0
        BY <1>1, <3>2
      <4>2. p[k - 1] = q[k - 1] /\ jx[k] = ix[k]
        BY <2>5, <2>8, <4>1
      <4>3. p[k] = q[k]
        BY <2>4, <2>6, <4>2
      <4> QED
        BY <3>0, <4>3
    <3> QED
      BY <3>1, <3>2
  <2>9. n \in T
    <3>1. 0 \in T /\ n \in 0 .. n
      BY <1>1
    <3> HIDE DEF T
    <3> QED
      BY <1>1, <2>8, <3>1, Counting
  <2>10. Position(v, ix) = Position(a, jx)
    BY <1>1, <2>4, <2>6, <2>9
  <2>11. jx = Shifted(ix, from)
    <3>1. ix \in [1 .. n -> Nat]
      BY <1>6, IndicesAre
    <3>2. PICK d1 : d1 = ix[1] + from
      OBVIOUS
    <3>3. jx = [k \in 1 .. n |-> IF k = 1 THEN d1 ELSE ix[k]]
      BY <3>2 DEF jx
    <3>4. Shifted(ix, from) = [ix EXCEPT ![1] = d1]
      BY <3>2 DEF Shifted
    <3>5. [ix EXCEPT ![1] = d1] = [k \in 1 .. n |-> IF k = 1 THEN d1 ELSE ix[k]]
      BY <3>1
    <3> QED
      BY <3>3, <3>4, <3>5
  <2> QED
    BY <2>2, <2>3, <2>10, <2>11
<1>8. v.shape = Resized(a.shape, count)
  BY <1>5 DEF Resized
<1> QED
  BY <1>5, <1>7, <1>8 DEF v, Shifts

LEMMA SlicedInside ==
  ASSUME NEW h, NEW a, ViewIn(h, a), a.shape # <<>>, NEW from \in Nat, NEW count \in Nat,
         count = 0 \/ from + count <= a.shape[1]
  PROVE  Inside(h, a, Sliced(a, from, count))
<1> DEFINE v == Sliced(a, from, count)
<1>1. Shaped(a)
  BY DEF ViewIn
<1>2. /\ Shaped(v) /\ v.buffer = a.buffer
      /\ \A ix \in Indices(v.shape) : Shifted(ix, from) \in Indices(a.shape) /\ Position(v, ix) = Position(a, Shifted(ix, from))
  BY <1>1, SlicedIs DEF Shifts
<1> HIDE DEF v
<1>3. \A ix \in Indices(v.shape) : \E jx \in Indices(a.shape) : Position(v, ix) = Position(a, jx)
  BY <1>2
<1> QED
  BY <1>2, <1>3, InsideByIndex DEF v

LEMMA SliceIs ==
  ASSUME NEW h, NEW a, ViewIn(h, a), NEW lo \in Int, NEW hi \in Int, Slice(h, a, lo, hi).ok
  PROVE  Slice(h, a, lo, hi).heap = h /\ Inside(h, a, Slice(h, a, lo, hi).array)
<1>1. Shaped(a)
  BY DEF ViewIn
<1>2. a.shape # <<>> /\ Slice(h, a, lo, hi).heap = h
  BY <1>1, SliceRows
<1>3. PICK from, count \in Nat : /\ count = 0 \/ from + count <= a.shape[1]
                                 /\ Slice(h, a, lo, hi).array = Sliced(a, from, count)
                                 /\ Rows(a.shape[1], lo, hi) = from .. from + count - 1
  BY <1>1, SliceRows
<1>4. Inside(h, a, Sliced(a, from, count))
  BY <1>2, <1>3, SlicedInside
<1> QED
  BY <1>2, <1>3, <1>4

(* The index of a stretched view pulled back to the view.                        *)
LEMMA StretchedIs ==
  ASSUME NEW a, Shaped(a), NEW target \in Seq(Nat), CanStretch(a, target)
  PROVE  LET v == BroadcastTo(a, target) pad == Len(target) - Len(a.shape) IN
           /\ Shaped(v) /\ v.buffer = a.buffer /\ v.shape = target /\ v.offset = a.offset
           /\ \A j \in 1 .. Len(target) :
                 v.strides[j] = IF j > pad /\ a.shape[j - pad] = target[j] THEN a.strides[j - pad] ELSE 0
           /\ \A ix \in Indices(target) :
                 /\ Pull(ix, a.shape) \in Indices(a.shape)
                 /\ Position(v, ix) = Position(a, Pull(ix, a.shape))
<1> DEFINE v == BroadcastTo(a, target)
           n == Len(a.shape)
           N == Len(target)
           pad == N - n
           Kept(i) == a.shape[i] = target[pad + i]
           st == [j \in 1 .. N |-> IF j > pad /\ a.shape[j - pad] = target[j] THEN a.strides[j - pad] ELSE 0]
<1>1. a \in Views /\ Len(a.strides) = n /\ a.shape \in Seq(Nat) /\ a.strides \in Seq(Nat) /\ a.offset \in Nat
  BY DEF Shaped, Views
<1>2. n \in Nat /\ N \in Nat /\ pad \in Nat /\ n <= N /\ N = pad + n
  <2>1. n <= N /\ n \in Nat /\ N \in Nat
    BY <1>1 DEF CanStretch
  <2> QED
    BY <2>1
<1>3. \A i \in 1 .. n : a.shape[i] = 1 \/ a.shape[i] = target[pad + i]
  <2>1. DOMAIN a.shape = 1 .. n
    BY <1>1
  <2> QED
    BY <2>1 DEF CanStretch
<1>4. \A i \in 1 .. n : a.shape[i] \in Nat /\ a.strides[i] \in Nat
  <2>1. ASSUME NEW s \in Seq(Nat) PROVE \A i \in 1 .. Len(s) : s[i] \in Nat
    OBVIOUS
  <2> QED
    BY <1>1, <2>1
<1>5. \A j \in 1 .. N : target[j] \in Nat
  OBVIOUS
<1>6. DOMAIN target = 1 .. N
  OBVIOUS
<1>7. v = Strided(a, target, st)
  BY <1>6, Zenon DEF BroadcastTo, Strided
<1> HIDE DEF v, n, N, pad
<1>8. \A j \in 1 .. N : st[j] \in Nat
  <2>1. ASSUME NEW j \in 1 .. N, j > pad PROVE a.strides[j - pad] \in Nat
    <3>1. j - pad \in 1 .. n
      BY <1>2, <2>1
    <3> QED
      BY <1>4, <3>1
  <2> QED
    BY <2>1
<1>9. st \in Seq(Nat) /\ Len(st) = N
  <2>1. st \in [1 .. N -> Nat]
    BY <1>8
  <2> HIDE DEF st
  <2> QED
    BY <1>2, <2>1
<1>10. Shaped(v) /\ v.buffer = a.buffer /\ v.shape = target /\ v.strides = st /\ v.offset = a.offset
  <2> HIDE DEF st
  <2> QED
    <3>1. v \in Views /\ v.buffer = a.buffer /\ v.shape = target /\ v.offset = a.offset /\ v.strides = st
      <4>1. a \in Views
        BY <1>1
      <4>2. st \in Seq(Nat)
        BY <1>9
      <4>3. LET w == Strided(a, target, st) IN
              w \in Views /\ w.buffer = a.buffer /\ w.shape = target /\ w.offset = a.offset /\ w.strides = st
        BY <4>1, <4>2, StridedIs
      <4> QED
        BY <1>7, <4>3
    <3> QED
      BY <1>9, <3>1 DEF Shaped, N
<1>11. ASSUME NEW ix \in Indices(target)
       PROVE  Pull(ix, a.shape) \in Indices(a.shape) /\ Position(v, ix) = Position(a, Pull(ix, a.shape))
  <2> DEFINE jx == Pull(ix, a.shape)
             p == Offsets(v, ix)
             q == Offsets(a, jx)
             T == {k \in 0 .. N : p[k] = IF k <= pad THEN a.offset ELSE q[k - pad]}
  <2>1. Len(ix) = N /\ \A j \in 1 .. N : ix[j] \in Nat /\ ix[j] < target[j]
    BY IndexSeq DEF N
  <2>11. jx = [i \in 1 .. n |-> IF a.shape[i] = 1 THEN 0 ELSE ix[i + N - n]]
    <3>1. DOMAIN a.shape = 1 .. n
      BY <1>1 DEF n
    <3> QED
      BY <2>1, <3>1 DEF Pull, n
  <2>5. ASSUME NEW i \in 1 .. n PROVE jx[i] = IF Kept(i) THEN ix[pad + i] ELSE 0
    <3>1. pad + i \in 1 .. N /\ i + N - n = pad + i
      BY <1>2
    <3>2. ix[pad + i] \in Nat /\ ix[pad + i] < target[pad + i]
      BY <2>1, <3>1
    <3>3. CASE a.shape[i] = 1
      <4>1. jx[i] = 0
        BY <2>11, <3>3
      <4> QED
        BY <3>2, <3>3, <4>1
    <3>4. CASE a.shape[i] # 1
      <4>1. Kept(i)
        BY <1>3, <3>4
      <4>2. jx[i] = ix[pad + i]
        BY <2>11, <3>1, <3>4
      <4> QED
        BY <4>1, <4>2
    <3> QED
      BY <3>3, <3>4
  <2> HIDE DEF jx
  <2>2. ASSUME NEW i \in 1 .. n PROVE jx[i] \in Nat /\ jx[i] < a.shape[i]
    <3>1. pad + i \in 1 .. N
      BY <1>2
    <3>2. ix[pad + i] \in Nat /\ ix[pad + i] < target[pad + i]
      BY <2>1, <3>1
    <3>3. ~Kept(i) => a.shape[i] = 1
      BY <1>3
    <3>4. jx[i] = IF Kept(i) THEN ix[pad + i] ELSE 0
      BY <2>5
    <3> QED
      BY <3>2, <3>3, <3>4
  <2>3. jx \in Indices(a.shape)
    <3>1. jx \in [1 .. n -> Nat]
      BY <2>2, <2>11
    <3> QED
      BY <1>1, <2>2, <3>1, IndicesAre DEF n
  <2>4. /\ \A k \in 0 .. N : p[k] \in Nat
        /\ p[0] = a.offset
        /\ \A k \in 1 .. N : p[k] = p[k - 1] + ix[k] * st[k]
        /\ Position(v, ix) = p[N]
    <3> HIDE DEF st
    <3> QED
      BY <1>10, OffsetsOfIndex DEF N
  <2> HIDE DEF p
  <2>6. /\ \A k \in 0 .. n : q[k] \in Nat
        /\ q[0] = a.offset
        /\ \A k \in 1 .. n : q[k] = q[k - 1] + jx[k] * a.strides[k]
        /\ Position(a, jx) = q[n]
    BY <2>3, OffsetsOfIndex DEF n
  <2> HIDE DEF q
  <2>7. ASSUME NEW k \in 1 .. N, k - 1 \in T PROVE k \in T
    <3>0. k \in 0 .. N /\ k - 1 \in 0 .. N /\ ix[k] \in Nat
      BY <1>2, <2>1
    <3>1. p[k] = p[k - 1] + ix[k] * st[k]
      BY <2>4
    <3>2. CASE k <= pad
      <4>1. st[k] = 0 /\ p[k - 1] = a.offset
        BY <1>2, <2>7, <3>2
      <4>2. ix[k] * 0 = 0
        BY <3>0
      <4>3. p[k] = p[k - 1] + 0
        BY <3>1, <4>1, <4>2
      <4>4. p[k] = a.offset
        BY <1>1, <4>1, <4>3
      <4> QED
        BY <3>0, <3>2, <4>4
    <3>3. CASE k > pad
      <4>1. PICK i \in 1 .. n : i = k - pad /\ pad + i = k
        BY <1>2, <3>3
      <4>2. p[k - 1] = q[i - 1]
        <5>1. CASE k - 1 <= pad
          <6>1. i - 1 = 0 /\ p[k - 1] = a.offset
            BY <1>2, <2>7, <4>1, <5>1
          <6> QED
            BY <2>6, <6>1
        <5>2. CASE ~(k - 1 <= pad)
          <6>1. k - 1 - pad = i - 1
            BY <1>2, <4>1
          <6>2. p[k - 1] = q[k - 1 - pad]
            BY <2>7, <5>2
          <6> QED
            BY <6>1, <6>2
        <5> QED
          BY <5>1, <5>2
      <4>3. st[k] = IF Kept(i) THEN a.strides[i] ELSE 0
        BY <3>3, <4>1
      <4>4. q[i] = q[i - 1] + jx[i] * a.strides[i] /\ a.strides[i] \in Nat
        BY <1>4, <2>6
      <4>5. ix[k] * 0 = 0 /\ 0 * a.strides[i] = 0
        BY <3>0, <4>4
      <4>6. ix[k] * st[k] = jx[i] * a.strides[i]
        <5>1. jx[i] = IF Kept(i) THEN ix[k] ELSE 0
          BY <2>5, <4>1
        <5> HIDE DEF st
        <5> QED
          BY <4>3, <4>5, <5>1
      <4>7. p[k] = q[i]
        <5> HIDE DEF st
        <5> QED
          BY <3>1, <4>2, <4>4, <4>6
      <4>8. ~(k <= pad) /\ k - pad = i
        BY <1>2, <3>3, <4>1
      <4> QED
        BY <3>0, <4>7, <4>8
    <3> QED
      BY <1>2, <3>2, <3>3
  <2>8. N \in T
    <3>1. 0 \in T /\ N \in 0 .. N
      BY <1>2, <2>4
    <3> HIDE DEF T
    <3> QED
      BY <1>2, <2>7, <3>1, Counting
  <2>9. p[N] = q[n]
    <3>1. CASE n = 0
      BY <1>2, <2>6, <2>8, <3>1
    <3>2. CASE n # 0
      <4>1. ~(N <= pad) /\ N - pad = n
        BY <1>2, <3>2
      <4> QED
        BY <2>8, <4>1
    <3> QED
      BY <3>1, <3>2
  <2>10. Position(v, ix) = Position(a, jx)
    BY <2>4, <2>6, <2>9
  <2> QED
    BY <2>3, <2>10 DEF jx
<1>12. \A j \in 1 .. N : v.strides[j] = IF j > pad /\ a.shape[j - pad] = target[j] THEN a.strides[j - pad] ELSE 0
  BY <1>10
<1> QED
  BY <1>10, <1>11, <1>12 DEF v, n, N, pad

LEMMA StretchIs ==
  ASSUME NEW h, NEW a, ViewIn(h, a), NEW target \in Seq(Nat), CanStretch(a, target)
  PROVE  Inside(h, a, BroadcastTo(a, target)) /\ BroadcastTo(a, target).shape = target
<1> DEFINE v == BroadcastTo(a, target)
<1>1. Shaped(a)
  BY DEF ViewIn
<1>2. /\ Shaped(v) /\ v.buffer = a.buffer /\ v.shape = target
      /\ \A ix \in Indices(target) : Pull(ix, a.shape) \in Indices(a.shape) /\ Position(v, ix) = Position(a, Pull(ix, a.shape))
  BY <1>1, StretchedIs
<1> HIDE DEF v
<1>3. \A ix \in Indices(v.shape) : \E jx \in Indices(a.shape) : Position(v, ix) = Position(a, jx)
  BY <1>2
<1> QED
  BY <1>2, <1>3, InsideByIndex DEF v

-----------------------------------------------------------------------------
(* Fresh buffers.                                                                *)
LEMMA UnusedIs ==
  ASSUME NEW h, Heap(h)
  PROVE  Unused(h) \in Nat /\ Unused(h) \notin DOMAIN h
<1> DEFINE S == DOMAIN h
           n == Cardinality(S)
<1>1. IsFiniteSet(S) /\ n \in Nat
  BY FS_CardinalityType DEF Heap
<1> HIDE DEF S, n
<1>2. \E b \in 1 .. n + 1 : b \notin S
  <2>1. SUFFICES ASSUME 1 .. n + 1 \subseteq S PROVE FALSE
    OBVIOUS
  <2>2. Cardinality(1 .. n + 1) <= n
    BY <1>1, <2>1, FS_Subset DEF n
  <2>3. Cardinality(1 .. n + 1) = n + 1
    <3>1. 1 \in Int /\ n + 1 \in Int /\ ~(1 > n + 1) /\ n + 1 - 1 + 1 = n + 1
      BY <1>1
    <3>2. Cardinality(1 .. n + 1) = IF 1 > n + 1 THEN 0 ELSE n + 1 - 1 + 1
      BY <3>1, FS_Interval
    <3> QED
      BY <3>1, <3>2
  <2> QED
    BY <1>1, <2>2, <2>3
<1>3. Unused(h) = CHOOSE b \in 1 .. n + 1 : b \notin S
  BY DEF Unused, n, S
<1>4. Unused(h) \in 1 .. n + 1 /\ Unused(h) \notin S
  BY <1>2, <1>3
<1>5. Unused(h) \in Nat
  BY <1>1, <1>4
<1> QED
  BY <1>4, <1>5 DEF S

Good(h, r, C) == r.ok => Heap(r.heap) /\ Changes(h, r.heap, C) /\ ViewIn(r.heap, r.array)
NewIn(h, r) == r.ok => r.array.buffer \notin DOMAIN h
LEMMA AllocIs ==
  ASSUME NEW h, Heap(h), NEW shape \in Seq(Nat), Product(shape) # TooLarge,
         NEW els \in Seq(Elements), Len(els) = Product(shape)
  PROVE  LET r == Alloc(h, shape, els) IN
           /\ r.ok /\ Good(h, r, {}) /\ NewIn(h, r)
           /\ r.array.shape = shape /\ IsContiguous(r.array) /\ Size(r.array) = Product(shape)
           /\ r.heap[r.array.buffer] = els /\ DOMAIN r.heap = DOMAIN h \union {r.array.buffer}
<1> DEFINE u == Unused(h)
           g == With(h, u, els)
           a == Contiguous(u, shape)
           r == Alloc(h, shape, els)
<1>1. u \in Nat /\ u \notin DOMAIN h
  BY UnusedIs
<1>2. r.ok /\ r.heap = g /\ r.array = a
  BY DEF Alloc, Got
<1> HIDE DEF u, r
<1>3. g = [b \in DOMAIN h \union {u} |-> IF b = u THEN els ELSE h[b]]
  BY DEF With
<1> HIDE DEF g
<1>4. DOMAIN g = DOMAIN h \union {u} /\ g[u] = els /\ \A b \in DOMAIN h : g[b] = h[b]
  BY <1>1, <1>3
<1>5. Heap(g)
  <2>1. \A b \in DOMAIN g : g[b] \in Seq(Elements)
    BY <1>4 DEF Heap
  <2>2. g \in [DOMAIN g -> Seq(Elements)]
    BY <1>3, <2>1
  <2>3. IsFiniteSet(DOMAIN g) /\ DOMAIN g \subseteq Nat
    BY <1>1, <1>4, FS_AddElement DEF Heap
  <2> QED
    BY <2>2, <2>3 DEF Heap
<1>6. Changes(h, g, {})
  BY <1>4 DEF Changes
<1>7. Shaped(a) /\ IsContiguous(a) /\ Size(a) = Product(shape) /\ a.buffer = u /\ a.shape = shape /\ a.offset = 0
  BY <1>1, ContiguousIs
<1> HIDE DEF a
<1>8. ViewIn(g, a)
  <2>1. ASSUME NEW ix \in Indices(a.shape) PROVE Position(a, ix) + 1 \in 1 .. Len(g[a.buffer])
    <3>1. Position(a, ix) \in Nat /\ Position(a, ix) + 1 <= 0 + Size(a)
      BY <1>7, BlockBound
    <3>2. Size(a) \in Nat /\ Len(g[a.buffer]) = Size(a)
      BY <1>4, <1>7, SizeNat
    <3> QED
      BY <3>1, <3>2
  <2> QED
    BY <1>4, <1>7, <2>1 DEF ViewIn
<1> QED
  BY <1>1, <1>2, <1>4, <1>5, <1>6, <1>7, <1>8 DEF Good, NewIn, r

LEMMA ReadAll ==
  ASSUME NEW h, Heap(h), NEW n \in Nat, NEW cells, DOMAIN cells = 1 .. n, \A k \in 1 .. n : Readable(h, cells[k])
  PROVE  LET els == [k \in DOMAIN cells |-> Read(h, cells[k])] IN els \in Seq(Elements) /\ Len(els) = n
<1>1. \A k \in 1 .. n : Read(h, cells[k]) \in Elements
  BY ReadIs
<1> DEFINE els == [k \in DOMAIN cells |-> Read(h, cells[k])]
<1>2. els \in [1 .. n -> Elements]
  BY <1>1
<1> HIDE DEF els
<1>3. els \in Seq(Elements) /\ Len(els) = n
  BY <1>2
<1> QED
  BY <1>3 DEF els

(* A copy in C order is a fresh contiguous array of the shape asked for.         *)
LEMMA InCOrderIs ==
  ASSUME NEW h, Heap(h), NEW a, ViewIn(h, a), NEW dims \in Seq(Nat), Product(dims) = Size(a), InCOrder(h, a, dims).ok
  PROVE  LET r == InCOrder(h, a, dims) IN
           /\ Good(h, r, {}) /\ NewIn(h, r) /\ r.array.shape = dims /\ DOMAIN r.heap = DOMAIN h \union {r.array.buffer}
<1> DEFINE cells == IF IsContiguous(a) THEN Flat(a) ELSE Walked(a)
           els == [k \in DOMAIN cells |-> Read(h, cells[k])]
           r == InCOrder(h, a, dims)
<1>1. Size(a) # TooLarge /\ r = Alloc(h, dims, els)
  BY DEF InCOrder, Throw
<1>2. Size(a) \in Nat
  BY <1>1, SizeNat DEF Size, ViewIn, Shaped, Views
<1>3. DOMAIN cells = 1 .. Size(a) /\ \A k \in 1 .. Size(a) : Readable(h, cells[k])
  BY <1>1, FlatIs, WalkedIs
<1> HIDE DEF cells
<1>4. els \in Seq(Elements) /\ Len(els) = Size(a)
  BY <1>2, <1>3, ReadAll
<1> HIDE DEF els, r
<1>5. /\ Good(h, r, {}) /\ NewIn(h, r) /\ r.array.shape = dims /\ DOMAIN r.heap = DOMAIN h \union {r.array.buffer}
  BY <1>1, <1>4, AllocIs
<1> QED
  BY <1>5 DEF r

LEMMA CopiedIs ==
  ASSUME NEW h, Heap(h), NEW a, ViewIn(h, a), NEW dims \in Seq(Int)
  PROVE  Good(h, Copied(h, a, dims), {}) /\ NewIn(h, Copied(h, a, dims))
<1> DEFINE r == Copied(h, a, dims)
<1>1. CASE ~r.ok
  BY <1>1 DEF Good, NewIn
<1>2. CASE r.ok
  <2>1. Sizable(dims) /\ Product(dims) = Size(a) /\ r = InCOrder(h, a, dims)
    BY <1>2 DEF Copied, Throw
  <2>2. dims \in Seq(Nat)
    <3>1. \A i \in 1 .. Len(dims) : dims[i] \in Nat
      BY <2>1 DEF Sizable, ToSize
    <3> QED
      BY <3>1
  <2> QED
    BY <1>2, <2>1, <2>2, InCOrderIs
<1> QED
  BY <1>1, <1>2

LEMMA FunctionIs == ASSUME NEW e \in Elements PROVE Function(e) \in Elements
<1>1. Word \in Nat \ {0}
  BY NdarrayAssumption
<1>2. \A n \in Int : n % Word \in 0 .. Word - 1
  BY <1>1
<1>3. e \in Int /\ e * e \in Int
  BY <1>1 DEF Elements
<1>4. (e * e) % Word \in 0 .. Word
  BY <1>1, <1>2, <1>3
<1> QED
  BY <1>4 DEF Function, Elements

(* One buffer of a heap rewritten in the cells C.                                *)
LEMMA Rewrite ==
  ASSUME NEW h, Heap(h), NEW b \in DOMAIN h, NEW new \in Seq(Elements), Len(new) = Len(h[b]), NEW C,
         \A p \in 1 .. Len(h[b]) : <<b, p - 1>> \in C \/ new[p] = h[b][p]
  PROVE  LET g == [h EXCEPT ![b] = new] IN Heap(g) /\ Changes(h, g, C) /\ DOMAIN g = DOMAIN h
<1> DEFINE g == [h EXCEPT ![b] = new]
<1>1. DOMAIN g = DOMAIN h /\ g \in [DOMAIN h -> Seq(Elements)] /\ g[b] = new /\ \A c \in DOMAIN h \ {b} : g[c] = h[c]
  BY DEF Heap
<1> HIDE DEF g
<1>2. Heap(g)
  BY <1>1 DEF Heap
<1>3. Changes(h, g, C)
  <2>1. ASSUME NEW c \in DOMAIN h
        PROVE  Len(g[c]) = Len(h[c]) /\ \A p \in 1 .. Len(h[c]) : <<c, p - 1>> \in C \/ g[c][p] = h[c][p]
    BY <1>1
  <2> QED
    BY <1>1, <2>1 DEF Changes
<1> QED
  BY <1>1, <1>2, <1>3 DEF g

LEMMA MappedIs ==
  ASSUME NEW h, Heap(h), NEW a, ViewIn(h, a)
  PROVE  Good(h, Mapped(h, a), {}) /\ NewIn(h, Mapped(h, a))
<1> DEFINE r == Mapped(h, a)
           copy == InCOrder(h, a, a.shape)
           b == copy.array.buffer
           old == copy.heap[b]
           new == [k \in DOMAIN old |-> Function(old[k])]
<1>1. CASE ~r.ok
  BY <1>1 DEF Good, NewIn
<1>2. CASE r.ok
  <2>1. copy.ok /\ r.array = copy.array /\ r.heap = [copy.heap EXCEPT ![b] = new]
    BY <1>2 DEF Mapped, MappedInPlace, Throw, Got
  <2>2. a.shape \in Seq(Nat) /\ Product(a.shape) = Size(a)
    BY DEF ViewIn, Shaped, Views, Size
  <2>3. Good(h, copy, {}) /\ NewIn(h, copy)
    BY <2>1, <2>2, InCOrderIs
  <2>4. Heap(copy.heap) /\ Changes(h, copy.heap, {}) /\ ViewIn(copy.heap, copy.array) /\ b \notin DOMAIN h
    BY <2>1, <2>3 DEF Good, NewIn
  <2>5. b \in DOMAIN copy.heap
    BY <2>4 DEF ViewIn
  <2>6. old \in Seq(Elements)
    BY <2>4, <2>5 DEF Heap
  <2> HIDE DEF copy, r, old
  <2>7. new \in Seq(Elements) /\ Len(new) = Len(old)
    <3>1. new \in [1 .. Len(old) -> Elements]
      BY <2>6, FunctionIs
    <3>2. Len(old) \in Nat
      BY <2>6
    <3> HIDE DEF new
    <3> QED
      BY <3>1, <3>2
  <2> HIDE DEF new, b
  <2> DEFINE C == {<<b, p - 1>> : p \in 1 .. Len(old)}
  <2>8. Heap(r.heap) /\ Changes(copy.heap, r.heap, C)
    <3>1. \A p \in 1 .. Len(copy.heap[b]) : <<b, p - 1>> \in C \/ new[p] = copy.heap[b][p]
      BY DEF old
    <3>2. Len(new) = Len(copy.heap[b])
      BY <2>7 DEF old
    <3> HIDE DEF C
    <3> QED
      <4>1. PICK g : g = copy.heap
        OBVIOUS
      <4>2. Heap(g) /\ b \in DOMAIN g /\ new \in Seq(Elements) /\ Len(new) = Len(g[b])
        BY <2>4, <2>5, <2>7, <3>2, <4>1
      <4>3. \A p \in 1 .. Len(g[b]) : <<b, p - 1>> \in C \/ new[p] = g[b][p]
        BY <3>1, <4>1
      <4>4. LET k == [g EXCEPT ![b] = new] IN Heap(k) /\ Changes(g, k, C)
        BY <4>2, <4>3, Rewrite
      <4> QED
        BY <2>1, <4>1, <4>4
  <2>9. ViewIn(r.heap, r.array)
    BY <2>1, <2>4, <2>8, ViewKept
  <2>10. Changes(h, r.heap, {})
    <3>1. \A c \in DOMAIN h : c \in DOMAIN copy.heap /\ c # b
      BY <2>4 DEF Changes
    <3>2. ASSUME NEW c \in DOMAIN h, NEW p \in 1 .. Len(h[c]) PROVE r.heap[c][p] = h[c][p]
      <4>1. p \in 1 .. Len(copy.heap[c])
        BY <2>4 DEF Changes
      <4>2. <<c, p - 1>> \notin C
        BY <3>1
      <4>3. r.heap[c][p] = copy.heap[c][p]
        BY <2>8, <3>1, <4>1, <4>2 DEF Changes
      <4>4. copy.heap[c][p] = h[c][p]
        BY <2>4 DEF Changes
      <4> QED
        BY <4>3, <4>4
    <3>3. DOMAIN h \subseteq DOMAIN r.heap /\ \A c \in DOMAIN h : Len(r.heap[c]) = Len(h[c])
      BY <2>4, <2>8, <3>1 DEF Changes
    <3> QED
      BY <3>2, <3>3 DEF Changes
  <2> QED
    BY <2>1, <2>4, <2>8, <2>9, <2>10 DEF Good, NewIn, r, b
<1> QED
  BY <1>1, <1>2

-----------------------------------------------------------------------------
(* Arithmetic.                                                                   *)
AnyOp == Operators \union {"r-", "r/"}
LEMMA QuotientIs == ASSUME NEW n \in Nat, NEW d \in Nat \ {0} PROVE n \div d \in 0 .. n
OBVIOUS

LEMMA RemainderIs == ASSUME NEW n \in Int, NEW d \in Nat \ {0} PROVE n % d \in 0 .. d - 1
OBVIOUS

LEMMA CombineIs ==
  ASSUME NEW op \in AnyOp, NEW x \in Elements, NEW y \in Elements
  PROVE  Combine(op, x, y) \in Elements
<1>1. Word \in Nat \ {0} /\ NotANumber \in Elements
  BY NdarrayAssumption DEF Elements, NotANumber
<1>2. CASE NotANumber \in {x, y}
  BY <1>1, <1>2 DEF Combine
<1>3. CASE NotANumber \notin {x, y}
  <2>1. x \in Nat /\ y \in Nat /\ x < Word /\ y < Word
    BY <1>1, <1>3 DEF Elements, NotANumber
  <2>2. \A n \in Int : n % Word \in Elements
    <3>1. ASSUME NEW n \in Int PROVE n % Word \in Elements
      <4>1. n % Word \in 0 .. Word - 1
        BY <1>1, RemainderIs
      <4> QED
        BY <1>1, <4>1 DEF Elements
    <3> QED
      BY <3>1
  <2>3. \A n, d \in Nat : n < Word /\ d # 0 => n \div d \in Elements
    <3>1. ASSUME NEW n \in Nat, NEW d \in Nat, n < Word, d # 0 PROVE n \div d \in Elements
      <4>1. n \div d \in 0 .. n
        BY <3>1, QuotientIs
      <4> QED
        BY <1>1, <3>1, <4>1 DEF Elements
    <3> QED
      BY <3>1
  <2>4. x + y \in Int /\ x - y \in Int /\ x * y \in Int /\ y - x \in Int
    BY <2>1
  <2>5. (x + y) % Word \in Elements /\ (x - y) % Word \in Elements /\ (x * y) % Word \in Elements /\ (y - x) % Word \in Elements
    BY <2>2, <2>4
  <2>6. (y # 0 => x \div y \in Elements) /\ (x # 0 => y \div x \in Elements)
    BY <2>1, <2>3
  <2>7. op \in {"+", "-", "*", "/", "r-", "r/"}
    BY DEF AnyOp, Operators
  <2>8. CASE op = "+"
    BY <1>3, <2>5, <2>8 DEF Combine
  <2>9. CASE op = "-"
    BY <1>3, <2>5, <2>9 DEF Combine
  <2>10. CASE op = "*"
    BY <1>3, <2>5, <2>10 DEF Combine
  <2>11. CASE op = "/"
    BY <1>1, <1>3, <2>6, <2>11 DEF Combine
  <2>12. CASE op = "r-"
    BY <1>3, <2>5, <2>12 DEF Combine
  <2>13. CASE op = "r/"
    BY <1>1, <1>3, <2>6, <2>13 DEF Combine
  <2> QED
    BY <2>7, <2>8, <2>9, <2>10, <2>11, <2>12, <2>13
<1> QED
  BY <1>2, <1>3

(* One block of a vectorized loop writes into the destination only.              *)
Terms(h, list, n) == \A i \in 1 .. n : Readable(h, list[i])
LEMMA OneBlockIs ==
  ASSUME NEW h, Heap(h), NEW op \in AnyOp, NEW to, ViewIn(h, to), IsContiguous(to),
         NEW left, NEW right, Terms(h, left, Size(to)), Terms(h, right, Size(to)),
         NEW places, places \subseteq 1 .. Size(to)
  PROVE  LET g == OneBlock(h, op, to, left, right, places) IN
           Heap(g) /\ Changes(h, g, CellsOf(to)) /\ DOMAIN g = DOMAIN h
<1> DEFINE b == to.buffer
           old == h[b]
           E(i) == Combine(op, Read(h, left[i]), Read(h, right[i]))
           new == [p \in DOMAIN old |-> IF p - to.offset \in places THEN E(p - to.offset) ELSE old[p]]
           C == CellsOf(to)
           g == OneBlock(h, op, to, left, right, places)
<1>1. g = [h EXCEPT ![b] = new]
  BY DEF OneBlock
<1>2. b \in DOMAIN h
  BY DEF ViewIn
<1>3. old \in Seq(Elements)
  BY <1>2 DEF Heap
<1>4. to.offset \in Nat /\ to.shape \in Seq(Nat)
  BY DEF ViewIn, Shaped, Views
<1>5. ASSUME NEW i \in places PROVE E(i) \in Elements
  <2>1. i \in 1 .. Size(to)
    OBVIOUS
  <2>2. Readable(h, left[i]) /\ Readable(h, right[i])
    BY <2>1 DEF Terms
  <2>3. Read(h, left[i]) \in Elements /\ Read(h, right[i]) \in Elements
    BY <2>2, ReadIs
  <2> QED
    BY <2>3, CombineIs
<1>6. Len(old) \in Nat /\ DOMAIN old = 1 .. Len(old) /\ \A p \in 1 .. Len(old) : old[p] \in Elements
  BY <1>3
<1> HIDE DEF E, old, g
<1>7. new \in [1 .. Len(old) -> Elements]
  BY <1>5, <1>6
<1>8. new \in Seq(Elements) /\ Len(new) = Len(old)
  <2> HIDE DEF new
  <2> QED
    BY <1>6, <1>7
<1>9. ASSUME NEW p \in 1 .. Len(old) PROVE <<b, p - 1>> \in C \/ new[p] = old[p]
  <2>1. CASE p - to.offset \in places
    <3>1. PICK k \in 1 .. Size(to) : k = p - to.offset
      BY <2>1
    <3>2. <<to.buffer, to.offset + k - 1>> \in C
      BY <3>1, BlockInside
    <3>3. Size(to) \in Counts
      BY <1>4, SizeNat DEF Size
    <3>4. k \in Int /\ p \in Int
      BY <1>6, <3>3 DEF Counts, TooLarge
    <3>5. to.offset + k - 1 = p - 1
      BY <1>4, <3>1, <3>4
    <3> HIDE DEF C
    <3> QED
      BY <3>2, <3>5
  <2>2. CASE p - to.offset \notin places
    BY <1>6, <2>2
  <2> QED
    BY <2>1, <2>2
<1> HIDE DEF new, b, C
<1>10. LET k == [h EXCEPT ![b] = new] IN Heap(k) /\ Changes(h, k, C) /\ DOMAIN k = DOMAIN h
  <2>1. Len(new) = Len(h[b]) /\ \A p \in 1 .. Len(h[b]) : <<b, p - 1>> \in C \/ new[p] = h[b][p]
    BY <1>8, <1>9 DEF old
  <2> QED
    BY <1>2, <1>8, <2>1, Rewrite
<1> QED
  BY <1>1, <1>10 DEF g, C

LEMMA TermsKept ==
  ASSUME NEW h, NEW g, NEW C, NEW list, NEW n, Terms(h, list, n), Changes(h, g, C) PROVE Terms(g, list, n)
BY ReadableKept DEF Terms

(* The blocks of a loop, one after the other.                                    *)
BlocksRun(h, op, to, left, right, block, p) ==
  LET n == Size(to) IN
  /\ p[0] = h
  /\ \A j \in 0 .. n : Heap(p[j]) /\ Changes(h, p[j], CellsOf(to)) /\ DOMAIN p[j] = DOMAIN h
  /\ \A j \in 1 .. n :
        p[j] = OneBlock(p[j - 1], op, to, left, right, ((j - 1) * block + 1 .. j * block) \intersect (1 .. n))
LEMMA TransformRuns ==
  ASSUME NEW h, Heap(h), NEW op \in AnyOp, NEW to, ViewIn(h, to), IsContiguous(to), Size(to) # TooLarge,
         NEW left, NEW right, Terms(h, left, Size(to)), Terms(h, right, Size(to)), NEW block \in Nat \ {0}
  PROVE  LET last == (Size(to) + block - 1) \div block IN
           /\ Size(to) \in Nat /\ last \in 0 .. Size(to)
           /\ \E p : Transform(h, op, to, left, right, block) = p[last] /\ BlocksRun(h, op, to, left, right, block, p)
<1> DEFINE n == Size(to)
           C == CellsOf(to)
           Places(j) == ((j - 1) * block + 1 .. j * block) \intersect (1 .. n)
           Step(g, j) == OneBlock(g, op, to, left, right, Places(j))
           X == {g \in [DOMAIN h -> Seq(Elements)] : Heap(g) /\ Changes(h, g, C)}
           s == [j \in 1 .. n |-> [g \in X |-> Step(g, j)]]
           F(t) == [j \in 0 .. n |-> IF j = 0 THEN h ELSE Step(t[j - 1], j)]
           p == CHOOSE t : t = F(t)
           last == (n + block - 1) \div block
<1>1. n \in Nat
  BY SizeNat DEF Size, ViewIn, Shaped, Views
<1>2. h \in X
  <2>1. Changes(h, h, C)
    BY DEF Changes
  <2> QED
    BY <2>1 DEF Heap
<1>3. ASSUME NEW g \in X, NEW j \in 1 .. n PROVE Step(g, j) \in X
  <2>1. Heap(g) /\ Changes(h, g, C) /\ DOMAIN g = DOMAIN h
    OBVIOUS
  <2>2. ViewIn(g, to) /\ Terms(g, left, n) /\ Terms(g, right, n)
    BY <2>1, ViewKept, TermsKept
  <2>3. Places(j) \subseteq 1 .. n
    OBVIOUS
  <2> DEFINE k == Step(g, j)
  <2> HIDE DEF X, Places
  <2>4. Heap(k) /\ Changes(g, k, C) /\ DOMAIN k = DOMAIN g
    BY <2>1, <2>2, <2>3, OneBlockIs
  <2> HIDE DEF k, C
  <2>5. Changes(h, k, C)
    BY <2>1, <2>4, ChangesThen
  <2>6. k \in [DOMAIN h -> Seq(Elements)]
    BY <2>1, <2>4 DEF Heap
  <2> QED
    BY <2>4, <2>5, <2>6 DEF X, k
<1> HIDE DEF n, X, Step
<1>4. s \in [1 .. n -> [X -> X]]
  BY <1>3
<1>5. PICK f \in [0 .. n -> X] : Runs(X, n, h, s, f)
  <2> HIDE DEF s
  <2> QED
    BY <1>1, <1>2, <1>4, Recursion
<1>6. \A j \in 1 .. n : f[j] = Step(f[j - 1], j)
  <2>1. \A j \in 1 .. n : j - 1 \in 0 .. n
    BY <1>1
  <2>2. \A j \in 1 .. n : f[j] = s[j][f[j - 1]]
    BY <1>5 DEF Runs
  <2> QED
    BY <1>5, <2>1, <2>2
<1>7. f = F(f)
  BY <1>5, <1>6 DEF Runs
<1>8. p = F(p)
  BY <1>7
<1>9. Transform(h, op, to, left, right, block) = p[last]
  BY DEF Transform, n, Step
<1> HIDE DEF p, last
<1>10. p[0] = h /\ \A j \in 1 .. n : p[j] = Step(p[j - 1], j)
  <2>1. 0 \in 0 .. n /\ \A j \in 1 .. n : j \in 0 .. n /\ j # 0
    BY <1>1
  <2> QED
    BY <1>8, <2>1
<1> DEFINE T == {j \in 0 .. n : p[j] \in X}
<1>11. ASSUME NEW j \in 1 .. n, j - 1 \in T PROVE j \in T
  BY <1>1, <1>3, <1>10, <1>11
<1>12. \A j \in 0 .. n : p[j] \in X
  <2>1. 0 \in T
    BY <1>1, <1>2, <1>10
  <2>2. \A j \in 0 .. n : j \in T
    <3> HIDE DEF T
    <3> QED
      BY <1>1, <1>11, <2>1, Counting
  <2> QED
    BY <2>2
<1>13. last \in 0 .. n
  BY <1>1 DEF last
<1>14. BlocksRun(h, op, to, left, right, block, p)
  <2>1. \A j \in 0 .. n : Heap(p[j]) /\ Changes(h, p[j], C) /\ DOMAIN p[j] = DOMAIN h
    BY <1>12 DEF X
  <2>2. \A j \in 1 .. n : p[j] = OneBlock(p[j - 1], op, to, left, right, Places(j))
    BY <1>10 DEF Step
  <2> QED
    BY <1>10, <2>1, <2>2 DEF n, BlocksRun
<1>15. n \in Nat /\ last \in 0 .. n
  BY <1>1, <1>13
<1> QED
  BY <1>9, <1>14, <1>15 DEF n, last

LEMMA TransformIs ==
  ASSUME NEW h, Heap(h), NEW op \in AnyOp, NEW to, ViewIn(h, to), IsContiguous(to), Size(to) # TooLarge,
         NEW left, NEW right, Terms(h, left, Size(to)), Terms(h, right, Size(to)), NEW block \in Nat \ {0}
  PROVE  LET g == Transform(h, op, to, left, right, block) IN Heap(g) /\ Changes(h, g, CellsOf(to)) /\ DOMAIN g = DOMAIN h
<1> DEFINE last == (Size(to) + block - 1) \div block
<1>1. last \in 0 .. Size(to) /\ \E p : Transform(h, op, to, left, right, block) = p[last] /\ BlocksRun(h, op, to, left, right, block, p)
  BY TransformRuns
<1> HIDE DEF last
<1> QED
  BY <1>1 DEF BlocksRun

-----------------------------------------------------------------------------
(* Broadcasting: both operands stretch to the common shape.                      *)
LEMMA BroadcastIs ==
  ASSUME NEW s \in Seq(Nat), NEW t \in Seq(Nat), Broadcastable(s, t)
  PROVE  LET u == BroadcastShapes(s, t) IN
           /\ u \in Seq(Nat)
           /\ Len(s) <= Len(u) /\ \A i \in 1 .. Len(s) : s[i] \in {1, u[Len(u) - Len(s) + i]}
           /\ Len(t) <= Len(u) /\ \A i \in 1 .. Len(t) : t[i] \in {1, u[Len(u) - Len(t) + i]}
<1> DEFINE n == Longest(s, t)
           P == Padded(s, n)
           Q == Padded(t, n)
           u == BroadcastShapes(s, t)
<1>1. n \in Nat /\ Len(s) <= n /\ Len(t) <= n /\ Len(s) \in Nat /\ Len(t) \in Nat
  BY DEF Longest
<1> HIDE DEF n
<1>2. ASSUME NEW w \in Seq(Nat), Len(w) <= n, NEW i \in 1 .. n PROVE Padded(w, n)[i] \in Nat
  <2>1. CASE i <= n - Len(w)
    BY <2>1 DEF Padded
  <2>2. CASE ~(i <= n - Len(w))
    <3>1. Len(w) \in Nat /\ i \in Nat /\ i <= n
      BY <1>1
    <3>2. i - (n - Len(w)) \in 1 .. Len(w)
      BY <1>1, <1>2, <2>2, <3>1
    <3>3. PICK j \in 1 .. Len(w) : j = i - (n - Len(w))
      BY <3>2
    <3> QED
      BY <2>2, <3>3 DEF Padded
  <2> QED
    BY <2>1, <2>2
<1>3. ASSUME NEW w \in Seq(Nat), Len(w) <= n, NEW i \in 1 .. Len(w)
      PROVE  n - Len(w) + i \in 1 .. n /\ Padded(w, n)[n - Len(w) + i] = w[i]
  <2>1. Len(w) \in Nat /\ i \in Nat /\ 1 <= i /\ i <= Len(w)
    OBVIOUS
  <2>2. n - Len(w) + i \in 1 .. n
    BY <1>1, <1>3, <2>1
  <2>3. PICK j \in 1 .. n : j = n - Len(w) + i
    BY <2>2
  <2>4. ~(j <= n - Len(w)) /\ i = j - (n - Len(w))
    BY <1>1, <2>1, <2>3
  <2> QED
    BY <2>3, <2>4 DEF Padded
<1>4. \A i \in 1 .. n : P[i] \in Nat /\ Q[i] \in Nat
  BY <1>1, <1>2
<1>5. \A i \in 1 .. n : P[i] = Q[i] \/ 1 \in {P[i], Q[i]}
  BY DEF Broadcastable, n
<1>6. \A i \in 1 .. Len(s) : n - Len(s) + i \in 1 .. n /\ P[n - Len(s) + i] = s[i]
  BY <1>1, <1>3
<1>7. \A i \in 1 .. Len(t) : n - Len(t) + i \in 1 .. n /\ Q[n - Len(t) + i] = t[i]
  BY <1>1, <1>3
<1> HIDE DEF P, Q
<1>8. u = [i \in 1 .. n |-> IF Q[i] = 1 THEN P[i] ELSE Q[i]]
  BY DEF BroadcastShapes, n, P, Q
<1> HIDE DEF u
<1>9. u \in [1 .. n -> Nat]
  BY <1>4, <1>8
<1>10. u \in Seq(Nat) /\ Len(u) = n
  BY <1>1, <1>9
<1>11. \A i \in 1 .. n : P[i] \in {1, u[i]} /\ Q[i] \in {1, u[i]}
  BY <1>5, <1>8
<1>12. \A i \in 1 .. Len(s) : s[i] \in {1, u[n - Len(s) + i]}
  BY <1>6, <1>11
<1>13. \A i \in 1 .. Len(t) : t[i] \in {1, u[n - Len(t) + i]}
  BY <1>7, <1>11
<1> QED
  BY <1>1, <1>10, <1>12, <1>13 DEF u

LEMMA OperandsStretch ==
  ASSUME NEW a, Shaped(a), NEW b, Shaped(b), Broadcastable(a.shape, b.shape)
  PROVE  LET u == BroadcastShapes(a.shape, b.shape) IN u \in Seq(Nat) /\ CanStretch(a, u) /\ CanStretch(b, u)
<1>1. a.shape \in Seq(Nat) /\ b.shape \in Seq(Nat)
  BY DEF Shaped, Views
<1>2. DOMAIN a.shape = 1 .. Len(a.shape) /\ DOMAIN b.shape = 1 .. Len(b.shape)
  BY <1>1
<1> QED
  BY <1>1, <1>2, BroadcastIs DEF CanStretch

LEMMA RepeatedIs ==
  ASSUME NEW h, Heap(h), NEW a, ViewIn(h, a), Size(a) = 1, NEW n \in Nat
  PROVE  Terms(h, Repeated(h, a, n), n)
<1>1. Shaped(a) /\ a.shape \in Seq(Nat) /\ a.offset \in Nat
  BY DEF ViewIn, Shaped, Views
<1>2. Origin(a.shape) \in Indices(a.shape)
  <2>1. Product(a.shape) # TooLarge /\ Product(a.shape) > 0
    BY DEF Size, TooLarge
  <2> QED
    BY <1>1, <2>1, OriginIs
<1>3. Position(a, Origin(a.shape)) = a.offset
  BY <1>1, <1>2, OriginPosition
<1>4. a.buffer \in DOMAIN h /\ a.offset + 1 \in 1 .. Len(h[a.buffer])
  BY <1>2, <1>3 DEF ViewIn
<1> DEFINE c == Cell(a, a.offset)
           e == Read(h, c)
<1>5. Readable(h, c)
  BY <1>4 DEF Cell, Readable
<1> HIDE DEF c
<1>6. e \in Elements
  BY <1>5, ReadIs
<1> HIDE DEF e
<1>7. Repeated(h, a, n) = [k \in 1 .. n |-> <<"value", e>>]
  BY DEF Repeated, e, c
<1> QED
  BY <1>6, <1>7 DEF Terms, Readable

(* Each loop of an arithmetic operation reads as many terms as it writes.        *)
LEMMA LoopIs ==
  ASSUME NEW h, Heap(h), NEW a, ViewIn(h, a), NEW b, ViewIn(h, b), NEW shape \in Seq(Nat),
         CanStretch(a, shape), CanStretch(b, shape), ~Unsized(a, b, shape)
  PROVE  LET do == LoopFor(h, a, b, shape) IN
           /\ Terms(h, do.left, Product(shape)) /\ Terms(h, do.right, Product(shape))
<1> DEFINE av == BroadcastTo(a, shape)
           bv == BroadcastTo(b, shape)
           n == Product(shape)
           do == LoopFor(h, a, b, shape)
<1>1. Size(a) # TooLarge /\ Size(b) # TooLarge /\ n # TooLarge
  BY DEF Unsized
<1>2. ViewIn(h, av) /\ ViewIn(h, bv) /\ av.shape = shape /\ bv.shape = shape
  BY StretchIs DEF Inside
<1>3. Size(av) = n /\ Size(bv) = n /\ n \in Nat
  BY <1>1, <1>2, SizeNat DEF Size
<1>4. do = LoopOver(h, a, b, av, bv, shape)
  BY DEF LoopFor
<1> HIDE DEF do, av, bv, n
<1>5. CASE Size(b) = 1 /\ a.shape = shape /\ IsContiguous(a)
  <2>1. do.left = Flat(a) /\ do.right = Repeated(h, b, Size(a))
    BY <1>4, <1>5 DEF LoopOver
  <2>2. Size(a) = n
    BY <1>5 DEF n, Size
  <2>3. Terms(h, Flat(a), n)
    BY <1>1, <1>5, <2>2, FlatIs DEF Terms
  <2>4. Terms(h, Repeated(h, b, Size(a)), n)
    BY <1>3, <1>5, <2>2, RepeatedIs
  <2> QED
    BY <2>1, <2>3, <2>4 DEF do, n
<1>6. CASE ~(Size(b) = 1 /\ a.shape = shape /\ IsContiguous(a)) /\ Size(a) = 1 /\ b.shape = shape /\ IsContiguous(b)
  <2>1. do.left = Repeated(h, a, Size(b)) /\ do.right = Flat(b)
    BY <1>4, <1>6 DEF LoopOver
  <2>2. Size(b) = n
    BY <1>6 DEF n, Size
  <2>3. Terms(h, Flat(b), n)
    BY <1>1, <1>6, <2>2, FlatIs DEF Terms
  <2>4. Terms(h, Repeated(h, a, Size(b)), n)
    BY <1>3, <1>6, <2>2, RepeatedIs
  <2> QED
    BY <2>1, <2>3, <2>4 DEF do, n
<1>7. CASE /\ ~(Size(b) = 1 /\ a.shape = shape /\ IsContiguous(a))
           /\ ~(Size(a) = 1 /\ b.shape = shape /\ IsContiguous(b))
  <2>1. \/ IsContiguous(av) /\ IsContiguous(bv) /\ do.left = Flat(av) /\ do.right = Flat(bv)
        \/ do.left = Walked(av) /\ do.right = Walked(bv)
    BY <1>4, <1>7 DEF LoopOver
  <2>2. Terms(h, Walked(av), n) /\ Terms(h, Walked(bv), n)
    BY <1>1, <1>2, <1>3, WalkedIs DEF Terms
  <2>3. IsContiguous(av) /\ IsContiguous(bv) => Terms(h, Flat(av), n) /\ Terms(h, Flat(bv), n)
    BY <1>1, <1>2, <1>3, FlatIs DEF Terms
  <2> QED
    BY <2>1, <2>2, <2>3 DEF do, n
<1> QED
  BY <1>5, <1>6, <1>7

(* Changes outside the old buffers do not count.                                 *)
LEMMA ChangesWithin ==
  ASSUME NEW h, NEW g, NEW C, NEW S, Changes(h, g, C), \A c \in C : c \in S \/ c[1] \notin DOMAIN h
  PROVE  Changes(h, g, S)
<1>1. ASSUME NEW b \in DOMAIN h, NEW p \in 1 .. Len(h[b]) PROVE <<b, p - 1>> \in S \/ g[b][p] = h[b][p]
  <2>1. <<b, p - 1>> \in C \/ g[b][p] = h[b][p]
    BY DEF Changes
  <2>2. <<b, p - 1>>[1] = b
    OBVIOUS
  <2>3. <<b, p - 1>> \in C => <<b, p - 1>> \in S
    BY <2>2
  <2> QED
    BY <2>1, <2>3
<1> QED
  BY <1>1 DEF Changes

LEMMA CellsThere ==
  ASSUME NEW a, NEW c \in CellsOf(a) PROVE c[1] = a.buffer
<1>1. PICK ix \in Indices(a.shape) : c = <<a.buffer, Position(a, ix)>>
  BY DEF CellsOf
<1> QED
  BY <1>1

LEMMA ComputedIs ==
  ASSUME NEW op \in AnyOp, NEW new, Heap(new.heap), ViewIn(new.heap, new.array), IsContiguous(new.array),
         Size(new.array) # TooLarge, NEW do, Terms(new.heap, do.left, Size(new.array)),
         Terms(new.heap, do.right, Size(new.array)), NEW block \in Nat \ {0},
         Computed(op, new, do, block).ok
  PROVE  LET r == Computed(op, new, do, block) IN
           r.array = new.array /\ Heap(r.heap) /\ Changes(new.heap, r.heap, CellsOf(new.array))
<1> DEFINE B == IF do.walks THEN 1 ELSE block
           g == Transform(new.heap, op, new.array, do.left, do.right, B)
           r == Computed(op, new, do, block)
<1>1. r.array = new.array /\ r.heap = g
  BY DEF Computed, Throw, Got
<1>2. B \in Nat \ {0}
  OBVIOUS
<1> HIDE DEF B, r
<1>3. Heap(g) /\ Changes(new.heap, g, CellsOf(new.array))
  BY <1>2, TransformIs
<1> QED
  BY <1>1, <1>3 DEF r

LEMMA FreshForIs ==
  ASSUME NEW h, Heap(h), NEW op \in AnyOp, NEW a, ViewIn(h, a), NEW b, ViewIn(h, b), NEW shape \in Seq(Nat),
         CanStretch(a, shape), CanStretch(b, shape)
  PROVE  Good(h, FreshFor(h, op, a, b, shape), {}) /\ NewIn(h, FreshFor(h, op, a, b, shape))
<1> DEFINE r == FreshFor(h, op, a, b, shape)
           n == Product(shape)
           zeros == [k \in 1 .. n |-> 0]
           new == Alloc(h, shape, zeros)
           do == LoopFor(h, a, b, shape)
<1>1. CASE ~r.ok
  BY <1>1 DEF Good, NewIn
<1>2. CASE r.ok
  <2>1. ~Unsized(a, b, shape) /\ r = Computed(op, new, do, 1)
    BY <1>2 DEF FreshFor, Throw
  <2>2. n # TooLarge /\ n \in Nat
    BY <2>1, SizeNat DEF Unsized
  <2>3. Terms(h, do.left, n) /\ Terms(h, do.right, n)
    BY <2>1, LoopIs
  <2>4. zeros \in Seq(Elements) /\ Len(zeros) = n
    <3>1. 0 \in Elements
      BY NdarrayAssumption DEF Elements
    <3>2. zeros \in [1 .. n -> Elements]
      BY <3>1
    <3> HIDE DEF zeros, n
    <3> QED
      BY <2>2, <3>2
  <2> HIDE DEF zeros, do, r
  <2>5. /\ new.ok /\ Good(h, new, {}) /\ NewIn(h, new)
        /\ IsContiguous(new.array) /\ Size(new.array) = n
    BY <2>2, <2>4, AllocIs
  <2> HIDE DEF new, n
  <2>6. Heap(new.heap) /\ Changes(h, new.heap, {}) /\ ViewIn(new.heap, new.array) /\ new.array.buffer \notin DOMAIN h
    BY <2>5 DEF Good, NewIn
  <2>7. Terms(new.heap, do.left, n) /\ Terms(new.heap, do.right, n)
    BY <2>3, <2>6, TermsKept
  <2>8. 1 \in Nat \ {0}
    OBVIOUS
  <2>9. r.array = new.array /\ Heap(r.heap) /\ Changes(new.heap, r.heap, CellsOf(new.array))
    BY <1>2, <2>1, <2>2, <2>5, <2>6, <2>7, <2>8, ComputedIs
  <2>10. Changes(h, r.heap, CellsOf(new.array))
    BY <2>6, <2>9, ChangesMore, ChangesThen
  <2>11. Changes(h, r.heap, {})
    <3>1. \A c \in CellsOf(new.array) : c \in {} \/ c[1] \notin DOMAIN h
      BY <2>6, CellsThere
    <3> QED
      BY <2>10, <3>1, ChangesWithin
  <2>12. ViewIn(r.heap, r.array)
    BY <2>6, <2>9, ViewKept
  <2> QED
    BY <2>6, <2>9, <2>11, <2>12 DEF Good, NewIn, r
<1> QED
  BY <1>1, <1>2

LEMMA BinaryOpIs ==
  ASSUME NEW h, Heap(h), NEW op \in AnyOp, NEW a, ViewIn(h, a), NEW b, ViewIn(h, b)
  PROVE  Good(h, BinaryOp(h, op, a, b), {}) /\ NewIn(h, BinaryOp(h, op, a, b))
<1> DEFINE shape == BroadcastShapes(a.shape, b.shape)
<1>1. CASE ~Broadcastable(a.shape, b.shape)
  BY <1>1 DEF BinaryOp, Throw, Good, NewIn
<1>2. CASE Broadcastable(a.shape, b.shape)
  <2>1. shape \in Seq(Nat) /\ CanStretch(a, shape) /\ CanStretch(b, shape)
    BY <1>2, OperandsStretch DEF ViewIn
  <2>2. BinaryOp(h, op, a, b) = FreshFor(h, op, a, b, shape)
    BY <1>2 DEF BinaryOp
  <2> HIDE DEF shape
  <2> QED
    BY <2>1, <2>2, FreshForIs
<1> QED
  BY <1>1, <1>2

LEMMA BinaryOpIntoIs ==
  ASSUME NEW h, Heap(h), NEW op \in AnyOp, NEW out, ViewIn(h, out), NEW a, ViewIn(h, a), NEW b, ViewIn(h, b),
         NEW block \in Nat \ {0}
  PROVE  Good(h, BinaryOpInto(h, op, out, a, b, block), CellsOf(out))
<1> DEFINE r == BinaryOpInto(h, op, out, a, b, block)
           new == Got(h, out)
           do == LoopFor(h, a, b, out.shape)
<1>1. CASE ~r.ok
  BY <1>1 DEF Good
<1>2. CASE r.ok
  <2>1. /\ Broadcastable(a.shape, b.shape) /\ out.shape = BroadcastShapes(a.shape, b.shape)
        /\ IsContiguous(out) /\ ~Unsized(a, b, out.shape) /\ r = Computed(op, new, do, block)
    BY <1>2 DEF BinaryOpInto, Throw
  <2>2. out.shape \in Seq(Nat) /\ CanStretch(a, out.shape) /\ CanStretch(b, out.shape)
    BY <2>1, OperandsStretch DEF ViewIn
  <2>3. Size(out) # TooLarge
    BY <2>1 DEF Unsized, Size
  <2>4. Terms(h, do.left, Size(out)) /\ Terms(h, do.right, Size(out))
    BY <2>1, <2>2, LoopIs DEF Size
  <2>5. new.heap = h /\ new.array = out
    BY DEF Got
  <2> HIDE DEF r, new, do
  <2>6. r.array = out /\ Heap(r.heap) /\ Changes(h, r.heap, CellsOf(out))
    BY <1>2, <2>1, <2>3, <2>4, <2>5, ComputedIs
  <2>7. ViewIn(r.heap, r.array)
    BY <2>6, ViewKept
  <2> QED
    BY <2>6, <2>7 DEF Good, r
<1> QED
  BY <1>1, <1>2

LEMMA CompoundIs ==
  ASSUME NEW h, Heap(h), NEW op \in AnyOp, NEW a, ViewIn(h, a), NEW b, ViewIn(h, b), NEW block \in Nat \ {0}
  PROVE  Good(h, CompoundApply(h, op, a, b, block), CellsOf(a))
<1> DEFINE r == CompoundApply(h, op, a, b, block)
<1>1. ASSUME NEW right, ~Unsized(a, b, a.shape), IsContiguous(a), Terms(h, right, Size(a)),
             r = Got(Transform(h, op, a, Flat(a), right, block), a)
      PROVE  Good(h, r, CellsOf(a))
  <2> DEFINE g == Transform(h, op, a, Flat(a), right, block)
  <2>1. Size(a) # TooLarge
    BY <1>1 DEF Unsized
  <2>2. Terms(h, Flat(a), Size(a))
    BY <1>1, <2>1, FlatIs DEF Terms
  <2>3. Heap(g) /\ Changes(h, g, CellsOf(a))
    BY <1>1, <2>1, <2>2, TransformIs
  <2>4. r.heap = g /\ r.array = a
    BY <1>1 DEF Got
  <2> HIDE DEF g, r
  <2>5. ViewIn(g, a)
    BY <2>3, ViewKept
  <2> QED
    BY <2>3, <2>4, <2>5 DEF Good
<1>2. CASE Unsized(a, b, a.shape)
  BY <1>2 DEF CompoundApply, Throw, Good
<1>3. CASE ~Unsized(a, b, a.shape) /\ IsContiguous(a) /\ Size(b) = 1
  <2>1. r = Got(Transform(h, op, a, Flat(a), Repeated(h, b, Size(a)), block), a)
    BY <1>3 DEF CompoundApply
  <2>2. Size(a) \in Nat
    BY <1>3, SizeNat DEF Unsized, Size, ViewIn, Shaped, Views
  <2>3. Terms(h, Repeated(h, b, Size(a)), Size(a))
    BY <1>3, <2>2, RepeatedIs
  <2> HIDE DEF r
  <2> QED
    BY <1>1, <1>3, <2>1, <2>3 DEF r
<1>4. CASE ~Unsized(a, b, a.shape) /\ IsContiguous(a) /\ Size(b) # 1 /\ b.shape = a.shape /\ IsContiguous(b)
  <2>1. r = Got(Transform(h, op, a, Flat(a), Flat(b), block), a)
    BY <1>4 DEF CompoundApply
  <2>2. Size(b) = Size(a) /\ Size(b) # TooLarge
    BY <1>4 DEF Unsized, Size
  <2>3. Terms(h, Flat(b), Size(a))
    BY <1>4, <2>2, FlatIs DEF Terms
  <2> HIDE DEF r
  <2> QED
    BY <1>1, <1>4, <2>1, <2>3 DEF r
<1>5. CASE ~Unsized(a, b, a.shape) /\ ~(IsContiguous(a) /\ Size(b) = 1) /\ ~(IsContiguous(a) /\ Size(b) # 1 /\ b.shape = a.shape /\ IsContiguous(b))
  <2>1. r = BinaryOp(h, op, a, b)
    BY <1>5 DEF CompoundApply
  <2>2. Good(h, BinaryOp(h, op, a, b), {})
    BY BinaryOpIs
  <2> HIDE DEF r
  <2>3. Good(h, r, {})
    BY <2>1, <2>2
  <2> QED
    BY <2>3, ChangesMore DEF Good, r
<1> QED
  BY <1>2, <1>3, <1>4, <1>5

-----------------------------------------------------------------------------
(* The operands of an expression, and what it may compute into.                  *)
AllIn(h) == \A x \in DOMAIN arrays : ViewIn(h, arrays[x])
Within(h, a, S) == \A c \in CellsOf(a) : c \in S \/ c[1] \notin DOMAIN h
LEMMA AllKept ==
  ASSUME NEW h, NEW g, NEW C, AllIn(h), Changes(h, g, C) PROVE AllIn(g)
BY ViewKept DEF AllIn

LEMMA ScalarShape == <<>> \in Seq(Nat) /\ Product(<<>>) = 1
<1>1. <<>> \in Seq(Nat) /\ Len(<<>>) = 0
  OBVIOUS
<1>2. Products(<<>>)[0] = 1
  BY <1>1, ProductsAre
<1> QED
  BY <1>1, <1>2 DEF Product

LEMMA OperandKinds ==
  ASSUME NEW o \in AnyOperand
  PROVE  \/ o[1] \in {"name", "map"} /\ o[2] \in Names
         \/ o[1] = "slice" /\ o[2] \in Names /\ o[3] \in Int /\ o[4] \in Int
         \/ o[1] = "stretch" /\ o[2] \in Names /\ o[3] \in Seq(Nat)
         \/ o[1] = "copy" /\ o[2] \in Names /\ o[3] \in Seq(Int)
         \/ o[1] = "scalar" /\ o[2] \in Elements
         \/ o[1] = "nothing"
<1>1. CASE o \in {"name", "map"} \X Names
  BY <1>1
<1>2. CASE o \in {"slice"} \X Names \X Int \X Int
  BY <1>2
<1>3. CASE o \in {"stretch"} \X Names \X Seq(Nat)
  BY <1>3
<1>4. CASE o \in {"copy"} \X Names \X Seq(Int)
  BY <1>4
<1>5. CASE o \in {"scalar"} \X Elements
  BY <1>5
<1>6. CASE o = <<"nothing">>
  BY <1>6
<1> QED
  BY <1>1, <1>2, <1>3, <1>4, <1>5, <1>6 DEF AnyOperand

LEMMA OperandIs ==
  ASSUME NEW h, Heap(h), AllIn(h), NEW o \in AnyOperand, Operand(h, o).ok
  PROVE  Good(h, Operand(h, o), {}) /\ Within(h, Operand(h, o).array, Sources(o))
<1> DEFINE r == Operand(h, o)
           a == arrays[o[2]]
<1>1. ASSUME r.heap = h, Inside(h, r.array, r.array), ViewIn(h, r.array), IsView(o), ViewOf(o) = r.array
      PROVE  Good(h, r, {}) /\ Within(h, r.array, Sources(o))
  <2>1. Sources(o) = CellsOf(r.array)
    BY <1>1 DEF Sources
  <2> HIDE DEF r
  <2>2. Within(h, r.array, Sources(o))
    BY <2>1 DEF Within
  <2>3. Good(h, r, {})
    BY <1>1, ChangesNothing DEF Good
  <2> QED
    BY <2>2, <2>3
<1>2. ASSUME Good(h, r, {}), NewIn(h, r) PROVE Within(h, r.array, Sources(o))
  <2>1. r.array.buffer \notin DOMAIN h
    BY <1>2 DEF NewIn
  <2> HIDE DEF r
  <2> QED
    BY <2>1, CellsThere DEF Within
<1>3. CASE o[1] = "name"
  <2>1. o[2] \in DOMAIN arrays /\ r = Got(h, a)
    BY <1>3 DEF Operand, Throw
  <2>2. ViewIn(h, a)
    BY <2>1 DEF AllIn
  <2>3. r.heap = h /\ r.array = a
    BY <2>1 DEF Got
  <2>4. IsView(o) /\ ViewOf(o) = a
    BY <1>3 DEF IsView, ViewOf
  <2> HIDE DEF r, a
  <2> QED
    BY <1>1, <2>2, <2>3, <2>4 DEF Inside, r
<1>4. CASE o[1] = "slice"
  <2>1. o[2] \in DOMAIN arrays /\ r = Slice(h, a, o[3], o[4])
    BY <1>4 DEF Operand, Throw
  <2>2. ViewIn(h, a)
    BY <2>1 DEF AllIn
  <2>3. o[3] \in Int /\ o[4] \in Int
    BY <1>4, OperandKinds
  <2>4. r.heap = h /\ Inside(h, a, r.array)
    BY <2>1, <2>2, <2>3, SliceIs
  <2>5. IsView(o) /\ ViewOf(o) = Slice(heap, a, o[3], o[4]).array
    BY <1>4 DEF IsView, ViewOf
  <2>6. Slice(heap, a, o[3], o[4]).array = Slice(h, a, o[3], o[4]).array
    <3>1. a.shape # <<>>
      BY <2>1 DEF Slice, Throw
    <3> QED
      BY <3>1 DEF Slice, Got
  <2>7. ViewOf(o) = r.array
    BY <2>1, <2>5, <2>6
  <2> HIDE DEF r, a
  <2> QED
    BY <1>1, <2>4, <2>5, <2>7 DEF Inside, r
<1>5. CASE o[1] = "stretch"
  <2>1. o[2] \in DOMAIN arrays /\ CanStretch(a, o[3]) /\ r = Got(h, BroadcastTo(a, o[3]))
    BY <1>5 DEF Operand, Throw
  <2>2. ViewIn(h, a)
    BY <2>1 DEF AllIn
  <2>3. o[3] \in Seq(Nat)
    BY <1>5, OperandKinds
  <2>4. ViewIn(h, BroadcastTo(a, o[3]))
    BY <2>1, <2>2, <2>3, StretchIs DEF Inside
  <2>5. r.heap = h /\ r.array = BroadcastTo(a, o[3])
    BY <2>1 DEF Got
  <2>6. IsView(o) /\ ViewOf(o) = BroadcastTo(a, o[3])
    BY <1>5 DEF IsView, ViewOf
  <2> HIDE DEF r, a
  <2> QED
    BY <1>1, <2>4, <2>5, <2>6 DEF Inside, r
<1>6. CASE o[1] = "copy"
  <2>1. o[2] \in DOMAIN arrays /\ r = Copied(h, a, o[3])
    BY <1>6 DEF Operand, Throw
  <2>2. ViewIn(h, a)
    BY <2>1 DEF AllIn
  <2>3. o[3] \in Seq(Int)
    BY <1>6, OperandKinds
  <2>4. Good(h, r, {}) /\ NewIn(h, r)
    BY <2>1, <2>2, <2>3, CopiedIs
  <2> QED
    BY <1>2, <2>4
<1>7. CASE o[1] = "map"
  <2>1. o[2] \in DOMAIN arrays /\ r = Mapped(h, a)
    BY <1>7 DEF Operand, Throw
  <2>2. ViewIn(h, a)
    BY <2>1 DEF AllIn
  <2>3. Good(h, r, {}) /\ NewIn(h, r)
    BY <2>1, <2>2, MappedIs
  <2> QED
    BY <1>2, <2>3
<1>8. CASE o[1] = "scalar"
  <2>1. r = Alloc(h, <<>>, <<o[2]>>) /\ o[2] \in Elements
    BY <1>8, OperandKinds DEF Operand
  <2>2. <<o[2]>> \in Seq(Elements) /\ Len(<<o[2]>>) = 1
    BY <2>1
  <2>3. \A s \in Seq(Nat), els \in Seq(Elements) :
           Product(s) = 1 /\ Len(els) = 1 => Good(h, Alloc(h, s, els), {}) /\ NewIn(h, Alloc(h, s, els))
    <3>1. ASSUME NEW s \in Seq(Nat), NEW els \in Seq(Elements), Product(s) = 1, Len(els) = 1
          PROVE  Good(h, Alloc(h, s, els), {}) /\ NewIn(h, Alloc(h, s, els))
      <4>1. Product(s) # TooLarge /\ Len(els) = Product(s)
        BY <3>1 DEF TooLarge
      <4> HIDE DEF r, a
      <4> QED
        BY <4>1, AllocIs
    <3> QED
      BY <3>1
  <2>4. Good(h, r, {}) /\ NewIn(h, r)
    BY <2>1, <2>2, <2>3, ScalarShape
  <2> QED
    BY <1>2, <2>4
<1>9. o[1] # "nothing"
  BY DEF Operand, Throw
<1> QED
  BY <1>3, <1>4, <1>5, <1>6, <1>7, <1>8, <1>9, OperandKinds

(* Which cells an expression may change: those of a view that expires in it.     *)
Spent(l, r) == UNION {Sources(o) : o \in {o \in {l, r} : Expiring(o)}}
LEMMA SpentIs == ASSUME NEW l, NEW r, NEW o \in {l, r}, Expiring(o) PROVE Sources(o) \subseteq Spent(l, r)
BY DEF Spent

LEMMA ReversedIs == ASSUME NEW op \in Operators PROVE Reversed(op) \in AnyOp /\ op \in AnyOp
BY DEF Operators, Reversed, AnyOp

LEMMA ReuseIs ==
  ASSUME NEW h, Heap(h), NEW op \in Operators, NEW l \in AnyOperand, NEW r \in AnyOperand,
         NEW a, ViewIn(h, a), NEW b, ViewIn(h, b), NEW block \in Nat \ {0}, NEW d,
         Within(d, a, Sources(l)), Within(d, b, Sources(r))
  PROVE  \E C : Good(h, Reuse(h, op, l, r, a, b, block), C) /\ \A c \in C : c \in Spent(l, r) \/ c[1] \notin DOMAIN d
<1> DEFINE q == Reuse(h, op, l, r, a, b, block)
<1>1. Reversed(op) \in AnyOp /\ op \in AnyOp
  BY ReversedIs
<1>2. ASSUME Expiring(l) PROVE \A c \in CellsOf(a) : c \in Spent(l, r) \/ c[1] \notin DOMAIN d
  BY <1>2, SpentIs DEF Within
<1>3. ASSUME Expiring(r) PROVE \A c \in CellsOf(b) : c \in Spent(l, r) \/ c[1] \notin DOMAIN d
  BY <1>3, SpentIs DEF Within
<1>4. CASE IsScalar(l) /\ Expiring(r) /\ op \in {"+", "*"}
  <2>1. ~Expiring(l) /\ l[1] # "name"
    BY <1>4 DEF IsScalar, Expiring
  <2>2. q = CompoundApply(h, op, b, a, block)
    BY <1>4, <2>1 DEF Reuse
  <2>3. Good(h, q, CellsOf(b))
    BY <1>1, <2>2, CompoundIs
  <2> QED
    BY <1>3, <1>4, <2>3
<1>5. CASE Expiring(l)
  <2>1. ~IsScalar(l) /\ l[1] # "name"
    BY <1>5 DEF IsScalar, Expiring
  <2>2. q = CompoundApply(h, op, a, b, block)
    BY <1>5, <2>1 DEF Reuse
  <2>3. Good(h, q, CellsOf(a))
    BY <1>1, <2>2, CompoundIs
  <2> QED
    BY <1>2, <1>5, <2>3
<1>6. CASE l[1] = "name" /\ Expiring(r)
  <2>1. ~IsScalar(l) /\ ~Expiring(l)
    BY <1>6 DEF IsScalar, Expiring
  <2>2. q = CompoundApply(h, Reversed(op), b, a, block)
    BY <1>6, <2>1 DEF Reuse
  <2>3. Good(h, q, CellsOf(b))
    BY <1>1, <2>2, CompoundIs
  <2> QED
    BY <1>3, <1>6, <2>3
<1>7. CASE ~(IsScalar(l) /\ Expiring(r) /\ op \in {"+", "*"}) /\ ~Expiring(l) /\ ~(l[1] = "name" /\ Expiring(r))
  <2>1. q = BinaryOp(h, op, a, b)
    BY <1>7 DEF Reuse
  <2>2. Good(h, q, {})
    BY <1>1, <2>1, BinaryOpIs
  <2> QED
    BY <2>2
<1> QED
  BY <1>4, <1>5, <1>6, <1>7

LEMMA BinaryIs ==
  ASSUME NEW h, Heap(h), AllIn(h), NEW op \in Operators, NEW l \in AnyOperand, NEW r \in AnyOperand,
         NEW block \in Nat \ {0}
  PROVE  Good(h, Binary(h, op, l, r, block), Spent(l, r))
<1> DEFINE left == Operand(h, l)
           right == Operand(left.heap, r)
           q == Binary(h, op, l, r, block)
<1>1. CASE ~q.ok
  BY <1>1 DEF Good
<1>2. CASE q.ok
  <2>1. left.ok /\ right.ok /\ q = Reuse(right.heap, op, l, r, left.array, right.array, block)
    BY <1>2 DEF Binary, LeftThere, BothThere, Throw
  <2> HIDE DEF q
  <2>2. Good(h, left, {}) /\ Within(h, left.array, Sources(l))
    BY <2>1, OperandIs
  <2>3. Heap(left.heap) /\ Changes(h, left.heap, {}) /\ ViewIn(left.heap, left.array)
    BY <2>1, <2>2 DEF Good
  <2> HIDE DEF left
  <2>4. AllIn(left.heap)
    BY <2>3, AllKept
  <2>5. Good(left.heap, right, {}) /\ Within(left.heap, right.array, Sources(r))
    BY <2>1, <2>3, <2>4, OperandIs
  <2> HIDE DEF right
  <2>6. Heap(right.heap) /\ Changes(left.heap, right.heap, {}) /\ ViewIn(right.heap, right.array)
    BY <2>1, <2>5 DEF Good
  <2>7. ViewIn(right.heap, left.array)
    BY <2>3, <2>6, ViewKept
  <2>8. Within(h, right.array, Sources(r))
    BY <2>3, <2>5 DEF Within, Changes
  <2>9. PICK C : /\ Good(right.heap, q, C)
                 /\ \A c \in C : c \in Spent(l, r) \/ c[1] \notin DOMAIN h
    BY <2>1, <2>2, <2>6, <2>7, <2>8, ReuseIs
  <2>10. Heap(q.heap) /\ Changes(right.heap, q.heap, C) /\ ViewIn(q.heap, q.array)
    BY <1>2, <2>9 DEF Good, q
  <2>11. Changes(h, right.heap, {})
    BY <2>3, <2>6, ChangesThen
  <2>12. Changes(h, right.heap, C)
    BY <2>11, ChangesMore
  <2>13. Changes(h, q.heap, C)
    BY <2>10, <2>12, ChangesThen
  <2>14. Changes(h, q.heap, Spent(l, r))
    BY <2>9, <2>13, ChangesWithin
  <2> QED
    BY <2>10, <2>14 DEF Good, q
<1> QED
  BY <1>1, <1>2

LEMMA UpdatedIs ==
  ASSUME NEW h, Heap(h), AllIn(h), NEW op \in Operators, NEW x \in DOMAIN arrays, NEW o \in AnyOperand,
         NEW block \in Nat \ {0}
  PROVE  Good(h, Updated(op, arrays[x], Operand(h, o), block), CellsOf(arrays[x]))
<1> DEFINE a == arrays[x]
           right == Operand(h, o)
           q == Updated(op, a, right, block)
<1>1. CASE ~q.ok
  BY <1>1 DEF Good
<1>2. CASE q.ok
  <2>1. right.ok /\ q = CompoundApply(right.heap, op, a, right.array, block)
    BY <1>2 DEF Updated, Throw
  <2>2. Good(h, right, {})
    BY <2>1, OperandIs
  <2>3. Heap(right.heap) /\ Changes(h, right.heap, {}) /\ ViewIn(right.heap, right.array)
    BY <2>1, <2>2 DEF Good
  <2>4. ViewIn(right.heap, a)
    BY <2>3, ViewKept DEF AllIn
  <2>5. op \in AnyOp
    BY ReversedIs
  <2> HIDE DEF q, right, a
  <2>6. Good(right.heap, q, CellsOf(a))
    BY <2>1, <2>3, <2>4, <2>5, CompoundIs
  <2>7. Heap(q.heap) /\ Changes(right.heap, q.heap, CellsOf(a)) /\ ViewIn(q.heap, q.array)
    BY <1>2, <2>6 DEF Good, q
  <2>8. Changes(h, right.heap, CellsOf(a))
    BY <2>3, ChangesMore
  <2>9. Changes(h, q.heap, CellsOf(a))
    BY <2>7, <2>8, ChangesThen
  <2> QED
    BY <2>7, <2>9 DEF Good, q, a, right
<1> QED
  BY <1>1, <1>2

-----------------------------------------------------------------------------
(* Writing elements: one, and one after another.                                 *)
LEMMA PutIs ==
  ASSUME NEW h, Heap(h), NEW b \in DOMAIN h, NEW p \in 1 .. Len(h[b]), NEW e \in Elements, NEW C, <<b, p - 1>> \in C
  PROVE  LET g == Put(h, <<"cell", b, p>>, e) IN Heap(g) /\ Changes(h, g, C) /\ DOMAIN g = DOMAIN h
<1> DEFINE new == [h[b] EXCEPT ![p] = e]
<1>1. h[b] \in Seq(Elements)
  BY DEF Heap
<1>2. new \in Seq(Elements) /\ Len(new) = Len(h[b]) /\ \A k \in 1 .. Len(h[b]) : k = p \/ new[k] = h[b][k]
  BY <1>1
<1>3. Put(h, <<"cell", b, p>>, e) = [h EXCEPT ![b] = new]
  BY DEF Put
<1> HIDE DEF new
<1>4. \A k \in 1 .. Len(h[b]) : <<b, k - 1>> \in C \/ new[k] = h[b][k]
  BY <1>2
<1>5. LET g == [h EXCEPT ![b] = new] IN Heap(g) /\ Changes(h, g, C) /\ DOMAIN g = DOMAIN h
  BY <1>2, <1>4, Rewrite
<1> QED
  BY <1>3, <1>5

Writable(h, t, C) == \E b \in DOMAIN h : \E p \in 1 .. Len(h[b]) : t = <<"cell", b, p>> /\ <<b, p - 1>> \in C
CopyRun(h, to, from, n, C, g) ==
  /\ g[0] = h /\ g[n] = CopyIn(h, to, from)
  /\ \A j \in 1 .. n : g[j] = CopyOne(g[j - 1], to[j], from[j])
  /\ \A j \in 0 .. n : Heap(g[j]) /\ Changes(h, g[j], C)
LEMMA CopyInRuns ==
  ASSUME NEW h, Heap(h), NEW to, NEW n \in Nat, Len(to) = n, NEW from, NEW C,
         \A j \in 1 .. n : Writable(h, to[j], C), Terms(h, from, n)
  PROVE  \E g : CopyRun(h, to, from, n, C, g)
<1> DEFINE Step(g, j) == CopyOne(g, to[j], from[j])
           X == {g \in [DOMAIN h -> Seq(Elements)] : Heap(g) /\ Changes(h, g, C) /\ DOMAIN g = DOMAIN h}
           s == [j \in 1 .. n |-> [g \in X |-> Step(g, j)]]
           F(t) == [j \in 0 .. n |-> IF j = 0 THEN h ELSE Step(t[j - 1], j)]
           p == CHOOSE t : t = F(t)
<1>1. h \in X
  <2>1. Changes(h, h, C)
    BY DEF Changes
  <2> QED
    BY <2>1 DEF Heap
<1>2. ASSUME NEW g \in X, NEW j \in 1 .. n PROVE Step(g, j) \in X
  <2>1. Heap(g) /\ Changes(h, g, C) /\ DOMAIN g = DOMAIN h
    OBVIOUS
  <2> DEFINE e == Read(g, from[j])
             k == Step(g, j)
  <2>2. e \in Elements
    <3>1. Readable(h, from[j])
      BY DEF Terms
    <3>2. Readable(g, from[j])
      BY <2>1, <3>1, ReadableKept
    <3> QED
      BY <2>1, <3>2, ReadIs
  <2>3. PICK b \in DOMAIN h : \E q \in 1 .. Len(h[b]) : to[j] = <<"cell", b, q>> /\ <<b, q - 1>> \in C
    BY DEF Writable
  <2>4. PICK q \in 1 .. Len(h[b]) : to[j] = <<"cell", b, q>> /\ <<b, q - 1>> \in C
    BY <2>3
  <2>5. b \in DOMAIN g /\ q \in 1 .. Len(g[b])
    BY <2>1 DEF Changes
  <2>6. k = Put(g, <<"cell", b, q>>, e)
    BY <2>4 DEF CopyOne
  <2> HIDE DEF X, e, k
  <2>7. Heap(k) /\ Changes(g, k, C) /\ DOMAIN k = DOMAIN g
    BY <2>1, <2>2, <2>4, <2>5, <2>6, PutIs
  <2>8. Changes(h, k, C)
    BY <2>1, <2>7, ChangesThen
  <2>9. k \in [DOMAIN h -> Seq(Elements)]
    BY <2>1, <2>7 DEF Heap
  <2> QED
    BY <2>1, <2>7, <2>8, <2>9 DEF X, k
<1> HIDE DEF X, Step
<1>3. s \in [1 .. n -> [X -> X]]
  BY <1>2
<1>4. PICK f \in [0 .. n -> X] : Runs(X, n, h, s, f)
  <2> HIDE DEF s
  <2> QED
    BY <1>1, <1>3, Recursion
<1>5. \A j \in 1 .. n : f[j] = Step(f[j - 1], j)
  <2>1. \A j \in 1 .. n : j - 1 \in 0 .. n
    OBVIOUS
  <2>2. \A j \in 1 .. n : f[j] = s[j][f[j - 1]]
    BY <1>4 DEF Runs
  <2> QED
    BY <1>4, <2>1, <2>2
<1>6. f = F(f)
  BY <1>4, <1>5 DEF Runs
<1>7. p = F(p)
  BY <1>6
<1>8. CopyIn(h, to, from) = p[n]
  BY DEF CopyIn, Step
<1> HIDE DEF p
<1>9. p[0] = h /\ \A j \in 1 .. n : p[j] = Step(p[j - 1], j)
  <2>1. 0 \in 0 .. n /\ \A j \in 1 .. n : j \in 0 .. n /\ j # 0
    OBVIOUS
  <2> QED
    BY <1>7, <2>1
<1> DEFINE T == {j \in 0 .. n : p[j] \in X}
<1>10. ASSUME NEW j \in 1 .. n, j - 1 \in T PROVE j \in T
  BY <1>2, <1>9, <1>10
<1>11. \A j \in 0 .. n : j \in T
  <2>1. 0 \in T
    BY <1>1, <1>9
  <2> HIDE DEF T
  <2> QED
    BY <1>10, <2>1, Counting
<1>12. \A j \in 0 .. n : Heap(p[j]) /\ Changes(h, p[j], C)
  BY <1>11 DEF X
<1> QED
  BY <1>8, <1>9, <1>12 DEF Step, CopyRun

LEMMA CopyInIs ==
  ASSUME NEW h, Heap(h), NEW to, NEW n \in Nat, Len(to) = n, NEW from, NEW C,
         \A j \in 1 .. n : Writable(h, to[j], C), Terms(h, from, n)
  PROVE  LET g == CopyIn(h, to, from) IN Heap(g) /\ Changes(h, g, C)
<1>1. PICK g : CopyRun(h, to, from, n, C, g)
  BY CopyInRuns
<1>2. n \in 0 .. n
  OBVIOUS
<1> QED
  BY <1>1, <1>2 DEF CopyRun

LEMMA WalkedWritable ==
  ASSUME NEW h, NEW a, ViewIn(h, a), Size(a) # TooLarge
  PROVE  /\ Size(a) \in Nat /\ Len(Walked(a)) = Size(a)
         /\ \A k \in 1 .. Size(a) : Writable(h, Walked(a)[k], CellsOf(a))
<1>1. Size(a) \in Nat
  BY SizeNat DEF Size, ViewIn, Shaped, Views
<1>2. Len(Walked(a)) = Size(a)
  BY WalkedIs
<1>3. ASSUME NEW k \in 1 .. Size(a) PROVE Writable(h, Walked(a)[k], CellsOf(a))
  <2>1. PICK ix \in Indices(a.shape) : Walked(a)[k] = <<"cell", a.buffer, Position(a, ix) + 1>>
    BY WalkedIs
  <2>2. Position(a, ix) \in Nat
    BY PositionNat DEF ViewIn
  <2>3. a.buffer \in DOMAIN h /\ Position(a, ix) + 1 \in 1 .. Len(h[a.buffer])
    BY DEF ViewIn
  <2>4. PICK q \in 1 .. Len(h[a.buffer]) : q = Position(a, ix) + 1 /\ q - 1 = Position(a, ix)
    BY <2>2, <2>3
  <2>5. <<a.buffer, q - 1>> \in CellsOf(a)
    BY <2>4 DEF CellsOf
  <2> QED
    BY <2>1, <2>3, <2>4, <2>5 DEF Writable
<1> QED
  BY <1>1, <1>2, <1>3

LEMMA ScalarOperand ==
  ASSUME NEW h, Heap(h), NEW o \in AnyOperand, IsScalar(o) PROVE Size(Operand(h, o).array) = 1
<1>1. Operand(h, o) = Alloc(h, <<>>, <<o[2]>>)
  BY DEF Operand, IsScalar
<1>2. ASSUME NEW s \in Seq(Nat), Product(s) = 1, NEW els PROVE Size(Alloc(h, s, els).array) = 1
  <2>1. Alloc(h, s, els).array = Contiguous(Unused(h), s)
    BY DEF Alloc, Got
  <2>2. Unused(h) \in Nat
    BY UnusedIs
  <2> QED
    BY <1>2, <2>1, <2>2, ContiguousIs
<1> QED
  BY <1>1, <1>2, ScalarShape

LEMMA FilledIs ==
  ASSUME Heap(heap), AllIn(heap), NEW x \in DOMAIN arrays, NEW lo \in Int, NEW hi \in Int, NEW o \in AnyOperand
  PROVE  LET dst == Slice(heap, arrays[x], lo, hi) IN
           Good(heap, Filled(arrays[x], dst, Operand(heap, o), IsScalar(o)), CellsOf(dst.array))
<1> DEFINE a == arrays[x]
           dst == Slice(heap, a, lo, hi)
           src == Operand(heap, o)
           v == dst.array
           w == BroadcastTo(src.array, v.shape)
           n == Size(v)
           from == IF IsScalar(o) THEN Repeated(src.heap, src.array, n) ELSE Walked(w)
           q == Filled(a, dst, src, IsScalar(o))
<1>1. ViewIn(heap, a)
  BY DEF AllIn
<1>2. CASE ~q.ok
  BY <1>2 DEF Good
<1>3. CASE q.ok /\ Refused(v.shape)
  <2>1. q.heap = heap /\ q.array = a
    BY <1>3 DEF Filled, Throw, Got
  <2>2. Changes(heap, heap, CellsOf(v))
    BY DEF Changes
  <2> HIDE DEF q
  <2> QED
    BY <1>1, <2>1, <2>2 DEF Good, q
<1>4. CASE q.ok /\ ~Refused(v.shape)
  <2>1. /\ dst.ok /\ src.ok /\ n # TooLarge /\ CanStretch(src.array, v.shape)
        /\ q.heap = CopyIn(src.heap, Walked(v), from) /\ q.array = a
    BY <1>4 DEF Filled, Throw, Got
  <2>2. Good(heap, src, {})
    BY <2>1, OperandIs
  <2>3. IsScalar(o) => Size(src.array) = 1
    BY ScalarOperand
  <2>4. Inside(heap, a, v)
    BY <1>1, <2>1, SliceIs
  <2> HIDE DEF q, src, dst, a
  <2>5. Heap(src.heap) /\ Changes(heap, src.heap, {}) /\ ViewIn(src.heap, src.array)
    BY <2>1, <2>2 DEF Good
  <2>6. ViewIn(heap, v)
    BY <2>4 DEF Inside
  <2>7. v.shape \in Seq(Nat)
    BY <2>6 DEF ViewIn, Shaped, Views
  <2> HIDE DEF v
  <2>8. ViewIn(src.heap, v)
    BY <2>5, <2>6, ViewKept
  <2>9. /\ n \in Nat /\ Len(Walked(v)) = n
        /\ \A k \in 1 .. n : Writable(src.heap, Walked(v)[k], CellsOf(v))
    BY <2>1, <2>8, WalkedWritable
  <2>10. Terms(src.heap, from, n)
    <3>1. CASE IsScalar(o)
      BY <2>3, <2>5, <2>9, <3>1, RepeatedIs
    <3>2. CASE ~IsScalar(o)
      <4>1. ViewIn(src.heap, w) /\ w.shape = v.shape
        BY <2>1, <2>5, <2>7, StretchIs DEF Inside
      <4> HIDE DEF w
      <4>2. Size(w) = n
        BY <4>1 DEF Size
      <4> QED
        BY <2>1, <3>2, <4>1, <4>2, WalkedIs DEF Terms
    <3> QED
      BY <3>1, <3>2
  <2> HIDE DEF from, n
  <2>11. Heap(q.heap) /\ Changes(src.heap, q.heap, CellsOf(v))
    BY <2>1, <2>5, <2>9, <2>10, CopyInIs
  <2>12. Changes(heap, src.heap, CellsOf(v))
    BY <2>5, ChangesMore
  <2>13. Changes(heap, q.heap, CellsOf(v))
    BY <2>11, <2>12, ChangesThen
  <2>14. ViewIn(q.heap, q.array)
    BY <1>1, <2>1, <2>13, ViewKept
  <2> QED
    BY <2>11, <2>13, <2>14 DEF Good, q, src, dst, a, v
<1> QED
  BY <1>2, <1>3, <1>4

LEMMA ItemIs ==
  ASSUME Heap(heap), AllIn(heap), NEW x \in DOMAIN arrays, NEW from, NEW v \in Elements,
         from \in Indices(arrays[x].shape)
  PROVE  Good(heap, Got(Put(heap, Cell(arrays[x], Position(arrays[x], from)), v), arrays[x]), CellsOf(arrays[x]))
<1> DEFINE a == arrays[x]
           b == a.buffer
           C == CellsOf(a)
           g == Put(heap, Cell(a, Position(a, from)), v)
           q == Got(g, a)
<1>1. ViewIn(heap, a)
  BY DEF AllIn
<1>2. Position(a, from) \in Nat
  BY <1>1, PositionNat DEF ViewIn
<1>3. b \in DOMAIN heap /\ Position(a, from) + 1 \in 1 .. Len(heap[b])
  BY <1>1 DEF ViewIn
<1>4. PICK p \in 1 .. Len(heap[b]) : p = Position(a, from) + 1 /\ p - 1 = Position(a, from)
  BY <1>2, <1>3
<1>5. <<b, p - 1>> \in C
  BY <1>4 DEF CellsOf
<1>6. g = Put(heap, <<"cell", b, p>>, v)
  BY <1>4 DEF Cell
<1>7. q.heap = g /\ q.array = a
  BY DEF Got
<1> HIDE DEF g, q, a, b, C
<1>8. Heap(g) /\ Changes(heap, g, C)
  BY <1>3, <1>5, <1>6, PutIs
<1>9. ViewIn(g, a)
  BY <1>1, <1>8, ViewKept
<1> QED
  BY <1>7, <1>8, <1>9 DEF Good, q, g, a, C

LEMMA FreshIs ==
  ASSUME NEW h, Heap(h), NEW dims \in Seq(Int), NEW elements \in Seq(Elements),
         Sizable(dims) => Len(elements) = Product(dims)
  PROVE  Good(h, Fresh(h, dims, elements), {})
<1>1. CASE ~Sizable(dims)
  BY <1>1 DEF Fresh, Throw, Good
<1>2. CASE Sizable(dims)
  <2>1. dims \in Seq(Nat)
    <3>1. \A i \in 1 .. Len(dims) : dims[i] \in Nat
      BY <1>2 DEF Sizable, ToSize
    <3> QED
      BY <3>1
  <2>2. Product(dims) # TooLarge /\ Fresh(h, dims, elements) = Alloc(h, dims, elements)
    BY <1>2 DEF Sizable, Fresh
  <2> QED
    BY <1>2, <2>1, <2>2, AllocIs
<1> QED
  BY <1>1, <1>2

-----------------------------------------------------------------------------
(* The inductive invariant: finitely many buffers of elements, and every array   *)
(* a view that lies in its buffer.                                               *)
IInv == DOMAIN arrays \subseteq Names /\ Heap(heap) /\ AllIn(heap)

(* What a statement may do: its result is sound and changes only its targets, and *)
(* the names it leaves bound are bound to views of the result.                   *)
Statement(what, result, bound) ==
  /\ Good(heap, result, Targets(what))
  /\ result.ok => /\ DOMAIN bound \subseteq Names
                  /\ \A x \in DOMAIN bound : ViewIn(result.heap, bound[x])
                  /\ \A y \in DOMAIN arrays \ {what[2]} : y \in DOMAIN bound /\ bound[y] = arrays[y]
OnlyTargets ==
  /\ ~done'.ok => UNCHANGED <<arrays, heap>>
  /\ done'.ok => \A y \in DOMAIN arrays \ {done'.what[2]} :
        /\ arrays'[y] = arrays[y]
        /\ \A ix \in Indices(arrays[y].shape) :
              \/ <<arrays[y].buffer, Position(arrays[y], ix)>> \in Targets(done'.what)
              \/ Later(y).at[ix] = Now(y).at[ix]

LEMMA AssignIs ==
  ASSUME IInv, NEW x \in Names, NEW what, what[2] = x, NEW result, Good(heap, result, Targets(what))
  PROVE  Statement(what, result, IF result.ok THEN With(arrays, x, result.array) ELSE arrays)
<1>1. CASE ~result.ok
  BY <1>1 DEF Statement
<1>2. CASE result.ok
  <2> DEFINE bound == With(arrays, x, result.array)
  <2>1. /\ DOMAIN bound = DOMAIN arrays \union {x} /\ bound[x] = result.array
        /\ \A y \in DOMAIN arrays \ {x} : bound[y] = arrays[y]
    BY DEF With
  <2> HIDE DEF bound
  <2>2. Changes(heap, result.heap, Targets(what)) /\ ViewIn(result.heap, result.array)
    BY <1>2 DEF Good
  <2>3. AllIn(result.heap)
    BY <2>2, AllKept DEF IInv
  <2>4. \A y \in DOMAIN bound : ViewIn(result.heap, bound[y])
    BY <2>1, <2>2, <2>3 DEF AllIn
  <2>5. Statement(what, result, bound)
    BY <2>1, <2>4 DEF Statement, IInv
  <2> QED
    BY <1>2, <2>5 DEF bound
<1> QED
  BY <1>1, <1>2

LEMMA InPlaceIs ==
  ASSUME IInv, NEW what, NEW result, Good(heap, result, Targets(what))
  PROVE  Statement(what, result, arrays)
<1>1. CASE ~result.ok
  BY <1>1 DEF Statement
<1>2. CASE result.ok
  <2>1. Changes(heap, result.heap, Targets(what))
    BY <1>2 DEF Good
  <2>2. AllIn(result.heap)
    BY <2>1, AllKept DEF IInv
  <2> QED
    BY <2>2 DEF Statement, IInv, AllIn
<1> QED
  BY <1>1, <1>2

LEMMA FinishIs ==
  ASSUME IInv, NEW what, NEW result, NEW bound, Statement(what, result, bound), Finish(what, result, bound)
  PROVE  IInv' /\ OnlyTargets
<1>1. CASE ~result.ok
  <2>1. done'.ok = FALSE /\ UNCHANGED <<arrays, heap>>
    BY <1>1 DEF Finish
  <2>2. IInv'
    BY <2>1 DEF IInv, AllIn
  <2> QED
    BY <2>1, <2>2 DEF OnlyTargets
<1>2. CASE result.ok
  <2> DEFINE live == {bound[x].buffer : x \in DOMAIN bound}
             C == Targets(what)
             g == result.heap
  <2>1. done'.ok = TRUE /\ done'.what = what /\ arrays' = bound /\ heap' = [b \in live |-> g[b]]
    BY <1>2 DEF Finish
  <2>2. Heap(g) /\ Changes(heap, g, C)
    BY <1>2 DEF Statement, Good
  <2>3. /\ DOMAIN bound \subseteq Names
        /\ \A x \in DOMAIN bound : ViewIn(g, bound[x])
        /\ \A y \in DOMAIN arrays \ {what[2]} : y \in DOMAIN bound /\ bound[y] = arrays[y]
    BY <1>2 DEF Statement
  <2> HIDE DEF g, C
  <2>4. live \subseteq DOMAIN g /\ \A x \in DOMAIN bound : bound[x].buffer \in live
    BY <2>3 DEF ViewIn
  <2> HIDE DEF live
  <2>5. DOMAIN heap' = live /\ \A b \in live : heap'[b] = g[b]
    BY <2>1
  <2>6. Heap(heap')
    <3>1. IsFiniteSet(live) /\ live \subseteq Nat
      BY <2>2, <2>4, FS_Subset DEF Heap
    <3>2. \A b \in live : heap'[b] \in Seq(Elements)
      BY <2>2, <2>4, <2>5 DEF Heap
    <3>3. heap' \in [live -> Seq(Elements)]
      BY <2>1, <2>5, <3>2
    <3> QED
      BY <2>5, <3>1, <3>3 DEF Heap
  <2>7. \A x \in DOMAIN bound : ViewIn(heap', bound[x])
    BY <2>3, <2>4, <2>5 DEF ViewIn
  <2>8. IInv'
    BY <2>1, <2>3, <2>6, <2>7 DEF IInv, AllIn
  <2>9. ASSUME NEW y \in DOMAIN arrays \ {what[2]}, NEW ix \in Indices(arrays[y].shape)
        PROVE  <<arrays[y].buffer, Position(arrays[y], ix)>> \in C \/ Later(y).at[ix] = Now(y).at[ix]
    <3> DEFINE a == arrays[y]
               b == a.buffer
               p == Position(a, ix) + 1
    <3>1. ViewIn(heap, a)
      BY DEF IInv, AllIn
    <3>2. b \in DOMAIN heap /\ p \in 1 .. Len(heap[b]) /\ Position(a, ix) \in Nat
      BY <3>1, PositionNat DEF ViewIn
    <3>3. p - 1 = Position(a, ix)
      BY <3>2
    <3>4. arrays'[y] = a /\ y \in DOMAIN bound /\ bound[y] = a
      BY <2>1, <2>3
    <3>5. heap'[b] = g[b]
      BY <2>4, <2>5, <3>4
    <3> HIDE DEF p, b
    <3>6. <<b, p - 1>> \in C \/ heap'[b][p] = heap[b][p]
      BY <2>2, <3>2, <3>5 DEF Changes
    <3>7. Now(y).at[ix] = heap[b][p] /\ Later(y).at[ix] = heap'[b][p]
      <4>1. ASSUME NEW h PROVE Value(h, a).at[ix] = h[b][p]
        BY DEF Value, b, p
      <4> HIDE DEF a
      <4> QED
        BY <3>4, <4>1 DEF Now, Later, a
    <3> QED
      BY <3>3, <3>6, <3>7 DEF b
  <2>10. OnlyTargets
    BY <2>1, <2>3, <2>9 DEF OnlyTargets, C
  <2> QED
    BY <2>8, <2>10
<1> QED
  BY <1>1, <1>2

LEMMA MakeIs ==
  ASSUME IInv, NEW x \in Names, NEW dims \in Seq(Int), NEW elements \in Seq(Elements),
         Sizable(dims) => Len(elements) = Product(dims), Make(x, dims, elements)
  PROVE  IInv' /\ OnlyTargets
<1> DEFINE what == <<"make", x, dims, elements>>
           result == Fresh(heap, dims, elements)
           bound == IF result.ok THEN With(arrays, x, result.array) ELSE arrays
<1>1. Finish(what, result, bound)
  BY DEF Make, Assign
<1>2. what[1] = "make" /\ what[2] = x
  OBVIOUS
<1>3. Targets(what) = {}
  BY <1>2 DEF Targets
<1>4. Good(heap, result, {})
  BY FreshIs DEF IInv
<1> HIDE DEF what, result
<1>5. Statement(what, result, bound)
  BY <1>2, <1>3, <1>4, AssignIs
<1> QED
  BY <1>1, <1>5, FinishIs

LEMMA BindIs ==
  ASSUME IInv, NEW x \in Names, NEW o \in AnyOperand, Bind(x, o)
  PROVE  IInv' /\ OnlyTargets
<1> DEFINE what == <<"bind", x, o>>
           result == Operand(heap, o)
           bound == IF result.ok THEN With(arrays, x, result.array) ELSE arrays
<1>1. Finish(what, result, bound)
  BY DEF Bind, Assign
<1>2. what[1] = "bind" /\ what[2] = x
  OBVIOUS
<1>3. Targets(what) = {}
  BY <1>2 DEF Targets
<1>4. Good(heap, result, {})
  BY OperandIs DEF IInv, Good
<1> HIDE DEF what, result
<1>5. Statement(what, result, bound)
  BY <1>2, <1>3, <1>4, AssignIs
<1> QED
  BY <1>1, <1>5, FinishIs

LEMMA BlocksAre == Blocks \subseteq Nat \ {0}
BY NdarrayAssumption

LEMMA ComputeIs ==
  ASSUME IInv, NEW x \in Names, NEW op \in Operators, NEW l \in AnyOperand, NEW r \in AnyOperand,
         NEW block \in Blocks, Compute(x, op, l, r, block)
  PROVE  IInv' /\ OnlyTargets
<1> DEFINE what == <<"compute", x, op, l, r>>
           result == Binary(heap, op, l, r, block)
           bound == IF result.ok THEN With(arrays, x, result.array) ELSE arrays
<1>1. Finish(what, result, bound)
  BY DEF Compute, Assign
<1>2. what[1] = "compute" /\ what[2] = x /\ what[4] = l /\ what[5] = r
  OBVIOUS
<1>3. Targets(what) = Spent(l, r)
  BY <1>2 DEF Targets, Spent
<1>4. Good(heap, result, Spent(l, r))
  BY BinaryIs, BlocksAre DEF IInv
<1> HIDE DEF what, result
<1>5. Statement(what, result, bound)
  BY <1>2, <1>3, <1>4, AssignIs
<1> QED
  BY <1>1, <1>5, FinishIs

LEMMA UpdateIs ==
  ASSUME IInv, NEW x \in Names, NEW op \in Operators, NEW o \in AnyOperand,
         NEW block \in Blocks, Update(x, op, o, block)
  PROVE  IInv' /\ OnlyTargets
<1> DEFINE what == <<"update", x, op, o>>
           result == Updated(op, arrays[x], Operand(heap, o), block)
           bound == IF result.ok THEN With(arrays, x, result.array) ELSE arrays
<1>1. Finish(what, result, bound) /\ x \in DOMAIN arrays
  BY DEF Update, Assign
<1>2. what[1] = "update" /\ what[2] = x
  OBVIOUS
<1>3. Targets(what) = CellsOf(arrays[x])
  BY <1>2 DEF Targets
<1>4. Good(heap, result, CellsOf(arrays[x]))
  BY <1>1, UpdatedIs, BlocksAre DEF IInv
<1> HIDE DEF what, result
<1>5. Statement(what, result, bound)
  BY <1>2, <1>3, <1>4, AssignIs
<1> QED
  BY <1>1, <1>5, FinishIs

LEMMA IntoIs ==
  ASSUME IInv, NEW x \in Names, NEW y \in Names, NEW z \in Names, NEW op \in Operators,
         NEW block \in Blocks, Into(x, op, y, z, block)
  PROVE  IInv' /\ OnlyTargets
<1> DEFINE what == <<"into", x, op, <<"name", y>>, <<"name", z>>>>
           result == BinaryOpInto(heap, op, arrays[x], arrays[y], arrays[z], block)
<1>1. Finish(what, result, arrays) /\ x \in DOMAIN arrays /\ y \in DOMAIN arrays /\ z \in DOMAIN arrays
  BY DEF Into
<1>2. what[1] = "into" /\ what[2] = x
  OBVIOUS
<1>3. Targets(what) = CellsOf(arrays[x])
  BY <1>2 DEF Targets
<1>4. Good(heap, result, CellsOf(arrays[x]))
  <2>1. ViewIn(heap, arrays[x]) /\ ViewIn(heap, arrays[y]) /\ ViewIn(heap, arrays[z])
    BY <1>1 DEF IInv, AllIn
  <2> QED
    BY <2>1, BinaryOpIntoIs, BlocksAre, ReversedIs DEF IInv
<1> HIDE DEF what, result
<1>5. Statement(what, result, arrays)
  BY <1>3, <1>4, InPlaceIs
<1> QED
  BY <1>1, <1>5, FinishIs

LEMMA SetItemIs ==
  ASSUME IInv, NEW x \in Names, NEW ix \in Seq(Int), NEW v \in Elements, SetItem(x, ix, v)
  PROVE  IInv' /\ OnlyTargets
<1> DEFINE what == <<"item", x, ix, v>>
           a == arrays[x]
           from == [i \in DOMAIN ix |-> Bound(ix[i], a.shape[i])]
           inside == Len(ix) = Len(a.shape) /\ \A i \in DOMAIN ix : from[i] \in 0 .. a.shape[i] - 1
           put == Put(heap, Cell(a, Position(a, from)), v)
           result == IF inside THEN Got(put, a) ELSE Throw
<1>1. Finish(what, result, arrays) /\ x \in DOMAIN arrays
  BY DEF SetItem
<1>2. what[1] = "item" /\ what[2] = x
  OBVIOUS
<1>3. Targets(what) = CellsOf(a)
  BY <1>2 DEF Targets
<1>4. Good(heap, result, CellsOf(a))
  <2>1. CASE ~inside
    BY <2>1 DEF Good, Throw
  <2>2. CASE inside
    <3>1. a.shape \in Seq(Nat)
      BY <1>1 DEF IInv, AllIn, ViewIn, Shaped, Views
    <3>2. DOMAIN ix = 1 .. Len(a.shape) /\ DOMAIN from = 1 .. Len(a.shape)
      BY <2>2
    <3>3. \A i \in DOMAIN ix : from[i] \in 0 .. a.shape[i] - 1
      BY <2>2
    <3>4. from = [i \in 1 .. Len(a.shape) |-> from[i]]
      BY <3>2
    <3> HIDE DEF from, a
    <3>5. \A i \in 1 .. Len(a.shape) : from[i] \in Nat /\ from[i] < a.shape[i]
      <4>1. \A i \in 1 .. Len(a.shape) : a.shape[i] \in Nat
        BY <3>1
      <4> QED
        BY <3>2, <3>3, <4>1
    <3>6. from \in [1 .. Len(a.shape) -> Nat]
      BY <3>4, <3>5
    <3>7. from \in Indices(a.shape)
      BY <3>1, <3>5, <3>6, IndicesAre
    <3>8. Good(heap, Got(put, a), CellsOf(a))
      BY <1>1, <3>7, ItemIs DEF IInv, a
    <3> QED
      BY <2>2, <3>8
  <2> QED
    BY <2>1, <2>2
<1> HIDE DEF what, result, a
<1>5. Statement(what, result, arrays)
  BY <1>3, <1>4, InPlaceIs
<1> QED
  BY <1>1, <1>5, FinishIs

LEMMA FillIs ==
  ASSUME IInv, NEW x \in Names, NEW lo \in Int, NEW hi \in Int, NEW o \in AnyOperand, Fill(x, lo, hi, o)
  PROVE  IInv' /\ OnlyTargets
<1> DEFINE what == <<"fill", x, lo, hi, o>>
           dst == Slice(heap, arrays[x], lo, hi)
           result == Filled(arrays[x], dst, Operand(heap, o), IsScalar(o))
<1>1. Finish(what, result, arrays) /\ x \in DOMAIN arrays
  BY DEF Fill
<1>2. what[1] = "fill" /\ what[2] = x /\ what[3] = lo /\ what[4] = hi
  OBVIOUS
<1>3. Targets(what) = CellsOf(dst.array)
  BY <1>2 DEF Targets
<1>4. Good(heap, result, CellsOf(dst.array))
  BY <1>1, FilledIs DEF IInv
<1> HIDE DEF what, result, dst
<1>5. Statement(what, result, arrays)
  BY <1>3, <1>4, InPlaceIs
<1> QED
  BY <1>1, <1>5, FinishIs

LEMMA StepIs ==
  ASSUME IInv, [ArrayNext]_arrayVars
  PROVE  IInv' /\ (OnlyTargets \/ UNCHANGED arrayVars)
<1>1. CASE UNCHANGED arrayVars
  BY <1>1 DEF arrayVars, IInv, AllIn
<1>2. CASE \E x \in Names, dims \in Seq(Int), elements \in Seq(Elements) :
              (Sizable(dims) => Len(elements) = Product(dims)) /\ Make(x, dims, elements)
  BY <1>2, MakeIs
<1>3. CASE \E x \in Names, o \in AnyOperand : Bind(x, o)
  BY <1>3, BindIs
<1>4. CASE \E x \in Names, op \in Operators, l, r \in AnyOperand, block \in Blocks :
              ~(IsScalar(l) /\ IsScalar(r)) /\ Compute(x, op, l, r, block)
  BY <1>4, ComputeIs
<1>5. CASE \E x \in Names, op \in Operators, o \in AnyOperand, block \in Blocks : Update(x, op, o, block)
  BY <1>5, UpdateIs
<1>6. CASE \E x, y, z \in Names, op \in Operators, block \in Blocks : Into(x, op, y, z, block)
  BY <1>6, IntoIs
<1>7. CASE \E x \in Names, ix \in Seq(Int), v \in Elements : SetItem(x, ix, v)
  BY <1>7, SetItemIs
<1>8. CASE \E x \in Names, lo, hi \in Int, o \in AnyOperand : Fill(x, lo, hi, o)
  BY <1>8, FillIs
<1> QED
  BY <1>1, <1>2, <1>3, <1>4, <1>5, <1>6, <1>7, <1>8 DEF ArrayNext

LEMMA InitIs == ArrayInit => IInv
<1> SUFFICES ASSUME ArrayInit PROVE IInv
  OBVIOUS
<1>1. arrays = <<>> /\ heap = <<>>
  BY DEF ArrayInit
<1>2. DOMAIN arrays = {} /\ DOMAIN heap = {}
  BY <1>1
<1>3. heap \in [DOMAIN heap -> Seq(Elements)]
  BY <1>1
<1>4. Heap(heap)
  BY <1>2, <1>3, FS_EmptySet DEF Heap
<1> QED
  BY <1>2, <1>4 DEF IInv, AllIn

LEMMA SoundIs == IInv => ViewsAreSound
<1> SUFFICES ASSUME IInv PROVE ViewsAreSound
  OBVIOUS
<1>1. ASSUME NEW b \in DOMAIN heap PROVE heap[b] \in Seq(Elements) /\ DOMAIN heap[b] = 1 .. Len(heap[b])
  <2>1. heap[b] \in Seq(Elements)
    BY DEF IInv, Heap
  <2> QED
    BY <2>1
<1>2. ASSUME NEW x \in DOMAIN arrays
      PROVE  LET a == arrays[x] IN
               /\ a.buffer \in DOMAIN heap /\ Len(a.strides) = Len(a.shape)
               /\ \A ix \in Indices(a.shape) : Position(a, ix) + 1 \in DOMAIN heap[a.buffer]
               /\ IsContiguous(a) => \A k \in 1 .. Size(a) : a.offset + k \in DOMAIN heap[a.buffer]
  <2> DEFINE a == arrays[x]
  <2>1. ViewIn(heap, a)
    BY DEF IInv, AllIn
  <2> HIDE DEF a
  <2>2. a.buffer \in DOMAIN heap /\ Len(a.strides) = Len(a.shape)
    BY <2>1 DEF ViewIn, Shaped
  <2>3. DOMAIN heap[a.buffer] = 1 .. Len(heap[a.buffer])
    BY <1>1, <2>2
  <2>4. \A ix \in Indices(a.shape) : Position(a, ix) + 1 \in DOMAIN heap[a.buffer]
    BY <2>1, <2>3 DEF ViewIn
  <2>5. IsContiguous(a) => \A k \in 1 .. Size(a) : a.offset + k \in DOMAIN heap[a.buffer]
    BY <2>1, <2>3, BlockInside
  <2> QED
    BY <2>2, <2>4, <2>5 DEF a
<1> QED
  BY <1>1, <1>2 DEF ViewsAreSound

(* Whatever a program does, the heap holds elements only and no array reaches     *)
(* outside its buffer: neither by an index nor as the block its layout is taken   *)
(* for.  A view is not checked when it is built (ndarray.hpp:341) and at() checks *)
(* the index against the shape only (ndarray.hpp:502), so this is what slicing,   *)
(* stretching, copying and computing have to keep, for every shape and bound.     *)
THEOREM ViewsStaySound == ArraySpec => []ViewsAreSound
<1>1. ArrayInit => IInv
  BY InitIs
<1>2. IInv /\ [ArrayNext]_arrayVars => IInv'
  BY StepIs
<1>3. IInv => ViewsAreSound
  BY SoundIs
<1> QED
  BY <1>1, <1>2, <1>3, PTL DEF ArraySpec

(* A statement changes no element of another name's array, but those it writes to *)
(* by name and those of a view that expires in it and may be computed into        *)
(* (ndarray.hpp:1172), and one that throws changes nothing at all: for every      *)
(* statement, however the views of the program overlap.                           *)
THEOREM TargetsOnly == ArraySpec => OnlyTargetsChange
<1>1. ArrayInit => IInv
  BY InitIs
<1>2. IInv /\ [ArrayNext]_arrayVars => IInv'
  BY StepIs
<1>3. IInv /\ [ArrayNext]_arrayVars => [OnlyTargets]_arrayVars
  BY StepIs
<1> QED
  BY <1>1, <1>2, <1>3, PTL DEF ArraySpec, OnlyTargetsChange, OnlyTargets

-----------------------------------------------------------------------------
(* The meaning of every statement.                                               *)
At(h, a, ix) == h[a.buffer][Position(a, ix) + 1]

LEMMA Narrower ==
  ASSUME NEW o \in Nat, NEW p \in Nat, NEW q \in Nat, NEW x \in Nat, NEW s \in Nat, NEW t \in Nat,
         p = o + x, p <= q, q < p + s, x + s <= t
  PROVE  o <= q /\ q < o + t
OBVIOUS

(* A contiguous view has its indices at different places.                        *)
LEMMA LargerAt ==
  ASSUME NEW a, Shaped(a), IsContiguous(a), NEW ix \in Indices(a.shape), NEW k \in 1 .. Len(a.shape)
  PROVE  /\ Position(a, ix) \in Nat /\ Offsets(a, ix)[k] \in Nat
         /\ Offsets(a, ix)[k] <= Position(a, ix) /\ Position(a, ix) < Offsets(a, ix)[k] + a.strides[k]
<1> DEFINE n == Len(a.shape)
           off == Offsets(a, ix)
           T == {d \in 0 .. n - k : off[n - d] <= off[n] /\ off[n] < off[n - d] + a.strides[n - d]}
<1>1. a.shape \in Seq(Nat) /\ n \in Nat /\ k \in Nat /\ k <= n /\ 1 <= k /\ n > 0
  BY DEF Shaped, Views
<1>2. \A j \in 1 .. n : ix[j] \in Nat /\ ix[j] < a.shape[j] /\ a.shape[j] \in Nat
  BY <1>1, IndexSeq
<1>3. /\ \A j \in 0 .. n : off[j] \in Nat
      /\ \A j \in 1 .. n : off[j] = off[j - 1] + ix[j] * a.strides[j]
      /\ Position(a, ix) = off[n]
  BY OffsetsOfIndex
<1>4. a.strides = ContiguousStrides(a.shape)
  BY DEF IsContiguous
<1>5. /\ \A j \in 1 .. n : a.strides[j] \in Nat
      /\ a.strides[n] = 1
      /\ \A j \in 1 .. n - 1 : a.strides[j] = a.strides[j + 1] * a.shape[j + 1]
  BY <1>1, <1>4, StridesAre
<1> HIDE DEF off, n
<1>6. 0 \in T
  BY <1>1, <1>3, <1>5
<1>7. ASSUME NEW d \in 1 .. n - k, d - 1 \in T PROVE d \in T
  <2>1. PICK j \in 1 .. n - 1 : j = n - d /\ n - (d - 1) = j + 1 /\ j + 1 \in 1 .. n /\ j \in 1 .. n /\ j \in 0 .. n /\ j + 1 - 1 = j
    <3>1. n - d \in 1 .. n - 1
      BY <1>1
    <3> QED
      BY <1>1, <3>1
  <2>2. off[j + 1] <= off[n] /\ off[n] < off[j + 1] + a.strides[j + 1]
    BY <1>7, <2>1
  <2>3. off[j + 1] = off[j] + ix[j + 1] * a.strides[j + 1]
    BY <1>3, <2>1
  <2>4. off[j] \in Nat /\ ix[j + 1] \in Nat /\ a.strides[j + 1] \in Nat /\ a.shape[j + 1] \in Nat /\ ix[j + 1] < a.shape[j + 1]
        /\ off[n] \in Nat
    BY <1>1, <1>2, <1>3, <1>5, <2>1
  <2>5. ix[j + 1] * a.strides[j + 1] + a.strides[j + 1] <= a.shape[j + 1] * a.strides[j + 1]
    BY <2>4, ScaledLess
  <2>6. a.strides[j] = a.shape[j + 1] * a.strides[j + 1]
    <3>1. a.strides[j] = a.strides[j + 1] * a.shape[j + 1]
      BY <1>5
    <3>2. a.strides[j + 1] * a.shape[j + 1] = a.shape[j + 1] * a.strides[j + 1]
      BY <2>4
    <3> QED
      BY <3>1, <3>2
  <2>7. ix[j + 1] * a.strides[j + 1] \in Nat /\ a.strides[j] \in Nat
    <3>1. \A x, y \in Nat : x * y \in Nat
      OBVIOUS
    <3>2. a.strides[j] \in Nat
      BY <1>5, <2>1
    <3> QED
      BY <2>4, <3>1, <3>2
  <2>8. off[j] <= off[n] /\ off[n] < off[j] + a.strides[j] /\ off[j + 1] \in Nat
    <3> DEFINE x == ix[j + 1] * a.strides[j + 1]
    <3>1. x \in Nat /\ x + a.strides[j + 1] <= a.strides[j] /\ off[j + 1] = off[j] + x
      BY <2>3, <2>5, <2>6, <2>7
    <3> HIDE DEF x
    <3>2. off[j + 1] \in Nat /\ off[j] \in Nat /\ off[n] \in Nat /\ a.strides[j + 1] \in Nat /\ a.strides[j] \in Nat
      BY <1>1, <1>3, <2>1, <2>4, <2>7
    <3> DEFINE o == off[j]
               p == off[j + 1]
               q == off[n]
               s == a.strides[j + 1]
               t == a.strides[j]
    <3>3. o \in Nat /\ p \in Nat /\ q \in Nat /\ s \in Nat /\ t \in Nat /\ p = o + x /\ p <= q /\ q < p + s /\ x + s <= t
      BY <2>2, <3>1, <3>2
    <3>4. o <= q /\ q < o + t
      <4> HIDE DEF o, p, q, s, t
      <4> QED
        BY <3>1, <3>3, Narrower
    <3> QED
      BY <3>2, <3>4
  <2>9. d \in 0 .. n - k
    BY <1>1
  <2> QED
    BY <2>1, <2>8, <2>9
<1>8. n - k \in T
  <2>1. n - k \in Nat /\ n - k \in 0 .. n - k
    BY <1>1
  <2> HIDE DEF T
  <2> QED
    BY <1>6, <1>7, <2>1, Counting
<1>9. n - (n - k) = k /\ k \in 0 .. n
  BY <1>1
<1>10. off[k] \in Nat /\ off[n] \in Nat /\ off[k] <= off[n] /\ off[n] < off[k] + a.strides[k]
  <2>1. n \in 0 .. n
    BY <1>1
  <2> QED
    BY <1>3, <1>8, <1>9, <2>1
<1> QED
  BY <1>3, <1>10 DEF off

LEMMA SameStep ==
  ASSUME NEW o \in Nat, NEW x \in Nat, NEW y \in Nat, NEW s \in Nat,
         o + x * s < o + y * s + s, o + y * s < o + x * s + s
  PROVE  x = y
<1>1. ASSUME NEW u \in Nat, NEW v \in Nat, u < v, o + v * s < o + u * s + s PROVE FALSE
  <2>1. u * s + s <= v * s
    BY <1>1, ScaledLess
  <2>2. u * s \in Nat /\ v * s \in Nat
    OBVIOUS
  <2> QED
    BY <1>1, <2>1, <2>2
<1> QED
  BY <1>1

LEMMA RankInjective ==
  ASSUME NEW a, Shaped(a), IsContiguous(a), NEW ix \in Indices(a.shape), NEW jx \in Indices(a.shape),
         Position(a, ix) = Position(a, jx)
  PROVE  ix = jx
<1> DEFINE n == Len(a.shape)
           p == Offsets(a, ix)
           q == Offsets(a, jx)
           T == {k \in 0 .. n : p[k] = q[k] /\ \A i \in 1 .. k : ix[i] = jx[i]}
<1>1. a.shape \in Seq(Nat) /\ n \in Nat
  BY DEF Shaped, Views
<1>2. \A k \in 1 .. n : ix[k] \in Nat /\ jx[k] \in Nat
  BY <1>1, IndexSeq
<1>3. /\ \A k \in 0 .. n : p[k] \in Nat
      /\ p[0] = a.offset
      /\ \A k \in 1 .. n : p[k] = p[k - 1] + ix[k] * a.strides[k]
  BY OffsetsOfIndex
<1>4. /\ \A k \in 0 .. n : q[k] \in Nat
      /\ q[0] = a.offset
      /\ \A k \in 1 .. n : q[k] = q[k - 1] + jx[k] * a.strides[k]
  BY OffsetsOfIndex
<1>5. \A k \in 1 .. n : a.strides[k] \in Nat
  BY <1>1 DEF Shaped, Views
<1>6. \A k \in 1 .. n : p[k] < q[k] + a.strides[k] /\ q[k] < p[k] + a.strides[k]
  <2>1. SUFFICES ASSUME NEW k \in 1 .. n PROVE p[k] < q[k] + a.strides[k] /\ q[k] < p[k] + a.strides[k]
    OBVIOUS
  <2>2. p[k] <= Position(a, ix) /\ Position(a, ix) < p[k] + a.strides[k] /\ p[k] \in Nat /\ Position(a, ix) \in Nat
    BY LargerAt
  <2>3. q[k] <= Position(a, jx) /\ Position(a, jx) < q[k] + a.strides[k] /\ q[k] \in Nat
    BY LargerAt
  <2> HIDE DEF p, q
  <2> QED
    BY <1>5, <2>2, <2>3
<1> HIDE DEF p, q, n
<1>7. ASSUME NEW k \in 1 .. n, k - 1 \in T PROVE k \in T
  <2>1. k \in 0 .. n /\ k - 1 \in 0 .. n /\ p[k - 1] \in Nat /\ ix[k] \in Nat /\ jx[k] \in Nat /\ a.strides[k] \in Nat
    BY <1>1, <1>2, <1>3, <1>5
  <2>2. p[k - 1] = q[k - 1] /\ \A i \in 1 .. k - 1 : ix[i] = jx[i]
    BY <1>7
  <2>3. ix[k] = jx[k]
    <3> DEFINE o == p[k - 1]
               x == ix[k]
               y == jx[k]
               s == a.strides[k]
    <3>1. p[k] = o + x * s /\ q[k] = o + y * s /\ p[k] < q[k] + s /\ q[k] < p[k] + s
      BY <1>3, <1>4, <1>6, <2>2
    <3>2. o \in Nat /\ x \in Nat /\ y \in Nat /\ s \in Nat
      BY <2>1
    <3>3. o + x * s < o + y * s + s /\ o + y * s < o + x * s + s
      <4> HIDE DEF o, x, y, s
      <4> QED
        BY <3>1
    <3> HIDE DEF o, x, y, s
    <3>4. x = y
      BY <3>2, <3>3, SameStep
    <3> QED
      BY <3>4 DEF x, y
  <2>4. p[k] = q[k]
    BY <1>3, <1>4, <2>2, <2>3
  <2>5. \A i \in 1 .. k : i \in 1 .. k - 1 \/ i = k
    BY <1>1
  <2> QED
    BY <2>1, <2>2, <2>3, <2>4, <2>5
<1>8. n \in T
  <2>1. 0 \in T /\ n \in 0 .. n
    BY <1>1, <1>3, <1>4
  <2> HIDE DEF T
  <2> QED
    BY <1>1, <1>7, <2>1, Counting
<1>9. ix \in [1 .. n -> Nat] /\ jx \in [1 .. n -> Nat]
  BY <1>1, IndicesAre DEF n
<1> QED
  BY <1>8, <1>9

(* The walk lists every index once, at the place of its rank.                    *)
LEMMA WalkAt ==
  ASSUME NEW shape \in Seq(Nat), Product(shape) # TooLarge, NEW ix \in Indices(shape)
  PROVE  Rank(shape, ix) \in Nat /\ Rank(shape, ix) + 1 \in 1 .. Product(shape) /\ Walk(shape)[Rank(shape, ix) + 1] = ix
<1> DEFINE a == Contiguous(0, shape)
           r == Rank(shape, ix)
           w == Walk(shape)
<1>1. Shaped(a) /\ IsContiguous(a) /\ Size(a) = Product(shape) /\ a.shape = shape /\ a.offset = 0
  BY ContiguousIs
<1>2. Position(a, ix) \in Nat /\ Position(a, ix) + 1 <= Product(shape)
  <2>1. Position(a, ix) \in Nat /\ a.offset <= Position(a, ix) /\ Position(a, ix) + 1 <= a.offset + Size(a)
    <3> HIDE DEF a
    <3> QED
      BY <1>1, BlockBound
  <2>2. Size(a) \in Nat
    BY <1>1, WalkIs
  <2> HIDE DEF a
  <2> QED
    BY <1>1, <2>1, <2>2
<1>3. r = Position(a, ix)
  BY DEF Rank
<1>4. Product(shape) \in Nat /\ \A k \in 1 .. Product(shape) : w[k] \in Indices(shape) /\ Rank(shape, w[k]) = k - 1
  BY WalkIs
<1> HIDE DEF w
<1>5. r \in Nat /\ r + 1 \in 1 .. Product(shape)
  <2> HIDE DEF a, r
  <2> QED
    BY <1>2, <1>3, <1>4
<1>6. w[r + 1] \in Indices(shape) /\ Rank(shape, w[r + 1]) = r
  <2> HIDE DEF r
  <2>1. w[r + 1] \in Indices(shape) /\ Rank(shape, w[r + 1]) = r + 1 - 1
    BY <1>4, <1>5
  <2> QED
    BY <1>5, <2>1
<1>7. Position(a, w[r + 1]) = Position(a, ix)
  <2>1. Rank(shape, w[r + 1]) = Position(a, w[r + 1])
    BY DEF Rank
  <2> QED
    BY <1>3, <1>6, <2>1
<1>8. w[r + 1] = ix
  <2> HIDE DEF a, r
  <2> QED
    BY <1>1, <1>6, <1>7, RankInjective
<1> QED
  BY <1>5, <1>8 DEF w

LEMMA CountIs ==
  ASSUME NEW shape \in Seq(Nat), Product(shape) # TooLarge
  PROVE  IsFiniteSet(Indices(shape)) /\ Cardinality(Indices(shape)) = Product(shape)
<1> DEFINE n == Product(shape)
           I == Indices(shape)
           F == [k \in 1 .. n |-> Walk(shape)[k]]
<1>1. n \in Nat /\ \A k \in 1 .. n : Walk(shape)[k] \in I /\ Rank(shape, Walk(shape)[k]) = k - 1
  BY WalkIs
<1>2. \A ix \in I : Rank(shape, ix) + 1 \in 1 .. n /\ Walk(shape)[Rank(shape, ix) + 1] = ix
  BY WalkAt
<1> HIDE DEF n, I
<1>3. F \in [1 .. n -> I]
  BY <1>1
<1>4. \A j, k \in 1 .. n : F[j] = F[k] => j = k
  <2>1. SUFFICES ASSUME NEW j \in 1 .. n, NEW k \in 1 .. n, F[j] = F[k] PROVE j = k
    OBVIOUS
  <2>2. j - 1 = k - 1
    BY <1>1, <2>1
  <2> QED
    BY <1>1, <2>2
<1>5. \A ix \in I : \E k \in 1 .. n : F[k] = ix
  <2>1. SUFFICES ASSUME NEW ix \in I PROVE \E k \in 1 .. n : F[k] = ix
    OBVIOUS
  <2>2. Rank(shape, ix) + 1 \in 1 .. n /\ F[Rank(shape, ix) + 1] = ix
    BY <1>2
  <2> QED
    BY <2>2
<1> HIDE DEF F
<1>6. ExistsBijection(1 .. n, I)
  <2>1. F \in Bijection(1 .. n, I)
    BY <1>3, <1>4, <1>5, Zenon DEF Bijection, Injection, Surjection, IsInjective
  <2> QED
    BY <2>1 DEF ExistsBijection
<1>7. IsFiniteSet(1 .. n) /\ Cardinality(1 .. n) = n
  <2>1. 1 \in Int /\ n \in Int /\ (IF 1 > n THEN 0 ELSE n - 1 + 1) = n
    BY <1>1
  <2>2. IsFiniteSet(1 .. n) /\ Cardinality(1 .. n) = IF 1 > n THEN 0 ELSE n - 1 + 1
    BY <2>1, FS_Interval
  <2> QED
    BY <2>1, <2>2
<1> QED
  BY <1>6, <1>7, FS_Bijection DEF n, I

(* The cells of a view, by the place or by the index.                            *)
LEMMA WalkedAt ==
  ASSUME NEW a, Shaped(a), Size(a) # TooLarge, NEW ix \in Indices(a.shape)
  PROVE  LET k == Rank(a.shape, ix) + 1 IN
           k \in 1 .. Size(a) /\ Walked(a)[k] = Cell(a, Position(a, ix))
<1> DEFINE k == Rank(a.shape, ix) + 1
           w == Walk(a.shape)
<1>1. a.shape \in Seq(Nat)
  BY DEF Shaped, Views
<1>2. k \in 1 .. Size(a) /\ w[k] = ix
  BY <1>1, WalkAt DEF Size
<1>3. w \in Seq(Indices(a.shape)) /\ Len(w) = Size(a)
  BY <1>1, WalkIs DEF Size
<1> HIDE DEF k, w
<1>4. DOMAIN w = 1 .. Size(a)
  BY <1>3
<1>5. Walked(a)[k] = Cell(a, Position(a, w[k]))
  BY <1>2, <1>4 DEF Walked, w
<1> QED
  BY <1>2, <1>5 DEF k

LEMMA FlatAt ==
  ASSUME NEW a, Shaped(a), IsContiguous(a), Size(a) # TooLarge, NEW ix \in Indices(a.shape)
  PROVE  LET k == Rank(a.shape, ix) + 1 IN
           /\ k \in 1 .. Size(a) /\ Flat(a)[k] = Cell(a, Position(a, ix))
           /\ a.offset + k = Position(a, ix) + 1
<1> DEFINE k == Rank(a.shape, ix) + 1
<1>1. k \in 1 .. Size(a)
  BY WalkedAt
<1>2. Position(a, ix) = a.offset + Rank(a.shape, ix) /\ Rank(a.shape, ix) \in Nat /\ a.offset \in Nat
  BY ContiguousPosition DEF Shaped, Views
<1>3. a.offset + k - 1 = Position(a, ix) /\ a.offset + k = Position(a, ix) + 1
  BY <1>2
<1> HIDE DEF k
<1>4. Flat(a)[k] = Cell(a, a.offset + k - 1)
  BY <1>1 DEF Flat
<1> QED
  BY <1>1, <1>3, <1>4 DEF k

(* An array of a single element has it at its offset.                            *)
LEMMA SingleAt ==
  ASSUME NEW a, Shaped(a), Size(a) = 1, NEW ix \in Indices(a.shape)
  PROVE  Position(a, ix) = a.offset
<1> DEFINE o == Origin(a.shape)
           c == Contiguous(0, a.shape)
<1>1. a.shape \in Seq(Nat) /\ Product(a.shape) = 1 /\ Product(a.shape) # TooLarge /\ Product(a.shape) > 0
  BY DEF Shaped, Views, Size, TooLarge
<1>2. o \in Indices(a.shape)
  BY <1>1, OriginIs
<1>3. Rank(a.shape, ix) = 0 /\ Rank(a.shape, o) = 0
  <2>1. \A jx \in Indices(a.shape) : Rank(a.shape, jx) \in Nat /\ Rank(a.shape, jx) + 1 \in 1 .. 1
    BY <1>1, WalkAt
  <2>2. \A jx \in Indices(a.shape) : Rank(a.shape, jx) = 0
    BY <2>1
  <2> QED
    BY <1>2, <2>2
<1>4. Shaped(c) /\ IsContiguous(c) /\ c.shape = a.shape
  BY <1>1, ContiguousIs
<1>5. Position(c, ix) = Position(c, o)
  BY <1>3 DEF Rank
<1>6. ix = o
  <2> HIDE DEF c, o
  <2> QED
    BY <1>2, <1>4, <1>5, RankInjective
<1> QED
  BY <1>2, <1>6, OriginPosition

(* Nothing is pulled back for a shape that is not stretched.                     *)
LEMMA PullSame ==
  ASSUME NEW shape \in Seq(Nat), NEW ix \in Indices(shape)
  PROVE  Pull(ix, shape) = ix
<1> DEFINE n == Len(shape)
<1>1. n \in Nat /\ DOMAIN shape = 1 .. n
  OBVIOUS
<1>2. Len(ix) = n /\ \A i \in 1 .. n : ix[i] \in Nat /\ ix[i] < shape[i]
  BY IndexSeq
<1>3. ix \in [1 .. n -> Nat]
  BY IndicesAre
<1>4. \A i \in 1 .. n : shape[i] = 1 => ix[i] = 0
  BY <1>2
<1>5. \A i \in 1 .. n : i + n - n = i
  BY <1>1
<1>6. Pull(ix, shape) = [i \in 1 .. n |-> IF shape[i] = 1 THEN 0 ELSE ix[i + n - n]]
  BY <1>1, <1>2 DEF Pull
<1> HIDE DEF n
<1>7. \A i \in 1 .. n : Pull(ix, shape)[i] = ix[i]
  <2>1. SUFFICES ASSUME NEW i \in 1 .. n PROVE Pull(ix, shape)[i] = ix[i]
    OBVIOUS
  <2> QED
    BY <1>4, <1>5, <1>6
<1> QED
  BY <1>3, <1>6, <1>7

(* There is no index just when a dimension is 0.                                 *)
LEMMA RefusedIs ==
  ASSUME NEW shape \in Seq(Nat)
  PROVE  Refused(shape) <=> Indices(shape) = {}
<1> DEFINE n == Len(shape)
<1>1. n \in Nat /\ DOMAIN shape = 1 .. n /\ \A i \in 1 .. n : shape[i] \in Nat
  OBVIOUS
<1>2. ASSUME Refused(shape), NEW ix \in Indices(shape) PROVE FALSE
  <2>1. PICK i \in 1 .. n : shape[i] = 0
    BY <1>1, <1>2 DEF Refused
  <2>2. ix[i] \in Nat /\ ix[i] < shape[i]
    BY IndexSeq
  <2> QED
    BY <2>1, <2>2
<1>3. ASSUME ~Refused(shape) PROVE Origin(shape) \in Indices(shape)
  <2>1. \A i \in 1 .. n : 0 < shape[i]
    BY <1>1, <1>3 DEF Refused
  <2>2. Origin(shape) \in [1 .. n -> Nat] /\ \A i \in 1 .. n : Origin(shape)[i] = 0
    BY <1>1 DEF Origin
  <2> QED
    BY <2>1, <2>2, IndicesAre
<1> QED
  BY <1>2, <1>3

LEMMA Ceiling ==
  ASSUME NEW n \in Nat, NEW d \in Nat \ {0}
  PROVE  n <= ((n + d - 1) \div d) * d /\ ((n + d - 1) \div d) * d \in Nat
<1> DEFINE m == n + d - 1
           q == m \div d
<1>1. m \in Nat /\ n = m - d + 1
  OBVIOUS
<1> HIDE DEF m
<1>2. q \in Nat /\ m % d \in 0 .. d - 1 /\ m = q * d + (m % d)
  BY <1>1
<1> HIDE DEF q
<1>3. q * d \in Nat
  BY <1>2
<1>4. n <= q * d
  BY <1>1, <1>2, <1>3
<1> QED
  BY <1>3, <1>4 DEF q, m

-----------------------------------------------------------------------------
(* Loops.  No term of a list is a cell that an earlier place of the block writes. *)
Behind(to, list) == \A i, k \in 1 .. Size(to) : i < k => list[k] # Cell(to, to.offset + i - 1)
Term(h, op, left, right, k) == Combine(op, Read(h, left[k]), Read(h, right[k]))

LEMMA OneBlockAt ==
  ASSUME NEW h, Heap(h), NEW op, NEW to, ViewIn(h, to), IsContiguous(to), Size(to) # TooLarge,
         NEW left, NEW right, NEW places, NEW k \in 1 .. Size(to)
  PROVE  OneBlock(h, op, to, left, right, places)[to.buffer][to.offset + k] =
           IF k \in places THEN Term(h, op, left, right, k) ELSE h[to.buffer][to.offset + k]
<1> DEFINE b == to.buffer
           old == h[b]
           new == [p \in DOMAIN old |-> LET i == p - to.offset IN IF i \in places THEN Term(h, op, left, right, i) ELSE old[p]]
           q == to.offset + k
<1>1. OneBlock(h, op, to, left, right, places) = [h EXCEPT ![b] = new]
  BY DEF OneBlock, Term
<1>2. b \in DOMAIN h
  BY DEF ViewIn
<1>3. DOMAIN old = 1 .. Len(old)
  BY <1>2 DEF Heap
<1>4. to.offset \in Nat /\ Size(to) \in Nat
  BY SizeNat DEF ViewIn, Shaped, Views, Size
<1>5. q \in 1 .. Len(old) /\ q - to.offset = k
  <2>1. q \in 1 .. Len(old)
    BY BlockInside
  <2>2. q - to.offset = k
    BY <1>4
  <2> HIDE DEF q
  <2> QED
    BY <2>1, <2>2
<1> HIDE DEF old, q, b
<1>6. new[q] = IF k \in places THEN Term(h, op, left, right, k) ELSE old[q]
  BY <1>3, <1>5
<1> HIDE DEF new
<1>7. [h EXCEPT ![b] = new][b] = new
  BY <1>2
<1> QED
  BY <1>1, <1>6, <1>7 DEF b, q, old

(* What is read of a term that is not a cell changed.                            *)
LEMMA ReadKept ==
  ASSUME NEW h, NEW g, NEW C, Changes(h, g, C), NEW t, Readable(h, t),
         \A b, p : t = <<"cell", b, p>> /\ <<b, p - 1>> \in C => g[b][p] = h[b][p]
  PROVE  Read(g, t) = Read(h, t)
<1>1. CASE \E e \in Elements : t = <<"value", e>>
  <2>1. t[1] # "cell"
    BY <1>1
  <2> QED
    BY <2>1 DEF Read
<1>2. CASE \E b \in DOMAIN h : \E p \in 1 .. Len(h[b]) : t = <<"cell", b, p>>
  <2>1. PICK b \in DOMAIN h : \E p \in 1 .. Len(h[b]) : t = <<"cell", b, p>>
    BY <1>2
  <2>11. PICK p \in 1 .. Len(h[b]) : t = <<"cell", b, p>>
    BY <2>1
  <2>2. t[1] = "cell" /\ t[2] = b /\ t[3] = p
    BY <2>11
  <2>3. g[b][p] = h[b][p]
    <3>1. <<b, p - 1>> \in C \/ g[b][p] = h[b][p]
      BY DEF Changes
    <3> QED
      BY <2>11, <3>1
  <2> QED
    BY <2>2, <2>3 DEF Read
<1> QED
  BY <1>1, <1>2 DEF Readable

LEMMA TransformAt ==
  ASSUME NEW h, Heap(h), NEW op \in AnyOp, NEW to, ViewIn(h, to), IsContiguous(to), Size(to) # TooLarge,
         NEW left, NEW right, Terms(h, left, Size(to)), Terms(h, right, Size(to)), NEW block \in Nat \ {0},
         Behind(to, left), Behind(to, right), NEW k \in 1 .. Size(to)
  PROVE  Transform(h, op, to, left, right, block)[to.buffer][to.offset + k] = Term(h, op, left, right, k)
<1> DEFINE n == Size(to)
           last == (n + block - 1) \div block
           b == to.buffer
           C == CellsOf(to)
           Places(j) == ((j - 1) * block + 1 .. j * block) \intersect (1 .. n)
<1>1. n \in Nat /\ last \in 0 .. n /\ to.offset \in Nat
  BY TransformRuns DEF ViewIn, Shaped, Views
<1>2. PICK p : Transform(h, op, to, left, right, block) = p[last] /\ BlocksRun(h, op, to, left, right, block, p)
  BY TransformRuns
<1>22. /\ p[0] = h
       /\ \A j \in 0 .. n : Heap(p[j]) /\ Changes(h, p[j], C) /\ DOMAIN p[j] = DOMAIN h
       /\ \A j \in 1 .. n : p[j] = OneBlock(p[j - 1], op, to, left, right, Places(j))
  BY <1>2 DEF BlocksRun
<1> DEFINE Done(j) == \A i \in 1 .. n :
               p[j][b][to.offset + i] = IF i <= j * block THEN Term(h, op, left, right, i) ELSE h[b][to.offset + i]
           T == {j \in 0 .. n : Done(j)}
<1>3. \A i \in 1 .. n : \A c, q : <<"cell", c, q>> = Cell(to, to.offset + i - 1) <=> c = b /\ q = to.offset + i
  <2>1. SUFFICES ASSUME NEW i \in 1 .. n, NEW c, NEW q
                 PROVE <<"cell", c, q>> = Cell(to, to.offset + i - 1) <=> c = b /\ q = to.offset + i
    OBVIOUS
  <2>2. to.offset + i - 1 + 1 = to.offset + i
    BY <1>1
  <2> QED
    BY <2>2 DEF Cell
<1>4. ASSUME NEW c, NEW q, <<c, q - 1>> \in C, q \in Nat PROVE c = b /\ \E i \in 1 .. n : q = to.offset + i
  <2>1. PICK ix \in Indices(to.shape) : <<c, q - 1>> = <<b, Position(to, ix)>>
    BY <1>4 DEF CellsOf
  <2>2. Rank(to.shape, ix) + 1 \in 1 .. n /\ to.offset + (Rank(to.shape, ix) + 1) = Position(to, ix) + 1
    BY FlatAt DEF ViewIn
  <2>3. Position(to, ix) \in Nat
    BY PositionNat DEF ViewIn
  <2>4. c = b /\ q = Position(to, ix) + 1
    BY <1>4, <2>1, <2>3
  <2> QED
    BY <2>2, <2>4
<1>5. ASSUME NEW j \in 1 .. n, Done(j - 1), NEW list, Terms(h, list, n), Behind(to, list), NEW i \in Places(j)
      PROVE  Read(p[j - 1], list[i]) = Read(h, list[i])
  <2>1. j - 1 \in 0 .. n
    BY <1>1
  <2>2. Changes(h, p[j - 1], C)
    BY <1>22, <2>1
  <2>3. i \in 1 .. n
    OBVIOUS
  <2>4. Readable(h, list[i])
    BY <1>5, <2>3 DEF Terms
  <2>5. ASSUME NEW c, NEW q, list[i] = <<"cell", c, q>>, <<c, q - 1>> \in C PROVE p[j - 1][c][q] = h[c][q]
    <3>1. q \in Nat
      <4>1. list[i][1] = "cell" /\ list[i][3] = q
        BY <2>5
      <4>2. ~(\E e \in Elements : list[i] = <<"value", e>>)
        BY <4>1
      <4>3. PICK d \in DOMAIN h : \E r \in 1 .. Len(h[d]) : list[i] = <<"cell", d, r>>
        BY <2>4, <4>2 DEF Readable
      <4> QED
        BY <4>1, <4>3
    <3>2. PICK m \in 1 .. n : q = to.offset + m /\ c = b
      BY <1>4, <2>5, <3>1
    <3>3. list[i] = Cell(to, to.offset + m - 1)
      BY <1>3, <2>5, <3>2
    <3>4. ~(m < i)
      BY <1>5, <2>3, <3>3 DEF Behind
    <3>5. ~(m <= (j - 1) * block)
      <4>1. i >= (j - 1) * block + 1
        OBVIOUS
      <4>2. (j - 1) * block \in Int /\ i \in Int /\ m \in Int
        BY <1>1, <2>3
      <4> QED
        BY <3>4, <4>1, <4>2
    <3> QED
      BY <1>5, <3>2, <3>5
  <2> HIDE DEF C, Done
  <2> QED
    BY <2>2, <2>4, <2>5, ReadKept
<1>6. ASSUME NEW j \in 1 .. n, j - 1 \in T PROVE j \in T
  <2>1. j - 1 \in 0 .. n /\ j \in 0 .. n
    BY <1>1
  <2>2. Heap(p[j - 1]) /\ ViewIn(p[j - 1], to)
    <3>1. Heap(p[j - 1]) /\ Changes(h, p[j - 1], C)
      BY <1>22, <2>1
    <3> QED
      BY <3>1, ViewKept
  <2>3. (j - 1) * block \in Nat /\ j * block = (j - 1) * block + block
    BY <1>1
  <2>4. ASSUME NEW i \in 1 .. n
        PROVE  p[j][b][to.offset + i] = IF i <= j * block THEN Term(h, op, left, right, i) ELSE h[b][to.offset + i]
    <3>1. p[j][b][to.offset + i] =
            IF i \in Places(j) THEN Term(p[j - 1], op, left, right, i) ELSE p[j - 1][b][to.offset + i]
      <4>1. p[j] = OneBlock(p[j - 1], op, to, left, right, Places(j))
        BY <1>22
      <4> HIDE DEF Places
      <4> QED
        BY <2>2, <4>1, OneBlockAt
    <3>2. p[j - 1][b][to.offset + i] =
            IF i <= (j - 1) * block THEN Term(h, op, left, right, i) ELSE h[b][to.offset + i]
      BY <1>6
    <3>3. CASE i \in Places(j)
      <4>1. Read(p[j - 1], left[i]) = Read(h, left[i]) /\ Read(p[j - 1], right[i]) = Read(h, right[i])
        BY <1>5, <1>6, <3>3
      <4>2. Term(p[j - 1], op, left, right, i) = Term(h, op, left, right, i)
        BY <4>1 DEF Term
      <4>3. i <= j * block
        BY <3>3
      <4> QED
        BY <3>1, <3>3, <4>2, <4>3
    <3>4. CASE i \notin Places(j)
      <4>1. i <= j * block <=> i <= (j - 1) * block
        <5> DEFINE lo == (j - 1) * block
                   hi == j * block
        <5>1. lo \in Nat /\ hi = lo + block /\ i \in Nat /\ ~(i >= lo + 1 /\ i <= hi)
          BY <1>1, <2>3, <3>4
        <5> HIDE DEF lo, hi
        <5>2. i <= hi <=> i <= lo
          BY <5>1
        <5> QED
          BY <5>2 DEF lo, hi
      <4> HIDE DEF Places
      <4> QED
        BY <3>1, <3>2, <3>4, <4>1
    <3> QED
      BY <3>3, <3>4
  <2> QED
    BY <2>1, <2>4
<1>7. Done(last)
  <2>1. 0 \in T
    <3>1. \A i \in 1 .. n : ~(i <= 0 * block)
      BY <1>1
    <3> QED
      BY <1>1, <1>22, <3>1
  <2>2. last \in T
    <3> HIDE DEF T, last
    <3> QED
      BY <1>1, <1>6, <2>1, Counting
  <2> QED
    BY <2>2
<1>8. k <= last * block
  <2>1. n <= last * block
    BY <1>1, Ceiling DEF last
  <2> QED
    BY <1>1, <2>1
<1> QED
  <2> HIDE DEF last
  <2> QED
    BY <1>2, <1>7, <1>8

(* What the terms of a loop read.                                                *)
Pulled(h, a, ix) == At(h, a, Pull(ix, a.shape))
LEMMA CellRead == ASSUME NEW h, NEW a, NEW p PROVE Read(h, Cell(a, p)) = h[a.buffer][p + 1]
BY DEF Read, Cell

LEMMA ListRead ==
  ASSUME NEW h, NEW a, Shaped(a), Size(a) # TooLarge, NEW ix \in Indices(a.shape)
  PROVE  LET k == Rank(a.shape, ix) + 1 IN
           /\ k \in 1 .. Size(a) /\ Read(h, Walked(a)[k]) = At(h, a, ix)
           /\ IsContiguous(a) => Read(h, Flat(a)[k]) = At(h, a, ix)
<1> DEFINE k == Rank(a.shape, ix) + 1
<1>1. k \in 1 .. Size(a) /\ Walked(a)[k] = Cell(a, Position(a, ix))
  BY WalkedAt
<1>2. IsContiguous(a) => Flat(a)[k] = Cell(a, Position(a, ix))
  BY FlatAt
<1>3. Read(h, Cell(a, Position(a, ix))) = At(h, a, ix)
  BY CellRead DEF At
<1> HIDE DEF k
<1> QED
  BY <1>1, <1>2, <1>3 DEF k

LEMMA RepeatedRead ==
  ASSUME NEW h, NEW a, Shaped(a), Size(a) = 1, NEW ix \in Indices(a.shape), NEW n, NEW k \in 1 .. n
  PROVE  Read(h, Repeated(h, a, n)[k]) = At(h, a, ix)
<1>1. Position(a, ix) = a.offset
  BY SingleAt
<1>2. Repeated(h, a, n)[k] = <<"value", Read(h, Cell(a, a.offset))>>
  BY DEF Repeated
<1>3. Read(h, Repeated(h, a, n)[k]) = Read(h, Cell(a, a.offset))
  BY <1>2 DEF Read
<1> QED
  BY <1>1, <1>3, CellRead DEF At

LEMMA StretchedAt ==
  ASSUME NEW h, NEW a, Shaped(a), NEW target \in Seq(Nat), CanStretch(a, target), NEW ix \in Indices(target)
  PROVE  Pull(ix, a.shape) \in Indices(a.shape) /\ At(h, BroadcastTo(a, target), ix) = Pulled(h, a, ix)
<1> DEFINE v == BroadcastTo(a, target)
<1>1. v.buffer = a.buffer /\ Pull(ix, a.shape) \in Indices(a.shape) /\ Position(v, ix) = Position(a, Pull(ix, a.shape))
  BY StretchedIs
<1> HIDE DEF v
<1> QED
  BY <1>1 DEF At, Pulled, v

LEMMA LoopAt ==
  ASSUME NEW h, NEW a, Shaped(a), NEW b, Shaped(b), NEW shape \in Seq(Nat),
         CanStretch(a, shape), CanStretch(b, shape), ~Unsized(a, b, shape), NEW ix \in Indices(shape)
  PROVE  LET do == LoopFor(h, a, b, shape)
             k == Rank(shape, ix) + 1
         IN  /\ k \in 1 .. Product(shape)
             /\ Read(h, do.left[k]) = Pulled(h, a, ix) /\ Read(h, do.right[k]) = Pulled(h, b, ix)
<1> DEFINE av == BroadcastTo(a, shape)
           bv == BroadcastTo(b, shape)
           n == Product(shape)
           do == LoopFor(h, a, b, shape)
           k == Rank(shape, ix) + 1
<1>1. Size(a) # TooLarge /\ Size(b) # TooLarge /\ n # TooLarge
  BY DEF Unsized
<1>2. Shaped(av) /\ Shaped(bv) /\ av.shape = shape /\ bv.shape = shape
  BY StretchedIs
<1>3. Size(av) = n /\ Size(bv) = n /\ n \in Nat /\ k \in 1 .. n
  BY <1>1, <1>2, SizeNat, WalkAt DEF Size
<1>4. do = LoopOver(h, a, b, av, bv, shape)
  BY DEF LoopFor
<1>5. /\ Pull(ix, a.shape) \in Indices(a.shape) /\ At(h, av, ix) = Pulled(h, a, ix)
      /\ Pull(ix, b.shape) \in Indices(b.shape) /\ At(h, bv, ix) = Pulled(h, b, ix)
  BY StretchedAt
<1> HIDE DEF do, av, bv, n, k
<1>6. ASSUME NEW v, Shaped(v), v.shape = shape
      PROVE  /\ Read(h, Walked(v)[k]) = At(h, v, ix)
             /\ IsContiguous(v) => Read(h, Flat(v)[k]) = At(h, v, ix)
             /\ Size(v) = n /\ Pulled(h, v, ix) = At(h, v, ix)
  <2>1. Size(v) = n /\ Size(v) # TooLarge /\ ix \in Indices(v.shape)
    BY <1>1, <1>6 DEF n, Size
  <2>2. /\ Read(h, Walked(v)[Rank(v.shape, ix) + 1]) = At(h, v, ix)
        /\ IsContiguous(v) => Read(h, Flat(v)[Rank(v.shape, ix) + 1]) = At(h, v, ix)
    BY <1>6, <2>1, ListRead
  <2>3. Pull(ix, v.shape) = ix
    BY <1>6, PullSame
  <2> QED
    BY <1>6, <2>1, <2>2, <2>3 DEF k, Pulled
<1>7. ASSUME NEW v, Shaped(v), Size(v) = 1, Pull(ix, v.shape) \in Indices(v.shape), NEW m, m = n
      PROVE  Read(h, Repeated(h, v, m)[k]) = Pulled(h, v, ix)
  BY <1>3, <1>7, RepeatedRead DEF Pulled
<1>8. CASE Size(b) = 1 /\ a.shape = shape /\ IsContiguous(a)
  <2>1. do.left = Flat(a) /\ do.right = Repeated(h, b, Size(a))
    BY <1>4, <1>8 DEF LoopOver
  <2>2. Read(h, do.left[k]) = Pulled(h, a, ix) /\ Size(a) = n
    BY <1>6, <1>8, <2>1
  <2>3. Read(h, do.right[k]) = Pulled(h, b, ix)
    BY <1>5, <1>7, <1>8, <2>1, <2>2
  <2> QED
    BY <1>3, <2>2, <2>3 DEF do, k, n
<1>9. CASE ~(Size(b) = 1 /\ a.shape = shape /\ IsContiguous(a)) /\ Size(a) = 1 /\ b.shape = shape /\ IsContiguous(b)
  <2>1. do.left = Repeated(h, a, Size(b)) /\ do.right = Flat(b)
    BY <1>4, <1>9 DEF LoopOver
  <2>2. Read(h, do.right[k]) = Pulled(h, b, ix) /\ Size(b) = n
    BY <1>6, <1>9, <2>1
  <2>3. Read(h, do.left[k]) = Pulled(h, a, ix)
    BY <1>5, <1>7, <1>9, <2>1, <2>2
  <2> QED
    BY <1>3, <2>2, <2>3 DEF do, k, n
<1>10. CASE /\ ~(Size(b) = 1 /\ a.shape = shape /\ IsContiguous(a))
            /\ ~(Size(a) = 1 /\ b.shape = shape /\ IsContiguous(b))
  <2>1. \/ IsContiguous(av) /\ IsContiguous(bv) /\ do.left = Flat(av) /\ do.right = Flat(bv)
        \/ do.left = Walked(av) /\ do.right = Walked(bv)
    BY <1>4, <1>10 DEF LoopOver
  <2>2. Read(h, do.left[k]) = At(h, av, ix) /\ Read(h, do.right[k]) = At(h, bv, ix)
    BY <1>2, <1>6, <2>1
  <2> QED
    BY <1>3, <1>5, <2>2 DEF do, k, n
<1> QED
  BY <1>8, <1>9, <1>10

(* Terms that a loop may read in step with what it writes: the same place of the *)
(* block, a number, or a cell elsewhere.                                         *)
Safe(to, list) ==
  \A k \in 1 .. Size(to) :
    \/ list[k] = Cell(to, to.offset + k - 1)
    \/ \E e : list[k] = <<"value", e>>
    \/ \E c : \E q \in Nat : list[k] = <<"cell", c, q>> /\ <<c, q - 1>> \notin CellsOf(to)

LEMMA SafeBehind ==
  ASSUME NEW h, NEW to, ViewIn(h, to), IsContiguous(to), Size(to) # TooLarge, NEW list, Safe(to, list)
  PROVE  Behind(to, list)
<1>1. Size(to) \in Nat /\ to.offset \in Nat
  BY SizeNat DEF ViewIn, Shaped, Views, Size
<1>2. SUFFICES ASSUME NEW i \in 1 .. Size(to), NEW k \in 1 .. Size(to), i < k, list[k] = Cell(to, to.offset + i - 1)
               PROVE FALSE
  BY DEF Behind
<1>3. list[k] = <<"cell", to.buffer, to.offset + i>>
  <2>1. to.offset + i - 1 + 1 = to.offset + i
    BY <1>1
  <2> QED
    BY <1>2, <2>1 DEF Cell
<1>4. list[k][1] = "cell" /\ list[k][2] = to.buffer /\ list[k][3] = to.offset + i
  BY <1>3
<1>5. CASE list[k] = Cell(to, to.offset + k - 1)
  <2>1. list[k][3] = to.offset + k - 1 + 1
    BY <1>5 DEF Cell
  <2> QED
    BY <1>1, <1>2, <1>4, <2>1
<1>6. CASE \E e : list[k] = <<"value", e>>
  BY <1>4, <1>6
<1>7. CASE \E c : \E q \in Nat : list[k] = <<"cell", c, q>> /\ <<c, q - 1>> \notin CellsOf(to)
  <2>1. PICK c : \E q \in Nat : list[k] = <<"cell", c, q>> /\ <<c, q - 1>> \notin CellsOf(to)
    BY <1>7
  <2>2. PICK q \in Nat : list[k] = <<"cell", c, q>> /\ <<c, q - 1>> \notin CellsOf(to)
    BY <2>1
  <2>3. c = to.buffer /\ q = to.offset + i
    BY <1>4, <2>2
  <2>4. <<to.buffer, to.offset + i - 1>> \in CellsOf(to)
    BY BlockInside
  <2>5. <<c, q - 1>> = <<to.buffer, to.offset + i - 1>>
    BY <1>1, <2>3
  <2> QED
    BY <2>2, <2>4, <2>5
<1> QED
  BY <1>2, <1>5, <1>6, <1>7 DEF Safe

(* What was readable before a buffer was made is elsewhere.                      *)
LEMMA SafeInNew ==
  ASSUME NEW h, NEW to, to.buffer \notin DOMAIN h, NEW list, Terms(h, list, Size(to))
  PROVE  Safe(to, list)
<1>1. SUFFICES ASSUME NEW k \in 1 .. Size(to)
               PROVE  \/ \E e : list[k] = <<"value", e>>
                      \/ \E c : \E q \in Nat : list[k] = <<"cell", c, q>> /\ <<c, q - 1>> \notin CellsOf(to)
  BY DEF Safe
<1>2. Readable(h, list[k])
  BY DEF Terms
<1>3. ASSUME NEW b \in DOMAIN h, NEW p \in 1 .. Len(h[b]), list[k] = <<"cell", b, p>>
      PROVE  p \in Nat /\ <<b, p - 1>> \notin CellsOf(to)
  <2>1. ASSUME <<b, p - 1>> \in CellsOf(to) PROVE FALSE
    <3>1. <<b, p - 1>>[1] = to.buffer
      BY <2>1, CellsThere
    <3> QED
      BY <3>1
  <2> QED
    BY <2>1
<1> QED
  BY <1>2, <1>3 DEF Readable

LEMMA ComputedAt ==
  ASSUME NEW op \in AnyOp, NEW new, Heap(new.heap), ViewIn(new.heap, new.array), IsContiguous(new.array),
         Size(new.array) # TooLarge, NEW do, Terms(new.heap, do.left, Size(new.array)),
         Terms(new.heap, do.right, Size(new.array)), NEW block \in Nat \ {0},
         Behind(new.array, do.left), Behind(new.array, do.right),
         Computed(op, new, do, block).ok, NEW ix \in Indices(new.array.shape)
  PROVE  At(Computed(op, new, do, block).heap, new.array, ix) =
           Term(new.heap, op, do.left, do.right, Rank(new.array.shape, ix) + 1)
<1> DEFINE B == IF do.walks THEN 1 ELSE block
           g == Transform(new.heap, op, new.array, do.left, do.right, B)
           k == Rank(new.array.shape, ix) + 1
<1>1. Computed(op, new, do, block).heap = g
  BY DEF Computed, Throw, Got
<1>2. B \in Nat \ {0}
  OBVIOUS
<1> HIDE DEF B
<1>3. k \in 1 .. Size(new.array) /\ new.array.offset + k = Position(new.array, ix) + 1
  BY FlatAt DEF ViewIn
<1> HIDE DEF k
<1>4. g[new.array.buffer][new.array.offset + k] = Term(new.heap, op, do.left, do.right, k)
  BY <1>2, <1>3, TransformAt
<1> HIDE DEF g
<1> QED
  BY <1>1, <1>3, <1>4 DEF At, k

(* What arithmetic gives: the broadcast of the elements.                         *)
Elementwise(h, r, op, a, b) ==
  LET shape == BroadcastShapes(a.shape, b.shape) IN
  /\ r.array.shape = shape
  /\ \A ix \in Indices(shape) : At(r.heap, r.array, ix) = Combine(op, Pulled(h, a, ix), Pulled(h, b, ix))

LEMMA FreshForAt ==
  ASSUME NEW h, Heap(h), NEW op \in AnyOp, NEW a, ViewIn(h, a), NEW b, ViewIn(h, b), NEW shape \in Seq(Nat),
         CanStretch(a, shape), CanStretch(b, shape)
  PROVE  LET r == FreshFor(h, op, a, b, shape) IN
           /\ ~r.ok => Unsized(a, b, shape) \/ Refused(shape)
           /\ r.ok => /\ ~Unsized(a, b, shape) /\ r.array.shape = shape /\ IsContiguous(r.array)
                      /\ \A ix \in Indices(shape) :
                            At(r.heap, r.array, ix) = Combine(op, Pulled(h, a, ix), Pulled(h, b, ix))
<1> DEFINE r == FreshFor(h, op, a, b, shape)
           n == Product(shape)
           zeros == [k \in 1 .. n |-> 0]
           new == Alloc(h, shape, zeros)
           do == LoopFor(h, a, b, shape)
<1>1. CASE Unsized(a, b, shape)
  BY <1>1 DEF FreshFor, Throw
<1>2. CASE ~Unsized(a, b, shape)
  <2>1. r = Computed(op, new, do, 1)
    BY <1>2 DEF FreshFor
  <2>2. n # TooLarge /\ n \in Nat
    BY <1>2, SizeNat DEF Unsized
  <2>3. Terms(h, do.left, n) /\ Terms(h, do.right, n)
    BY <1>2, LoopIs
  <2>4. zeros \in Seq(Elements) /\ Len(zeros) = n
    <3>1. 0 \in Elements
      BY NdarrayAssumption DEF Elements
    <3>2. zeros \in [1 .. n -> Elements]
      BY <3>1
    <3> HIDE DEF zeros, n
    <3> QED
      BY <2>2, <3>2
  <2> HIDE DEF zeros, do, r
  <2>5. /\ new.ok /\ Good(h, new, {}) /\ NewIn(h, new)
        /\ IsContiguous(new.array) /\ Size(new.array) = n /\ new.array.shape = shape
    BY <2>2, <2>4, AllocIs
  <2> HIDE DEF new, n
  <2>6. Heap(new.heap) /\ Changes(h, new.heap, {}) /\ ViewIn(new.heap, new.array) /\ new.array.buffer \notin DOMAIN h
    BY <2>5 DEF Good, NewIn
  <2>7. Terms(new.heap, do.left, n) /\ Terms(new.heap, do.right, n)
    BY <2>3, <2>6, TermsKept
  <2>8. Behind(new.array, do.left) /\ Behind(new.array, do.right)
    <3>1. Safe(new.array, do.left) /\ Safe(new.array, do.right)
      BY <2>3, <2>5, <2>6, SafeInNew
    <3>2. Size(new.array) # TooLarge
      BY <2>2, <2>5
    <3> QED
      BY <2>5, <2>6, <3>1, <3>2, SafeBehind
  <2>9. CASE ~r.ok
    <3>1. Refused(new.array.shape)
      BY <2>1, <2>9 DEF Computed, Got
    <3> QED
      BY <2>5, <2>9, <3>1 DEF r
  <2>10. CASE r.ok
    <3>1. r.array = new.array
      BY <2>1, <2>10 DEF Computed, Throw, Got
    <3>2. ASSUME NEW ix \in Indices(shape)
          PROVE  At(r.heap, r.array, ix) = Combine(op, Pulled(h, a, ix), Pulled(h, b, ix))
      <4> DEFINE k == Rank(shape, ix) + 1
      <4>1. k \in 1 .. n /\ Read(h, do.left[k]) = Pulled(h, a, ix) /\ Read(h, do.right[k]) = Pulled(h, b, ix)
        BY <1>2, LoopAt DEF do, n, ViewIn
      <4>2. At(r.heap, new.array, ix) = Term(new.heap, op, do.left, do.right, k)
        <5>1. 1 \in Nat \ {0} /\ ix \in Indices(new.array.shape)
          BY <2>5
        <5> QED
          BY <2>1, <2>2, <2>5, <2>6, <2>7, <2>8, <2>10, <5>1, ComputedAt
      <4> HIDE DEF k
      <4>3. Read(new.heap, do.left[k]) = Read(h, do.left[k]) /\ Read(new.heap, do.right[k]) = Read(h, do.right[k])
        BY <2>3, <2>6, <4>1, ReadKept DEF Terms
      <4> QED
        BY <3>1, <4>1, <4>2, <4>3 DEF Term
    <3> QED
      BY <1>2, <2>5, <2>10, <3>1, <3>2 DEF r
  <2> QED
    BY <2>9, <2>10
<1> QED
  BY <1>1, <1>2

(* When a result has a size.                                                     *)
Measured(a, b) == Broadcastable(a.shape, b.shape) /\ ~Unsized(a, b, BroadcastShapes(a.shape, b.shape))
LEMMA BinaryOpAt ==
  ASSUME NEW h, Heap(h), NEW op \in AnyOp, NEW a, ViewIn(h, a), NEW b, ViewIn(h, b)
  PROVE  LET r == BinaryOp(h, op, a, b) IN
           /\ ~r.ok => ~Measured(a, b) \/ Refused(BroadcastShapes(a.shape, b.shape))
           /\ r.ok => Measured(a, b) /\ Elementwise(h, r, op, a, b) /\ IsContiguous(r.array)
<1> DEFINE shape == BroadcastShapes(a.shape, b.shape)
           r == BinaryOp(h, op, a, b)
<1>1. CASE ~Broadcastable(a.shape, b.shape)
  BY <1>1 DEF BinaryOp, Throw, Measured
<1>2. CASE Broadcastable(a.shape, b.shape)
  <2>1. shape \in Seq(Nat) /\ CanStretch(a, shape) /\ CanStretch(b, shape)
    BY <1>2, OperandsStretch DEF ViewIn
  <2>2. r = FreshFor(h, op, a, b, shape)
    BY <1>2 DEF BinaryOp
  <2> HIDE DEF shape
  <2>3. /\ ~r.ok => Unsized(a, b, shape) \/ Refused(shape)
        /\ r.ok => /\ ~Unsized(a, b, shape) /\ r.array.shape = shape /\ IsContiguous(r.array)
                   /\ \A ix \in Indices(shape) :
                         At(r.heap, r.array, ix) = Combine(op, Pulled(h, a, ix), Pulled(h, b, ix))
    BY <2>1, <2>2, FreshForAt
  <2> HIDE DEF r
  <2> QED
    BY <1>2, <2>3 DEF Measured, Elementwise, shape, r
<1> QED
  BY <1>1, <1>2

(* Lists in step.                                                                *)
Clear(to, v) == CellsOf(to) \intersect CellsOf(v) = {} \/ InStep(to, v)

LEMMA FlatIsWalked ==
  ASSUME NEW v, Shaped(v), IsContiguous(v), Size(v) # TooLarge
  PROVE  Flat(v) = Walked(v)
<1> DEFINE n == Size(v)
           w == Walk(v.shape)
<1>1. v.shape \in Seq(Nat)
  BY DEF Shaped, Views
<1>2. n \in Nat /\ w \in Seq(Indices(v.shape)) /\ Len(w) = n /\ \A k \in 1 .. n : w[k] \in Indices(v.shape) /\ Rank(v.shape, w[k]) = k - 1
  BY <1>1, WalkIs DEF Size
<1> HIDE DEF n, w
<1>3. DOMAIN w = 1 .. n
  BY <1>2
<1>4. \A k \in 1 .. n : Cell(v, Position(v, w[k])) = Cell(v, v.offset + k - 1)
  <2>1. SUFFICES ASSUME NEW k \in 1 .. n PROVE Position(v, w[k]) = v.offset + k - 1
    OBVIOUS
  <2>2. Position(v, w[k]) = v.offset + Rank(v.shape, w[k])
    BY <1>2, ContiguousPosition
  <2>3. v.offset \in Nat
    BY DEF Shaped, Views
  <2> QED
    BY <1>2, <2>2, <2>3
<1>5. Walked(v) = [k \in 1 .. n |-> Cell(v, Position(v, w[k]))]
  BY <1>3 DEF Walked, w
<1>6. Flat(v) = [k \in 1 .. n |-> Cell(v, v.offset + k - 1)]
  BY DEF Flat, n
<1> QED
  BY <1>4, <1>5, <1>6

LEMMA SafeLists ==
  ASSUME NEW to
  PROVE  /\ Safe(to, Flat(to))
         /\ \A h, b, n : n = Size(to) => Safe(to, Repeated(h, b, n))
<1>1. Safe(to, Flat(to))
  BY DEF Safe, Flat
<1>2. ASSUME NEW h, NEW b, NEW n, n = Size(to) PROVE Safe(to, Repeated(h, b, n))
  <2>1. \A k \in 1 .. Size(to) : Repeated(h, b, n)[k] = <<"value", Read(h, Cell(b, b.offset))>>
    BY <1>2 DEF Repeated
  <2> QED
    BY <2>1 DEF Safe
<1> QED
  BY <1>1, <1>2

LEMMA SafeWalked ==
  ASSUME NEW h, NEW to, NEW v, ViewIn(h, v), Clear(to, v), Size(v) = Size(to), Size(v) # TooLarge
  PROVE  Safe(to, Walked(v))
<1>1. CASE InStep(to, v)
  BY <1>1, SafeLists DEF InStep
<1>2. CASE CellsOf(to) \intersect CellsOf(v) = {}
  <2>1. SUFFICES ASSUME NEW k \in 1 .. Size(to)
                 PROVE  \E c : \E q \in Nat : Walked(v)[k] = <<"cell", c, q>> /\ <<c, q - 1>> \notin CellsOf(to)
    BY DEF Safe
  <2>2. PICK ix \in Indices(v.shape) : Walked(v)[k] = <<"cell", v.buffer, Position(v, ix) + 1>>
    BY WalkedIs
  <2>3. Position(v, ix) \in Nat
    BY PositionNat DEF ViewIn
  <2>4. <<v.buffer, Position(v, ix)>> \in CellsOf(v)
    BY DEF CellsOf
  <2>5. PICK q \in Nat : q = Position(v, ix) + 1 /\ q - 1 = Position(v, ix)
    BY <2>3
  <2>6. <<v.buffer, q - 1>> \notin CellsOf(to)
    BY <1>2, <2>4, <2>5
  <2>7. Walked(v)[k] = <<"cell", v.buffer, q>>
    BY <2>2, <2>5
  <2> QED
    BY <2>6, <2>7
<1> QED
  BY <1>1, <1>2 DEF Clear

LEMMA SafeFlat ==
  ASSUME NEW h, NEW to, NEW v, ViewIn(h, v), Clear(to, v), Size(v) = Size(to), Size(v) # TooLarge, IsContiguous(v)
  PROVE  Safe(to, Flat(v))
BY SafeWalked, FlatIsWalked DEF ViewIn

(* A stretch that stretches nothing.                                             *)
LEMMA StretchSelf ==
  ASSUME NEW a, Shaped(a)
  PROVE  BroadcastTo(a, a.shape) = a
<1> DEFINE n == Len(a.shape)
           v == BroadcastTo(a, a.shape)
           st == [j \in DOMAIN a.shape |-> IF j > n - n /\ a.shape[j - (n - n)] = a.shape[j] THEN a.strides[j - (n - n)] ELSE 0]
<1>1. a \in Views /\ Len(a.strides) = n /\ a.shape \in Seq(Nat) /\ a.strides \in Seq(Nat)
  BY DEF Shaped, Views
<1>2. n \in Nat /\ DOMAIN a.shape = 1 .. n /\ n - n = 0 /\ a.strides = [j \in 1 .. n |-> a.strides[j]]
  BY <1>1
<1>3. v = Strided(a, a.shape, st)
  BY Zenon DEF BroadcastTo, Strided
<1>4. st = a.strides
  <2>1. \A j \in 1 .. n : j > 0 /\ j - 0 = j
    BY <1>2
  <2>2. \A j \in DOMAIN a.shape : (IF j > n - n /\ a.shape[j - (n - n)] = a.shape[j] THEN a.strides[j - (n - n)] ELSE 0) = a.strides[j]
    BY <1>2, <2>1
  <2>3. st = [j \in DOMAIN a.shape |-> a.strides[j]]
    BY <2>2
  <2> QED
    BY <1>2, <2>3
<1> HIDE DEF st
<1>5. Strided(a, a.shape, a.strides) = a
  BY <1>1 DEF Strided, Views
<1> QED
  BY <1>3, <1>4, <1>5

(* An array of one element has one index, and its dimensions are all 1.          *)
LEMMA SingleIndex ==
  ASSUME NEW shape \in Seq(Nat), Product(shape) = 1
  PROVE  /\ Origin(shape) \in Indices(shape) /\ \A ix \in Indices(shape) : ix = Origin(shape)
         /\ \A i \in 1 .. Len(shape) : shape[i] = 1
<1> DEFINE c == Contiguous(0, shape)
           o == Origin(shape)
           n == Len(shape)
<1>1. Product(shape) # TooLarge /\ Product(shape) > 0 /\ n \in Nat /\ DOMAIN shape = 1 .. n
  BY DEF TooLarge
<1>2. o \in Indices(shape)
  BY <1>1, OriginIs
<1>3. ASSUME NEW ix \in Indices(shape) PROVE ix = o
  <2>1. \A jx \in Indices(shape) : Rank(shape, jx) \in Nat /\ Rank(shape, jx) + 1 \in 1 .. 1
    BY <1>1, WalkAt
  <2>2. \A jx \in Indices(shape) : Rank(shape, jx) = 0
    BY <2>1
  <2>3. Position(c, ix) = Position(c, o)
    BY <1>2, <2>2 DEF Rank
  <2>4. Shaped(c) /\ IsContiguous(c) /\ c.shape = shape
    BY ContiguousIs
  <2> HIDE DEF c, o
  <2> QED
    BY <1>2, <2>3, <2>4, RankInjective
<1>4. ASSUME NEW i \in 1 .. n PROVE shape[i] = 1
  <2> DEFINE jx == [j \in 1 .. n |-> IF j = i THEN 1 ELSE 0]
  <2>1. o = [j \in 1 .. n |-> 0]
    BY <1>1 DEF Origin
  <2>2. \A j \in 1 .. n : o[j] < shape[j] /\ shape[j] \in Nat /\ o[j] = 0
    BY <1>2, <2>1, IndexSeq
  <2>3. ASSUME shape[i] # 1 PROVE FALSE
    <3>1. \A j \in 1 .. n : jx[j] < shape[j]
      BY <2>2, <2>3
    <3>2. jx \in Indices(shape)
      <4>1. jx \in [1 .. n -> Nat]
        OBVIOUS
      <4> HIDE DEF jx
      <4> QED
        BY <3>1, <4>1, IndicesAre
    <3>3. jx[i] = 1 /\ o[i] = 0
      BY <2>2
    <3> HIDE DEF jx, o
    <3> QED
      BY <1>3, <3>2, <3>3
  <2> QED
    BY <2>3
<1> QED
  BY <1>2, <1>3, <1>4

-----------------------------------------------------------------------------
(* A shape with 1s before it holds as many elements.                             *)
LEMMA PaddedIs ==
  ASSUME NEW s \in Seq(Nat), NEW n \in Nat, Len(s) <= n
  PROVE  LET p == Padded(s, n) pad == n - Len(s) IN
           /\ p \in Seq(Nat) /\ Len(p) = n /\ pad \in Nat
           /\ \A i \in 1 .. n : p[i] = IF i <= pad THEN 1 ELSE s[i - pad]
<1> DEFINE p == Padded(s, n)
           pad == n - Len(s)
<1>1. pad \in Nat /\ Len(s) \in Nat /\ n = pad + Len(s) /\ \A i \in 1 .. Len(s) : s[i] \in Nat
  OBVIOUS
<1>2. p = [i \in 1 .. n |-> IF i <= pad THEN 1 ELSE s[i - pad]]
  BY DEF Padded
<1> HIDE DEF p, pad
<1>3. ASSUME NEW i \in 1 .. n PROVE p[i] \in Nat
  <2>1. CASE i <= pad
    BY <1>2, <2>1
  <2>2. CASE ~(i <= pad)
    <3>1. i - pad \in 1 .. Len(s)
      BY <1>1, <2>2
    <3> QED
      BY <1>1, <1>2, <2>2, <3>1
  <2> QED
    BY <2>1, <2>2
<1>4. p \in [1 .. n -> Nat]
  BY <1>2, <1>3
<1>5. p \in Seq(Nat) /\ Len(p) = n
  BY <1>4
<1> QED
  BY <1>1, <1>2, <1>5 DEF p, pad

LEMMA PaddedProduct ==
  ASSUME NEW s \in Seq(Nat), NEW n \in Nat, Len(s) <= n
  PROVE  Product(Padded(s, n)) = Product(s)
<1> DEFINE p == Padded(s, n)
           pad == n - Len(s)
           t == Products(s)
           u == Products(p)
           T == {k \in 0 .. n : u[k] = IF k <= pad THEN 1 ELSE t[k - pad]}
<1>1. p \in Seq(Nat) /\ Len(p) = n /\ pad \in Nat /\ \A i \in 1 .. n : p[i] = IF i <= pad THEN 1 ELSE s[i - pad]
  BY PaddedIs
<1>2. Len(s) \in Nat /\ n = pad + Len(s)
  OBVIOUS
<1>3. t[0] = 1 /\ \A k \in 1 .. Len(s) : t[k] = Times(t[k - 1], s[k])
  BY ProductsAre
<1>4. u[0] = 1 /\ \A k \in 1 .. n : u[k] = Times(u[k - 1], p[k])
  <2> HIDE DEF p
  <2> QED
    BY <1>1, ProductsAre
<1>5. Times(1, 1) = 1
  <2>1. SizeMax \div 1 = SizeMax /\ ~(1 > SizeMax) /\ 1 # TooLarge /\ 1 * 1 = 1
    BY NdarrayAssumption DEF TooLarge
  <2> QED
    BY <2>1 DEF Times
<1> HIDE DEF p, pad, t, u
<1>6. ASSUME NEW k \in 1 .. n, k - 1 \in T PROVE k \in T
  <2>1. k \in 0 .. n /\ u[k] = Times(u[k - 1], p[k])
    BY <1>2, <1>4
  <2>2. CASE k <= pad
    <3>1. u[k - 1] = 1 /\ p[k] = 1
      BY <1>1, <1>2, <1>6, <2>2
    <3> QED
      BY <1>5, <2>1, <2>2, <3>1
  <2>3. CASE ~(k <= pad)
    <3>1. PICK i \in 1 .. Len(s) : i = k - pad /\ i - 1 = k - 1 - pad
      <4>1. k - pad \in 1 .. Len(s)
        BY <1>1, <1>2, <2>3
      <4> QED
        BY <1>1, <1>2, <4>1
    <3>2. p[k] = s[i]
      BY <1>1, <2>3, <3>1
    <3>3. u[k - 1] = t[i - 1]
      <4>1. CASE k - 1 <= pad
        <5>1. i - 1 = 0 /\ u[k - 1] = 1
          BY <1>1, <1>6, <2>3, <3>1, <4>1
        <5> QED
          BY <1>3, <5>1
      <4>2. CASE ~(k - 1 <= pad)
        BY <1>6, <3>1, <4>2
      <4> QED
        BY <4>1, <4>2
    <3>4. u[k] = t[i]
      BY <1>3, <2>1, <3>2, <3>3
    <3> QED
      BY <2>1, <2>3, <3>1, <3>4
  <2> QED
    BY <2>2, <2>3
<1>7. n \in T
  <2>1. 0 \in T /\ n \in 0 .. n
    BY <1>1, <1>4
  <2> HIDE DEF T
  <2> QED
    BY <1>6, <2>1, Counting
<1>8. u[n] = t[Len(s)]
  <2>1. CASE n <= pad
    <3>1. Len(s) = 0 /\ u[n] = 1
      BY <1>2, <1>7, <2>1, <1>1
    <3> QED
      BY <1>3, <3>1
  <2>2. CASE ~(n <= pad)
    <3>1. n - pad = Len(s)
      BY <1>1, <1>2
    <3> QED
      BY <1>7, <2>2, <3>1
  <2> QED
    BY <2>1, <2>2
<1> QED
  BY <1>1, <1>8 DEF Product, p, t, u

LEMMA PaddedSelf ==
  ASSUME NEW s \in Seq(Nat)
  PROVE  Padded(s, Len(s)) = s
<1> DEFINE n == Len(s)
<1>1. n \in Nat /\ n - n = 0 /\ s = [i \in 1 .. n |-> s[i]]
  OBVIOUS
<1>2. Padded(s, n) = [i \in 1 .. n |-> IF i <= n - n THEN 1 ELSE s[i - (n - n)]]
  BY DEF Padded
<1>3. \A i \in 1 .. n : (IF i <= n - n THEN 1 ELSE s[i - (n - n)]) = s[i]
  <2>1. \A i \in 1 .. n : ~(i <= 0) /\ i - 0 = i
    BY <1>1
  <2> QED
    BY <1>1, <2>1
<1> QED
  BY <1>1, <1>2, <1>3

(* The common shape with a single element is the other shape.                    *)
LEMMA SingleShape ==
  ASSUME NEW s \in Seq(Nat), NEW t \in Seq(Nat), Product(t) = 1
  PROVE  /\ Broadcastable(s, t) /\ Product(BroadcastShapes(s, t)) = Product(s)
         /\ Len(t) <= Len(s) => BroadcastShapes(s, t) = s
<1> DEFINE n == Longest(s, t)
<1>1. n \in Nat /\ Len(s) <= n /\ Len(t) <= n /\ Len(s) \in Nat /\ Len(t) \in Nat /\ (Len(t) <= Len(s) => n = Len(s))
  BY DEF Longest
<1> HIDE DEF n
<1>2. \A i \in 1 .. n : Padded(t, n)[i] = 1
  <2>1. SUFFICES ASSUME NEW i \in 1 .. n PROVE Padded(t, n)[i] = 1
    OBVIOUS
  <2>2. Padded(t, n)[i] = IF i <= n - Len(t) THEN 1 ELSE t[i - (n - Len(t))]
    BY <1>1, PaddedIs
  <2>3. CASE ~(i <= n - Len(t))
    <3>1. i - (n - Len(t)) \in 1 .. Len(t)
      BY <1>1, <2>3
    <3> QED
      BY <2>2, <2>3, <3>1, SingleIndex
  <2> QED
    BY <2>2, <2>3
<1>3. Broadcastable(s, t)
  BY <1>2 DEF Broadcastable, n
<1>4. Padded(s, n) \in Seq(Nat) /\ Len(Padded(s, n)) = n
  BY <1>1, PaddedIs
<1>5. BroadcastShapes(s, t) = Padded(s, n)
  <2>1. BroadcastShapes(s, t) = [i \in 1 .. n |-> Padded(s, n)[i]]
    BY <1>2 DEF BroadcastShapes, n
  <2> QED
    BY <1>4, <2>1
<1>6. ASSUME Len(t) <= Len(s) PROVE Padded(s, n) = s
  BY <1>1, <1>6, PaddedSelf
<1> QED
  BY <1>1, <1>3, <1>5, <1>6, PaddedProduct

LEMMA SameShape ==
  ASSUME NEW s \in Seq(Nat)
  PROVE  Broadcastable(s, s) /\ BroadcastShapes(s, s) = s
<1>1. Longest(s, s) = Len(s) /\ Padded(s, Len(s)) = s /\ s = [i \in 1 .. Len(s) |-> s[i]]
  BY PaddedSelf DEF Longest
<1>2. Broadcastable(s, s)
  BY <1>1 DEF Broadcastable
<1>3. BroadcastShapes(s, s) = [i \in 1 .. Len(s) |-> s[i]]
  BY <1>1 DEF BroadcastShapes
<1> QED
  BY <1>1, <1>2, <1>3

LEMMA CellsStretched ==
  ASSUME NEW a, Shaped(a), NEW target \in Seq(Nat), CanStretch(a, target)
  PROVE  CellsOf(BroadcastTo(a, target)) \subseteq CellsOf(a)
<1> DEFINE v == BroadcastTo(a, target)
<1>1. /\ v.buffer = a.buffer /\ v.shape = target
      /\ \A ix \in Indices(target) : Pull(ix, a.shape) \in Indices(a.shape) /\ Position(v, ix) = Position(a, Pull(ix, a.shape))
  BY StretchedIs
<1> HIDE DEF v
<1> QED
  BY <1>1 DEF CellsOf, v

(* The lists of a loop are safe when both operands are, or are read once.        *)
Once(to, a, b) == Size(a) = 1 /\ IsContiguous(b) /\ b.shape = to.shape
LEMMA LoopSafe ==
  ASSUME NEW h, Heap(h), NEW a, ViewIn(h, a), NEW b, ViewIn(h, b), NEW out, ViewIn(h, out), IsContiguous(out),
         CanStretch(a, out.shape), CanStretch(b, out.shape), ~Unsized(a, b, out.shape),
         Clear(out, a) \/ Once(out, a, b),
         Clear(out, b) \/ Once(out, b, a)
  PROVE  LET do == LoopFor(h, a, b, out.shape) IN Behind(out, do.left) /\ Behind(out, do.right)
<1> DEFINE shape == out.shape
           av == BroadcastTo(a, shape)
           bv == BroadcastTo(b, shape)
           n == Size(out)
           do == LoopFor(h, a, b, shape)
<1>0. Shaped(a) /\ Shaped(b) /\ Shaped(out) /\ shape \in Seq(Nat)
  BY DEF ViewIn, Shaped, Views
<1>1. ViewIn(h, av) /\ ViewIn(h, bv) /\ av.shape = shape /\ bv.shape = shape
  BY <1>0, StretchIs DEF Inside
<1>2. n \in Nat /\ n # TooLarge /\ Size(av) = n /\ Size(bv) = n
  BY <1>0, <1>1, SizeNat DEF Size, Unsized
<1>3. do = LoopOver(h, a, b, av, bv, shape)
  BY DEF LoopFor
<1>4. ASSUME NEW c, ViewIn(h, c), CanStretch(c, shape), Clear(out, c) PROVE Clear(out, BroadcastTo(c, shape))
  <2>1. CASE CellsOf(out) \intersect CellsOf(c) = {}
    <3>1. CellsOf(BroadcastTo(c, shape)) \subseteq CellsOf(c)
      BY <1>0, <1>4, CellsStretched DEF ViewIn
    <3> QED
      BY <2>1, <3>1 DEF Clear
  <2>2. CASE InStep(out, c)
    <3>1. BroadcastTo(c, shape) = c
      BY <1>4, <2>2, StretchSelf DEF InStep, ViewIn
    <3> QED
      BY <1>4, <3>1
  <2> QED
    BY <1>4, <2>1, <2>2 DEF Clear
<1>5. (Clear(out, a) => Clear(out, av)) /\ (Clear(out, b) => Clear(out, bv))
  BY <1>4
<1> HIDE DEF av, bv, do, n
<1>6. ASSUME NEW v, ViewIn(h, v), v.shape = shape, Clear(out, v)
      PROVE  Behind(out, Walked(v)) /\ (IsContiguous(v) => Behind(out, Flat(v)))
  <2>1. Size(v) = n
    BY <1>6 DEF Size, n
  <2>2. Safe(out, Walked(v)) /\ (IsContiguous(v) => Safe(out, Flat(v)))
    BY <1>2, <1>6, <2>1, SafeWalked, SafeFlat DEF n
  <2> QED
    BY <1>2, <2>2, SafeBehind DEF n
<1>7. ASSUME NEW v, NEW m, m = n PROVE Behind(out, Repeated(h, v, m))
  BY <1>2, <1>7, SafeLists, SafeBehind DEF n
<1>8. ASSUME NEW list, n = 1 PROVE Behind(out, list)
  <2>1. \A i, k \in 1 .. n : ~(i < k)
    BY <1>8
  <2> QED
    BY <2>1 DEF Behind, n
<1>9. CASE Size(b) = 1 /\ a.shape = shape /\ IsContiguous(a)
  <2>1. do.left = Flat(a) /\ do.right = Repeated(h, b, Size(a)) /\ Size(a) = n
    BY <1>3, <1>9 DEF LoopOver, Size, n
  <2>2. Behind(out, do.right)
    BY <1>7, <2>1
  <2>3. Behind(out, do.left)
    <3>1. CASE Clear(out, a)
      BY <1>6, <1>9, <2>1, <3>1
    <3>2. CASE Once(out, a, b)
      BY <1>8, <2>1, <3>2 DEF Once
    <3> QED
      BY <3>1, <3>2
  <2> QED
    BY <2>2, <2>3 DEF do
<1>10. CASE ~(Size(b) = 1 /\ a.shape = shape /\ IsContiguous(a)) /\ Size(a) = 1 /\ b.shape = shape /\ IsContiguous(b)
  <2>1. do.left = Repeated(h, a, Size(b)) /\ do.right = Flat(b) /\ Size(b) = n
    BY <1>3, <1>10 DEF LoopOver, Size, n
  <2>2. Behind(out, do.left)
    BY <1>7, <2>1
  <2>3. Behind(out, do.right)
    <3>1. CASE Clear(out, b)
      BY <1>6, <1>10, <2>1, <3>1
    <3>2. CASE Once(out, b, a)
      BY <1>8, <2>1, <3>2 DEF Once
    <3> QED
      BY <3>1, <3>2
  <2> QED
    BY <2>2, <2>3 DEF do
<1>11. CASE /\ ~(Size(b) = 1 /\ a.shape = shape /\ IsContiguous(a))
            /\ ~(Size(a) = 1 /\ b.shape = shape /\ IsContiguous(b))
  <2>1. \/ IsContiguous(av) /\ IsContiguous(bv) /\ do.left = Flat(av) /\ do.right = Flat(bv)
        \/ do.left = Walked(av) /\ do.right = Walked(bv)
    BY <1>3, <1>11 DEF LoopOver
  <2>2. Clear(out, av) /\ Clear(out, bv)
    BY <1>5, <1>11 DEF Once
  <2>3. /\ Behind(out, Walked(av)) /\ (IsContiguous(av) => Behind(out, Flat(av)))
        /\ Behind(out, Walked(bv)) /\ (IsContiguous(bv) => Behind(out, Flat(bv)))
    BY <1>1, <1>6, <2>2
  <2> QED
    BY <2>1, <2>3 DEF do
<1> QED
  BY <1>9, <1>10, <1>11

-----------------------------------------------------------------------------
(* In-place arithmetic.                                                          *)
LEMMA InPlaceAt ==
  ASSUME NEW h, Heap(h), NEW op \in AnyOp, NEW a, ViewIn(h, a), IsContiguous(a), Size(a) # TooLarge,
         NEW right, Terms(h, right, Size(a)), Safe(a, right), NEW block \in Nat \ {0}, NEW ix \in Indices(a.shape)
  PROVE  At(Transform(h, op, a, Flat(a), right, block), a, ix) =
           Combine(op, Pulled(h, a, ix), Read(h, right[Rank(a.shape, ix) + 1]))
<1> DEFINE g == Transform(h, op, a, Flat(a), right, block)
           k == Rank(a.shape, ix) + 1
<1>1. Shaped(a) /\ a.shape \in Seq(Nat)
  BY DEF ViewIn, Shaped, Views
<1>2. k \in 1 .. Size(a) /\ a.offset + k = Position(a, ix) + 1 /\ Read(h, Flat(a)[k]) = At(h, a, ix)
  BY <1>1, FlatAt, ListRead
<1> HIDE DEF k
<1>3. Terms(h, Flat(a), Size(a)) /\ Behind(a, Flat(a)) /\ Behind(a, right)
  BY FlatIs, SafeLists, SafeBehind DEF Terms
<1>4. g[a.buffer][a.offset + k] = Term(h, op, Flat(a), right, k)
  BY <1>2, <1>3, TransformAt
<1>5. Pulled(h, a, ix) = At(h, a, ix)
  BY <1>1, PullSame DEF Pulled
<1> HIDE DEF g
<1>6. At(g, a, ix) = Term(h, op, Flat(a), right, k)
  BY <1>2, <1>4 DEF At
<1> QED
  BY <1>2, <1>5, <1>6 DEF Term, g, k

LEMMA MeasuredSingle ==
  ASSUME NEW a, Shaped(a), NEW b, Shaped(b), ~Unsized(a, b, a.shape), Size(b) = 1
  PROVE  Measured(a, b) /\ (Len(b.shape) <= Len(a.shape) => BroadcastShapes(a.shape, b.shape) = a.shape)
<1>1. a.shape \in Seq(Nat) /\ b.shape \in Seq(Nat) /\ Product(b.shape) = 1
  BY DEF Shaped, Views, Size
<1>2. /\ Broadcastable(a.shape, b.shape) /\ Product(BroadcastShapes(a.shape, b.shape)) = Product(a.shape)
      /\ Len(b.shape) <= Len(a.shape) => BroadcastShapes(a.shape, b.shape) = a.shape
  BY <1>1, SingleShape
<1> QED
  BY <1>2 DEF Measured, Unsized

LEMMA MeasuredSame ==
  ASSUME NEW a, Shaped(a), NEW b, Shaped(b), ~Unsized(a, b, a.shape), a.shape = b.shape
  PROVE  Measured(a, b) /\ BroadcastShapes(a.shape, b.shape) = a.shape
BY SameShape DEF Measured, Unsized, Shaped, Views

(* a op= b, whichever way it is computed.                                        *)
LEMMA CompoundAt ==
  ASSUME NEW h, Heap(h), NEW op \in AnyOp, NEW a, ViewIn(h, a), NEW b, ViewIn(h, b), NEW block \in Nat \ {0}
  PROVE  LET r == CompoundApply(h, op, a, b, block) IN
           /\ ~r.ok => ~Measured(a, b) \/ Refused(BroadcastShapes(a.shape, b.shape))
           /\ r.ok => Measured(a, b) /\ (r.array = a \/ IsContiguous(r.array))
           /\ r.ok /\ (Size(b) = 1 => Len(b.shape) <= Len(a.shape)) /\ (IsContiguous(a) /\ Size(b) # 1 => Clear(a, b))
                => Elementwise(h, r, op, a, b)
<1> DEFINE r == CompoundApply(h, op, a, b, block)
           u == BroadcastShapes(a.shape, b.shape)
<1>0. Shaped(a) /\ Shaped(b) /\ a.shape \in Seq(Nat) /\ b.shape \in Seq(Nat)
  BY DEF ViewIn, Shaped, Views
<1>1. CASE Unsized(a, b, a.shape)
  <2>1. r = Throw /\ ~Measured(a, b)
    BY <1>1 DEF CompoundApply, Measured, Unsized, Size
  <2> QED
    BY <2>1 DEF Throw
<1>2. CASE ~Unsized(a, b, a.shape) /\ IsContiguous(a) /\ Size(b) = 1
  <2> DEFINE right == Repeated(h, b, Size(a))
             g == Transform(h, op, a, Flat(a), right, block)
  <2>1. r = Got(g, a)
    BY <1>2 DEF CompoundApply
  <2>2. r.ok /\ r.heap = g /\ r.array = a
    BY <2>1 DEF Got
  <2>3. Measured(a, b) /\ (Len(b.shape) <= Len(a.shape) => u = a.shape)
    BY <1>0, <1>2, MeasuredSingle
  <2>4. Size(a) \in Nat /\ Size(a) # TooLarge
    BY <1>0, <1>2, SizeNat DEF Unsized, Size
  <2>5. Terms(h, right, Size(a)) /\ Safe(a, right)
    BY <1>2, <2>4, RepeatedIs, SafeLists
  <2>6. ASSUME Len(b.shape) <= Len(a.shape), NEW ix \in Indices(u)
        PROVE  At(g, a, ix) = Combine(op, Pulled(h, a, ix), Pulled(h, b, ix))
    <3> DEFINE k == Rank(a.shape, ix) + 1
    <3>1. ix \in Indices(a.shape) /\ k \in 1 .. Size(a)
      BY <1>0, <2>3, <2>4, <2>6, WalkAt DEF Size
    <3>2. CanStretch(b, a.shape)
      BY <1>0, <2>3, <2>6, OperandsStretch DEF Measured
    <3>3. Pull(ix, b.shape) \in Indices(b.shape)
      BY <1>0, <3>1, <3>2, StretchedAt
    <3> HIDE DEF right, k
    <3>4. At(g, a, ix) = Combine(op, Pulled(h, a, ix), Read(h, right[k]))
      BY <1>2, <2>4, <2>5, <3>1, InPlaceAt DEF k
    <3>5. Read(h, right[k]) = Pulled(h, b, ix)
      BY <1>0, <1>2, <3>1, <3>3, RepeatedRead DEF Pulled, right
    <3> QED
      BY <3>4, <3>5
  <2> HIDE DEF r, u, g
  <2>7. Len(b.shape) <= Len(a.shape) => Elementwise(h, r, op, a, b)
    BY <2>2, <2>3, <2>6 DEF Elementwise, u
  <2> QED
    BY <1>2, <2>2, <2>3, <2>7 DEF r
<1>3. CASE ~Unsized(a, b, a.shape) /\ IsContiguous(a) /\ Size(b) # 1 /\ b.shape = a.shape /\ IsContiguous(b)
  <2> DEFINE right == Flat(b)
             g == Transform(h, op, a, Flat(a), right, block)
  <2>1. r = Got(g, a)
    BY <1>3 DEF CompoundApply
  <2>2. r.ok /\ r.heap = g /\ r.array = a
    BY <2>1 DEF Got
  <2>3. Measured(a, b) /\ u = a.shape
    BY <1>0, <1>3, MeasuredSame
  <2>4. Size(a) \in Nat /\ Size(a) # TooLarge /\ Size(b) = Size(a)
    BY <1>0, <1>3, SizeNat DEF Unsized, Size
  <2>5. Terms(h, right, Size(a))
    BY <1>3, <2>4, FlatIs DEF Terms
  <2>6. ASSUME Clear(a, b), NEW ix \in Indices(u)
        PROVE  At(g, a, ix) = Combine(op, Pulled(h, a, ix), Pulled(h, b, ix))
    <3> DEFINE k == Rank(a.shape, ix) + 1
    <3>1. ix \in Indices(a.shape) /\ ix \in Indices(b.shape)
      BY <1>3, <2>3
    <3>2. Safe(a, right)
      BY <1>3, <2>4, <2>6, SafeFlat
    <3>3. Read(h, right[Rank(b.shape, ix) + 1]) = At(h, b, ix)
      BY <1>0, <1>3, <2>4, <3>1, ListRead
    <3>4. Pulled(h, b, ix) = At(h, b, ix)
      BY <1>0, <3>1, PullSame DEF Pulled
    <3> HIDE DEF right, k
    <3>5. At(g, a, ix) = Combine(op, Pulled(h, a, ix), Read(h, right[k]))
      BY <1>3, <2>4, <2>5, <3>1, <3>2, InPlaceAt DEF k
    <3> QED
      BY <1>3, <3>3, <3>4, <3>5 DEF k
  <2> HIDE DEF r, u, g
  <2>7. Clear(a, b) => Elementwise(h, r, op, a, b)
    BY <2>2, <2>3, <2>6 DEF Elementwise, u
  <2> QED
    BY <1>3, <2>2, <2>3, <2>7 DEF r
<1>4. CASE /\ ~Unsized(a, b, a.shape) /\ ~(IsContiguous(a) /\ Size(b) = 1)
           /\ ~(IsContiguous(a) /\ Size(b) # 1 /\ b.shape = a.shape /\ IsContiguous(b))
  <2>1. r = BinaryOp(h, op, a, b)
    BY <1>4 DEF CompoundApply
  <2> HIDE DEF r
  <2> QED
    BY <2>1, BinaryOpAt DEF r
<1> QED
  BY <1>1, <1>2, <1>3, <1>4

(* add(out, a, b), whichever loop it takes.                                      *)
LEMMA IntoAt ==
  ASSUME NEW h, Heap(h), NEW op \in AnyOp, NEW out, ViewIn(h, out), NEW a, ViewIn(h, a), NEW b, ViewIn(h, b),
         NEW block \in Nat \ {0}
  PROVE  LET r == BinaryOpInto(h, op, out, a, b, block)
             legal == Measured(a, b) /\ out.shape = BroadcastShapes(a.shape, b.shape) /\ IsContiguous(out)
         IN  /\ ~r.ok => ~legal \/ Refused(out.shape)
             /\ r.ok => legal /\ r.array = out
             /\ r.ok /\ (Clear(out, a) \/ Once(out, a, b)) /\ (Clear(out, b) \/ Once(out, b, a))
                  => Elementwise(h, r, op, a, b)
<1> DEFINE r == BinaryOpInto(h, op, out, a, b, block)
           new == Got(h, out)
           do == LoopFor(h, a, b, out.shape)
           legal == Measured(a, b) /\ out.shape = BroadcastShapes(a.shape, b.shape) /\ IsContiguous(out)
<1>0. Shaped(a) /\ Shaped(b) /\ a.shape \in Seq(Nat) /\ b.shape \in Seq(Nat)
  BY DEF ViewIn, Shaped, Views
<1>1. CASE ~legal
  BY <1>1 DEF BinaryOpInto, Measured, Throw
<1>2. CASE legal
  <2>1. r = Computed(op, new, do, block) /\ ~Unsized(a, b, out.shape)
    BY <1>2 DEF BinaryOpInto, Measured
  <2>2. out.shape \in Seq(Nat) /\ CanStretch(a, out.shape) /\ CanStretch(b, out.shape)
    BY <1>0, <1>2, OperandsStretch DEF Measured
  <2>3. Size(out) # TooLarge /\ Size(a) # TooLarge /\ Size(b) # TooLarge
    BY <2>1 DEF Unsized, Size
  <2>4. Terms(h, do.left, Size(out)) /\ Terms(h, do.right, Size(out))
    BY <2>1, <2>2, LoopIs DEF Size
  <2>5. new.heap = h /\ new.array = out
    BY DEF Got
  <2>6. (Clear(out, a) \/ Once(out, a, b)) /\ (Clear(out, b) \/ Once(out, b, a)) => Behind(out, do.left) /\ Behind(out, do.right)
    BY <1>2, <2>1, <2>2, <2>3, LoopSafe
  <2> HIDE DEF r, new, do
  <2>7. CASE ~r.ok
    <3>1. Refused(out.shape)
      BY <2>1, <2>5, <2>7 DEF Computed, Got
    <3> QED
      BY <2>7, <3>1 DEF r
  <2>8. CASE r.ok
    <3>1. r.array = out
      BY <2>1, <2>5, <2>8 DEF Computed, Throw, Got
    <3>2. ASSUME Behind(out, do.left), Behind(out, do.right), NEW ix \in Indices(out.shape)
          PROVE  At(r.heap, out, ix) = Combine(op, Pulled(h, a, ix), Pulled(h, b, ix))
      <4>1. Read(h, do.left[Rank(out.shape, ix) + 1]) = Pulled(h, a, ix) /\ Read(h, do.right[Rank(out.shape, ix) + 1]) = Pulled(h, b, ix)
        BY <1>0, <2>1, <2>2, <3>2, LoopAt DEF do
      <4>2. At(r.heap, out, ix) = Term(h, op, do.left, do.right, Rank(out.shape, ix) + 1)
        BY <1>2, <2>1, <2>3, <2>4, <2>5, <2>8, <3>2, ComputedAt
      <4> QED
        BY <4>1, <4>2 DEF Term
    <3>3. Behind(out, do.left) /\ Behind(out, do.right) => Elementwise(h, r, op, a, b)
      BY <1>2, <3>1, <3>2 DEF Elementwise
    <3> QED
      BY <1>2, <2>6, <2>8, <3>1, <3>3 DEF r
  <2> QED
    BY <2>7, <2>8
<1> QED
  BY <1>1, <1>2

-----------------------------------------------------------------------------
(* What an operand gives.                                                        *)
Gives(h, a, f) == a.shape = f.shape /\ \A ix \in Indices(a.shape) : At(h, a, ix) = f.at[ix]
LEMMA ValueGives == ASSUME NEW h, NEW a PROVE Gives(h, a, Value(h, a))
BY DEF Gives, Value, At

LEMMA AtKept ==
  ASSUME NEW h, NEW g, NEW a, ViewIn(h, a), Changes(h, g, {}), NEW ix \in Indices(a.shape)
  PROVE  At(g, a, ix) = At(h, a, ix)
<1>1. a.buffer \in DOMAIN h /\ Position(a, ix) + 1 \in 1 .. Len(h[a.buffer])
  BY DEF ViewIn
<1> QED
  BY <1>1 DEF Changes, At

LEMMA ValueKept ==
  ASSUME NEW h, NEW g, NEW a, ViewIn(h, a), Changes(h, g, {})
  PROVE  Value(g, a) = Value(h, a)
<1>1. \A ix \in Indices(a.shape) : g[a.buffer][Position(a, ix) + 1] = h[a.buffer][Position(a, ix) + 1]
  BY AtKept DEF At
<1> QED
  BY <1>1 DEF Value

LEMMA GivesKept ==
  ASSUME NEW h, NEW g, NEW a, ViewIn(h, a), Changes(h, g, {}), NEW f, Gives(h, a, f)
  PROVE  Gives(g, a, f)
BY AtKept DEF Gives

LEMMA SliceAt ==
  ASSUME NEW h, NEW a, ViewIn(h, a), NEW lo \in Int, NEW hi \in Int
  PROVE  LET r == Slice(h, a, lo, hi) IN
           /\ r.ok <=> a.shape # <<>>
           /\ r.ok => r.heap = h /\ r.array.strides = a.strides /\ Gives(h, r.array, SliceMeans(Value(h, a), lo, hi))
<1> DEFINE r == Slice(h, a, lo, hi)
           f == Value(h, a)
           n == a.shape[1]
           rows == Rows(n, lo, hi)
           first == CHOOSE i \in rows : \A j \in rows : i <= j
           shape == Resized(a.shape, Cardinality(rows))
           m == SliceMeans(f, lo, hi)
<1>0. Shaped(a)
  BY DEF ViewIn
<1>1. r.ok <=> a.shape # <<>>
  BY DEF Slice, Throw, Got
<1>2. CASE r.ok
  <2>1. a.shape # <<>> /\ r.heap = h
    BY <1>0, <1>2, SliceRows
  <2>2. PICK from, count \in Nat : /\ count = 0 \/ from + count <= a.shape[1]
                                   /\ r.array = Sliced(a, from, count)
                                   /\ Rows(a.shape[1], lo, hi) = from .. from + count - 1
    BY <1>0, <1>2, SliceRows
  <2>3. Shifts(a, r.array, from, count)
    <3>1. Shifts(a, Sliced(a, from, count), from, count)
      BY <1>0, <2>1, <2>2, SlicedIs
    <3> QED
      BY <2>2, <3>1
  <2>4. Cardinality(rows) = count
    <3>1. from \in Int /\ from + count - 1 \in Int
      OBVIOUS
    <3>2. Cardinality(from .. from + count - 1) = IF from > from + count - 1 THEN 0 ELSE (from + count - 1) - from + 1
      BY <3>1, FS_Interval
    <3> QED
      BY <2>2, <3>2
  <2>5. f.shape = a.shape /\ f.at = [ix \in Indices(a.shape) |-> h[a.buffer][Position(a, ix) + 1]]
    BY DEF Value
  <2>6. m.shape = shape /\ m.at = [ix \in Indices(shape) |-> f.at[Shifted(ix, first)]]
    BY <2>5 DEF SliceMeans, Resized, Shifted
  <2>7. r.array.shape = shape /\ r.array.strides = a.strides /\ r.array.buffer = a.buffer
    BY <2>3, <2>4 DEF Shifts
  <2>8. ASSUME NEW ix \in Indices(shape) PROVE At(h, r.array, ix) = m.at[ix]
    <3>1. ix[1] < count /\ Shifted(ix, from) \in Indices(a.shape) /\ Position(r.array, ix) = Position(a, Shifted(ix, from))
      BY <2>3, <2>7 DEF Shifts
    <3>2. count > 0
      <4>1. Len(a.shape) \in Nat /\ Len(a.shape) > 0 /\ a.shape \in Seq(Nat)
        BY <1>0, <2>1 DEF Shaped, Views
      <4>2. r.array.shape \in Seq(Nat) /\ Len(r.array.shape) = Len(a.shape)
        BY <2>3, <4>1 DEF Shifts, Shaped, Views, Resized
      <4>3. ix[1] \in Nat
        BY <2>7, <4>1, <4>2, IndexSeq
      <4> QED
        BY <3>1, <4>3
    <3>3. from \in rows /\ \A j \in rows : from <= j
      BY <2>2, <3>2
    <3>4. \A i \in rows : i \in Int
      BY <2>2
    <3>5. first = from
      <4> HIDE DEF rows
      <4>1. first \in rows /\ \A j \in rows : first <= j
        BY <3>3
      <4>2. first <= from /\ from <= first /\ first \in Int /\ from \in Int
        BY <3>3, <3>4, <4>1
      <4> HIDE DEF first
      <4> QED
        BY <4>2
    <3> HIDE DEF first, m, f, shape, rows, n, r
    <3>6. m.at[ix] = f.at[Shifted(ix, from)]
      BY <2>6, <3>5
    <3>7. f.at[Shifted(ix, from)] = h[a.buffer][Position(a, Shifted(ix, from)) + 1]
      BY <2>5, <3>1
    <3> QED
      BY <2>7, <3>1, <3>6, <3>7 DEF At
  <2> HIDE DEF r, m, shape
  <2>9. Gives(h, r.array, m)
    BY <2>6, <2>7, <2>8 DEF Gives
  <2> QED
    BY <1>1, <2>1, <2>7, <2>9 DEF r, m
<1> QED
  BY <1>1, <1>2

LEMMA FitsIs ==
  ASSUME NEW a, Shaped(a), NEW target \in Seq(Nat)
  PROVE  Fits(a.shape, target) <=> CanStretch(a, target)
<1> DEFINE s == a.shape
           n == Len(target)
<1>1. s \in Seq(Nat) /\ DOMAIN s = 1 .. Len(s) /\ Len(s) \in Nat /\ n \in Nat
  BY DEF Shaped, Views
<1>2. ASSUME Fits(s, target) PROVE CanStretch(a, target)
  BY <1>1, <1>2, BroadcastIs DEF Fits, CanStretch
<1>3. ASSUME CanStretch(a, target) PROVE Fits(s, target)
  <2> DEFINE p == Padded(s, n)
  <2>1. Len(s) <= n /\ \A i \in 1 .. Len(s) : s[i] \in {1, target[n - Len(s) + i]}
    BY <1>1, <1>3 DEF CanStretch
  <2>2. Longest(s, target) = n
    BY <1>1, <2>1 DEF Longest
  <2>3. \A i \in 1 .. n : p[i] = IF i <= n - Len(s) THEN 1 ELSE s[i - (n - Len(s))]
    BY <1>1, <2>1, PaddedIs
  <2> HIDE DEF p
  <2>4. ASSUME NEW i \in 1 .. n PROVE p[i] \in {1, target[i]}
    <3>1. CASE i <= n - Len(s)
      BY <2>3, <3>1
    <3>2. CASE ~(i <= n - Len(s))
      <4>0. PICK m \in Nat : m = Len(s)
        BY <1>1
      <4>1. PICK j \in 1 .. Len(s) : j = i - (n - Len(s)) /\ n - Len(s) + j = i
        <5>1. PICK d \in Nat : d = n
          BY <1>1
        <5>2. i \in 1 .. d /\ m <= d /\ ~(i <= d - m)
          BY <2>1, <3>2, <4>0, <5>1
        <5>3. i - (d - m) \in 1 .. m /\ d - m + (i - (d - m)) = i
          BY <5>2
        <5> QED
          BY <4>0, <5>1, <5>3
      <4>2. p[i] = s[j]
        BY <2>3, <3>2, <4>1
      <4> QED
        BY <2>1, <4>1, <4>2
    <3> QED
      BY <3>1, <3>2
  <2>5. Padded(target, n) = target /\ target = [i \in 1 .. n |-> target[i]]
    BY PaddedSelf
  <2>6. Broadcastable(s, target)
    BY <2>2, <2>4, <2>5 DEF Broadcastable, p
  <2>7. BroadcastShapes(s, target) = [i \in 1 .. n |-> IF target[i] = 1 THEN p[i] ELSE target[i]]
    BY <2>2, <2>5 DEF BroadcastShapes, p
  <2>8. \A i \in 1 .. n : (IF target[i] = 1 THEN p[i] ELSE target[i]) = target[i]
    BY <2>4
  <2> QED
    BY <2>5, <2>6, <2>7, <2>8 DEF Fits
<1> QED
  BY <1>2, <1>3

LEMMA StretchAt ==
  ASSUME NEW h, NEW a, Shaped(a), NEW target \in Seq(Nat), CanStretch(a, target)
  PROVE  Gives(h, BroadcastTo(a, target), Stretch(Value(h, a), target))
<1> DEFINE v == BroadcastTo(a, target)
           m == Stretch(Value(h, a), target)
<1>1. v.shape = target
  BY StretchedIs
<1>2. m.shape = target /\ \A ix \in Indices(target) : m.at[ix] = Value(h, a).at[Pull(ix, a.shape)]
  BY DEF Stretch, Value
<1>3. \A ix \in Indices(target) : Pull(ix, a.shape) \in Indices(a.shape) /\ At(h, v, ix) = At(h, a, Pull(ix, a.shape))
  BY StretchedAt DEF Pulled
<1>4. \A jx \in Indices(a.shape) : Value(h, a).at[jx] = At(h, a, jx)
  BY DEF Value, At
<1> HIDE DEF v, m
<1> QED
  BY <1>1, <1>2, <1>3, <1>4 DEF Gives, v, m

LEMMA ReshapedAt ==
  ASSUME NEW elements, NEW shape \in Seq(Nat), Product(shape) # TooLarge, NEW ix \in Indices(shape)
  PROVE  Reshaped(elements, shape).at[ix] = elements[Rank(shape, ix) + 1]
<1> DEFINE order == Walk(shape)
           k == Rank(shape, ix) + 1
           c == CHOOSE j \in DOMAIN order : order[j] = ix
<1>1. Rank(shape, ix) \in Nat /\ k \in 1 .. Product(shape) /\ order[k] = ix
  BY WalkAt
<1>2. DOMAIN order = 1 .. Product(shape) /\ \A j \in 1 .. Product(shape) : Rank(shape, order[j]) = j - 1
  BY WalkIs
<1>3. Reshaped(elements, shape).at[ix] = elements[c]
  BY DEF Reshaped
<1> HIDE DEF order
<1>4. c \in 1 .. Product(shape) /\ order[c] = ix
  BY <1>1, <1>2
<1>5. c = k
  <2>1. Rank(shape, ix) = c - 1 /\ c \in Int
    BY <1>2, <1>4
  <2> HIDE DEF c
  <2> QED
    BY <2>1
<1> QED
  BY <1>3, <1>5

(* The cell of an index in a fresh buffer is its rank in C order.                *)
LEMMA AllocAt ==
  ASSUME NEW h, Heap(h), NEW shape \in Seq(Nat), Product(shape) # TooLarge,
         NEW els \in Seq(Elements), Len(els) = Product(shape), NEW ix \in Indices(shape)
  PROVE  At(Alloc(h, shape, els).heap, Alloc(h, shape, els).array, ix) = els[Rank(shape, ix) + 1]
<1> DEFINE r == Alloc(h, shape, els)
           a == r.array
<1>1. r.heap[a.buffer] = els /\ a.shape = shape /\ IsContiguous(a) /\ r.ok /\ Good(h, r, {})
  BY AllocIs
<1>2. a.offset = 0
  BY DEF Alloc, Got, Contiguous
<1> HIDE DEF r
<1>3. Shaped(a)
  BY <1>1 DEF Good, ViewIn
<1> HIDE DEF a
<1>4. Position(a, ix) = 0 + Rank(shape, ix) /\ Rank(shape, ix) \in Nat
  BY <1>1, <1>2, <1>3, ContiguousPosition
<1>5. Position(a, ix) = Rank(shape, ix)
  BY <1>4
<1> QED
  BY <1>1, <1>5 DEF At, r, a

LEMMA InOrderAt ==
  ASSUME NEW h, NEW a, Shaped(a), Size(a) # TooLarge
  PROVE  LET f == InOrder(Value(h, a)) IN
           DOMAIN f = 1 .. Size(a) /\ \A k \in 1 .. Size(a) : f[k] = At(h, a, Walk(a.shape)[k])
<1> DEFINE w == Walk(a.shape)
           f == InOrder(Value(h, a))
           n == Cardinality(Indices(a.shape))
<1>1. a.shape \in Seq(Nat)
  BY DEF Shaped, Views
<1>2. n = Size(a)
  BY <1>1, CountIs DEF Size
<1>3. \A k \in 1 .. Size(a) : w[k] \in Indices(a.shape)
  BY <1>1, WalkIs DEF Size
<1>4. Value(h, a).shape = a.shape /\ \A ix \in Indices(a.shape) : Value(h, a).at[ix] = At(h, a, ix)
  BY DEF Value, At
<1>5. f = [k \in 1 .. n |-> Value(h, a).at[w[k]]]
  BY <1>4 DEF InOrder
<1> HIDE DEF w, n, f
<1> QED
  BY <1>2, <1>3, <1>4, <1>5 DEF f, w

(* A copy has the elements in C order.                                           *)
LEMMA InCOrderAt ==
  ASSUME NEW h, Heap(h), NEW a, ViewIn(h, a), NEW dims \in Seq(Nat), Product(dims) = Size(a)
  PROVE  LET r == InCOrder(h, a, dims) IN
           /\ ~r.ok => Size(a) = TooLarge \/ Refused(a.shape)
           /\ r.ok => /\ Size(a) # TooLarge /\ r.array.shape = dims
                      /\ \A ix \in Indices(dims) : At(r.heap, r.array, ix) = InOrder(Value(h, a))[Rank(dims, ix) + 1]
<1> DEFINE cells == IF IsContiguous(a) THEN Flat(a) ELSE Walked(a)
           els == [k \in DOMAIN cells |-> Read(h, cells[k])]
           r == InCOrder(h, a, dims)
<1>0. Shaped(a) /\ a.shape \in Seq(Nat)
  BY DEF ViewIn, Shaped, Views
<1>1. CASE ~r.ok
  BY <1>1 DEF InCOrder, Alloc, Got
<1>2. CASE r.ok
  <2>1. Size(a) # TooLarge /\ r = Alloc(h, dims, els)
    BY <1>2 DEF InCOrder, Throw
  <2>2. Size(a) \in Nat
    BY <1>0, <2>1, SizeNat DEF Size
  <2>3. DOMAIN cells = 1 .. Size(a) /\ \A k \in 1 .. Size(a) : Readable(h, cells[k])
    BY <2>1, FlatIs, WalkedIs
  <2>4. ASSUME NEW k \in 1 .. Size(a) PROVE Read(h, cells[k]) = At(h, a, Walk(a.shape)[k])
    <3>1. Walk(a.shape)[k] \in Indices(a.shape) /\ Rank(a.shape, Walk(a.shape)[k]) = k - 1
      BY <1>0, <2>1, WalkIs DEF Size
    <3>2. PICK ix \in Indices(a.shape) : ix = Walk(a.shape)[k]
      BY <3>1
    <3>3. Rank(a.shape, ix) + 1 = k
      BY <3>1, <3>2
    <3>4. /\ Read(h, Walked(a)[Rank(a.shape, ix) + 1]) = At(h, a, ix)
          /\ IsContiguous(a) => Read(h, Flat(a)[Rank(a.shape, ix) + 1]) = At(h, a, ix)
      BY <1>0, <2>1, ListRead
    <3> QED
      BY <3>2, <3>3, <3>4
  <2> HIDE DEF cells
  <2>5. els \in Seq(Elements) /\ Len(els) = Size(a)
    BY <2>2, <2>3, ReadAll
  <2>6. \A k \in 1 .. Size(a) : els[k] = InOrder(Value(h, a))[k]
    BY <1>0, <2>1, <2>3, <2>4, InOrderAt
  <2> HIDE DEF els, r
  <2>7. r.array.shape = dims
    BY <2>1, <2>5, AllocIs
  <2>8. ASSUME NEW ix \in Indices(dims) PROVE At(r.heap, r.array, ix) = InOrder(Value(h, a))[Rank(dims, ix) + 1]
    <3>1. At(r.heap, r.array, ix) = els[Rank(dims, ix) + 1]
      BY <2>1, <2>5, AllocAt
    <3>2. Rank(dims, ix) + 1 \in 1 .. Size(a)
      BY <2>1, WalkAt
    <3> QED
      BY <2>6, <3>1, <3>2
  <2> QED
    BY <1>2, <2>1, <2>7, <2>8 DEF r
<1> QED
  BY <1>1, <1>2

LEMMA NoneLeft ==
  ASSUME NEW shape \in Seq(Nat), Product(shape) # TooLarge
  PROVE  Refused(shape) <=> Product(shape) = 0
<1>1. IsFiniteSet(Indices(shape)) /\ Cardinality(Indices(shape)) = Product(shape)
  BY CountIs
<1> QED
  BY <1>1, RefusedIs, FS_EmptySet

LEMMA CopyAt ==
  ASSUME NEW h, Heap(h), NEW a, ViewIn(h, a), NEW dims \in Seq(Int)
  PROVE  LET r == Copied(h, a, dims)
             legal == Sizable(dims) /\ Product(dims) = Product(a.shape)
         IN  /\ ~r.ok => ~legal \/ Indices(dims) = {}
             /\ r.ok => legal /\ dims \in Seq(Nat) /\ Gives(r.heap, r.array, Reshaped(InOrder(Value(h, a)), dims))
<1> DEFINE r == Copied(h, a, dims)
           legal == Sizable(dims) /\ Product(dims) = Product(a.shape)
           m == Reshaped(InOrder(Value(h, a)), dims)
<1>0. a.shape \in Seq(Nat) /\ Size(a) = Product(a.shape)
  BY DEF ViewIn, Shaped, Views, Size
<1>1. CASE ~legal
  BY <1>0, <1>1 DEF Copied, Throw
<1>2. CASE legal
  <2>1. dims \in Seq(Nat)
    <3>1. \A i \in 1 .. Len(dims) : dims[i] \in Nat
      BY <1>2 DEF Sizable, ToSize
    <3> QED
      BY <3>1
  <2>2. r = InCOrder(h, a, dims) /\ Product(dims) = Size(a) /\ Product(dims) # TooLarge
    BY <1>0, <1>2 DEF Copied, Sizable
  <2>3. /\ ~r.ok => Refused(a.shape)
        /\ r.ok => /\ r.array.shape = dims
                   /\ \A ix \in Indices(dims) : At(r.heap, r.array, ix) = InOrder(Value(h, a))[Rank(dims, ix) + 1]
    BY <2>1, <2>2, InCOrderAt
  <2>4. ~r.ok => Indices(dims) = {}
    BY <1>0, <2>1, <2>2, <2>3, NoneLeft, RefusedIs
  <2>5. m.shape = dims
    BY DEF Reshaped
  <2>6. \A ix \in Indices(dims) : m.at[ix] = InOrder(Value(h, a))[Rank(dims, ix) + 1]
    BY <2>1, <2>2, ReshapedAt
  <2> HIDE DEF r, m
  <2>7. r.ok => Gives(r.heap, r.array, m)
    BY <2>3, <2>5, <2>6 DEF Gives
  <2> QED
    BY <1>2, <2>1, <2>4, <2>7 DEF r, m
<1> QED
  BY <1>1, <1>2

LEMMA MapAt ==
  ASSUME NEW h, Heap(h), NEW a, ViewIn(h, a)
  PROVE  LET r == Mapped(h, a) IN
           /\ ~r.ok => ~Sizable(a.shape) \/ Indices(a.shape) = {}
           /\ r.ok => Sizable(a.shape) /\ Gives(r.heap, r.array, Image(Value(h, a)))
<1> DEFINE r == Mapped(h, a)
           copy == InCOrder(h, a, a.shape)
           b == copy.array.buffer
           old == copy.heap[b]
           m == Image(Value(h, a))
<1>0. Shaped(a) /\ a.shape \in Seq(Nat) /\ Product(a.shape) = Size(a)
  BY DEF ViewIn, Shaped, Views, Size
<1>1. Sizable(a.shape) <=> Size(a) # TooLarge
  BY <1>0 DEF Sizable, ToSize, Size
<1>2. /\ ~copy.ok => Size(a) = TooLarge \/ Refused(a.shape)
      /\ copy.ok => /\ Size(a) # TooLarge /\ copy.array.shape = a.shape
                    /\ \A ix \in Indices(a.shape) : At(copy.heap, copy.array, ix) = InOrder(Value(h, a))[Rank(a.shape, ix) + 1]
  BY <1>0, InCOrderAt
<1>3. r.ok <=> copy.ok
  BY DEF Mapped, MappedInPlace, Throw, Got, InCOrder, Alloc
<1>4. CASE ~copy.ok
  BY <1>0, <1>1, <1>2, <1>3, <1>4, RefusedIs
<1>5. CASE copy.ok
  <2>1. r.array = copy.array /\ r.heap = [copy.heap EXCEPT ![b] = [k \in DOMAIN old |-> Function(old[k])]]
    BY <1>5 DEF Mapped, MappedInPlace, Throw, Got
  <2>2. Good(h, copy, {}) /\ Heap(copy.heap) /\ ViewIn(copy.heap, copy.array)
    BY <1>0, <1>5, InCOrderIs DEF Good
  <2>3. old \in Seq(Elements) /\ r.heap[b] = [k \in DOMAIN old |-> Function(old[k])]
    BY <2>1, <2>2 DEF Heap, ViewIn
  <2>4. m.shape = a.shape /\ \A ix \in Indices(a.shape) : m.at[ix] = Function(At(h, a, ix))
    BY DEF Image, Value, At
  <2> HIDE DEF r, copy, m
  <2>5. ASSUME NEW ix \in Indices(a.shape) PROVE At(r.heap, r.array, ix) = m.at[ix]
    <3>1. At(copy.heap, copy.array, ix) = At(h, a, ix)
      <4>1. Rank(a.shape, ix) + 1 \in 1 .. Size(a) /\ Walk(a.shape)[Rank(a.shape, ix) + 1] = ix
        BY <1>0, <1>2, <1>5, WalkAt
      <4> QED
        BY <1>0, <1>2, <1>5, <4>1, InOrderAt
    <3>2. Position(copy.array, ix) + 1 \in DOMAIN old
      BY <1>2, <1>5, <2>2, <2>3 DEF ViewIn
    <3>3. At(r.heap, r.array, ix) = Function(old[Position(copy.array, ix) + 1])
      BY <2>1, <2>3, <3>2 DEF At
    <3> QED
      BY <2>4, <3>1, <3>3 DEF At
  <2>6. Gives(r.heap, r.array, m)
    BY <1>2, <1>5, <2>1, <2>4, <2>5 DEF Gives
  <2> QED
    BY <1>1, <1>2, <1>3, <1>5, <2>6 DEF r, m
<1> QED
  BY <1>4, <1>5

LEMMA ScalarAt ==
  ASSUME NEW h, Heap(h), NEW o \in AnyOperand, o[1] = "scalar"
  PROVE  LET r == Operand(h, o) IN r.ok /\ NewIn(h, r) /\ Size(r.array) = 1 /\ Gives(r.heap, r.array, Means(o))
<1> DEFINE r == Operand(h, o)
           e == <<o[2]>>
<1>1. o[2] \in Elements /\ r = Alloc(h, <<>>, e)
  BY OperandKinds DEF Operand
<1>2. e \in Seq(Elements) /\ Len(e) = 1 /\ e[1] = o[2]
  BY <1>1
<1> HIDE DEF e
<1>0. PICK s : s = <<>> /\ s \in Seq(Nat) /\ Product(s) = 1
  BY ScalarShape, Zenon
<1>4. r = Alloc(h, s, e) /\ \A ix : ix \in Indices(s) <=> ix \in Indices(<<>>)
  BY <1>0, <1>1, Zenon
<1>7. Means(o).shape = s /\ \A ix \in Indices(s) : Means(o).at[ix] = o[2]
  BY <1>0, <1>4 DEF Means
<1>3. s \in Seq(Nat) /\ Product(s) = 1 /\ Product(s) # TooLarge
  <2>1. s \in Seq(Nat) /\ Product(s) = 1
    BY <1>0, Zenon
  <2> QED
    BY <2>1 DEF TooLarge
<1> HIDE DEF r
<1>9. r = Alloc(h, s, e)
  BY <1>4, Zenon
<1>5. r.ok /\ NewIn(h, r) /\ r.array.shape = s /\ Size(r.array) = 1
  <2>1. Len(e) = Product(s)
    BY <1>2, <1>3
  <2>2. ASSUME NEW t \in Seq(Nat), Product(t) # TooLarge, NEW els \in Seq(Elements), Len(els) = Product(t)
        PROVE  LET w == Alloc(h, t, els) IN w.ok /\ NewIn(h, w) /\ w.array.shape = t /\ Size(w.array) = Product(t)
    BY <2>2, AllocIs
  <2>3. LET w == Alloc(h, s, e) IN w.ok /\ NewIn(h, w) /\ w.array.shape = s /\ Size(w.array) = Product(s)
    BY <1>2, <1>3, <2>1, <2>2
  <2> QED
    BY <1>3, <1>9, <2>3
<1>6. ASSUME NEW ix \in Indices(s) PROVE At(r.heap, r.array, ix) = o[2]
  <2>1. Rank(s, ix) + 1 \in 1 .. 1
    BY <1>3, WalkAt
  <2>2. At(r.heap, r.array, ix) = e[Rank(s, ix) + 1]
    BY <1>2, <1>3, <1>9, AllocAt
  <2>3. Rank(s, ix) + 1 = 1
    BY <2>1
  <2> QED
    BY <1>2, <2>2, <2>3
<1>8. Gives(r.heap, r.array, Means(o))
  BY <1>5, <1>6, <1>7 DEF Gives
<1> QED
  BY <1>5, <1>8 DEF r

LEMMA OperandAt ==
  ASSUME Heap(heap), AllIn(heap), NEW h, Heap(h), Changes(heap, h, {}), NEW o \in AnyOperand
  PROVE  LET r == Operand(h, o) IN
           /\ ~r.ok => ~Legal(o) \/ Indices(Means(o).shape) = {}
           /\ r.ok => /\ Legal(o) /\ Gives(r.heap, r.array, Means(o))
                      /\ IF IsView(o) THEN r.heap = h /\ r.array = ViewOf(o) ELSE r.array.buffer \notin DOMAIN h
<1> DEFINE r == Operand(h, o)
           a == arrays[o[2]]
<1>1. CASE o[1] = "scalar"
  <2>1. r.ok /\ NewIn(h, r) /\ Gives(r.heap, r.array, Means(o))
    BY <1>1, ScalarAt
  <2>2. Legal(o) /\ ~IsView(o)
    BY <1>1 DEF Legal, IsView
  <2> QED
    BY <2>1, <2>2 DEF NewIn
<1>2. CASE o[1] = "nothing"
  BY <1>2 DEF Operand, Throw, Legal
<1>3. CASE o[1] \notin {"scalar", "nothing"} /\ o[2] \notin DOMAIN arrays
  <2>1. ~r.ok
    BY <1>3, OperandKinds DEF Operand, Throw
  <2>2. ~Legal(o)
    BY <1>3 DEF Legal, NameOf
  <2> QED
    BY <2>1, <2>2
<1>4. ASSUME o[1] \notin {"scalar", "nothing"}, o[2] \in DOMAIN arrays
      PROVE  ViewIn(h, a) /\ ViewIn(heap, a) /\ Of(o) = Value(h, a) /\ (Legal(o) <=> LegalFor(o, a.shape))
  <2>1. ViewIn(heap, a)
    BY <1>4 DEF AllIn
  <2>2. ViewIn(h, a) /\ Value(h, a) = Value(heap, a)
    BY <2>1, ViewKept, ValueKept
  <2> QED
    BY <1>4, <2>1, <2>2 DEF Of, NameOf, Legal
<1>5. CASE o[1] = "name" /\ o[2] \in DOMAIN arrays
  <2>1. r = Got(h, a) /\ Means(o) = Value(h, a) /\ IsView(o) /\ ViewOf(o) = a /\ Legal(o)
    BY <1>4, <1>5 DEF Operand, Means, IsView, ViewOf, LegalFor
  <2>2. r.ok /\ r.heap = h /\ r.array = a
    BY <2>1 DEF Got
  <2> QED
    BY <2>1, <2>2, ValueGives
<1>6. CASE o[1] = "slice" /\ o[2] \in DOMAIN arrays
  <2>1. /\ r = Slice(h, a, o[3], o[4]) /\ Means(o) = SliceMeans(Value(h, a), o[3], o[4])
        /\ IsView(o) /\ ViewOf(o) = Slice(heap, a, o[3], o[4]).array
    BY <1>4, <1>6 DEF Operand, Means, IsView, ViewOf
  <2>2. Legal(o) <=> a.shape # <<>>
    BY <1>4, <1>6 DEF LegalFor
  <2>3. o[3] \in Int /\ o[4] \in Int
    BY <1>6, OperandKinds
  <2>4. /\ r.ok <=> a.shape # <<>>
        /\ r.ok => r.heap = h /\ Gives(h, r.array, Means(o))
    BY <1>4, <1>6, <2>1, <2>3, SliceAt
  <2>5. a.shape # <<>> => Slice(heap, a, o[3], o[4]).array = Slice(h, a, o[3], o[4]).array
    BY DEF Slice, Got
  <2> HIDE DEF r
  <2> QED
    BY <2>1, <2>2, <2>4, <2>5 DEF r
<1>7. CASE o[1] = "stretch" /\ o[2] \in DOMAIN arrays
  <2>1. /\ r = IF CanStretch(a, o[3]) THEN Got(h, BroadcastTo(a, o[3])) ELSE Throw
        /\ Means(o) = Stretch(Value(h, a), o[3]) /\ IsView(o) /\ ViewOf(o) = BroadcastTo(a, o[3])
    BY <1>4, <1>7 DEF Operand, Means, IsView, ViewOf
  <2>2. o[3] \in Seq(Nat) /\ Shaped(a)
    BY <1>4, <1>7, OperandKinds DEF ViewIn
  <2>3. Legal(o) <=> CanStretch(a, o[3])
    BY <1>4, <1>7, <2>2, FitsIs DEF LegalFor
  <2>4. CASE CanStretch(a, o[3])
    <3>1. r.ok /\ r.heap = h /\ r.array = BroadcastTo(a, o[3])
      BY <2>1, <2>4 DEF Got
    <3>2. Gives(h, BroadcastTo(a, o[3]), Means(o))
      BY <2>1, <2>2, <2>4, StretchAt
    <3> QED
      BY <2>1, <2>3, <2>4, <3>1, <3>2
  <2>5. CASE ~CanStretch(a, o[3])
    BY <2>1, <2>3, <2>5 DEF Throw
  <2> QED
    BY <2>4, <2>5
<1>8. CASE o[1] = "copy" /\ o[2] \in DOMAIN arrays
  <2>1. r = Copied(h, a, o[3]) /\ Means(o) = Reshaped(InOrder(Value(h, a)), o[3]) /\ ~IsView(o)
    BY <1>4, <1>8 DEF Operand, Means, IsView
  <2>2. o[3] \in Seq(Int)
    BY <1>8, OperandKinds
  <2>3. Legal(o) <=> Sizable(o[3]) /\ Product(o[3]) = Product(a.shape)
    BY <1>4, <1>8 DEF LegalFor
  <2>4. Means(o).shape = o[3]
    BY <2>1 DEF Reshaped
  <2>5. NewIn(h, r)
    BY <1>4, <1>8, <2>1, <2>2, CopiedIs
  <2>6. /\ ~r.ok => ~Legal(o) \/ Indices(o[3]) = {}
        /\ r.ok => Legal(o) /\ Gives(r.heap, r.array, Means(o))
    BY <1>4, <1>8, <2>1, <2>2, <2>3, CopyAt
  <2> QED
    BY <2>1, <2>4, <2>5, <2>6 DEF NewIn
<1>9. CASE o[1] = "map" /\ o[2] \in DOMAIN arrays
  <2>1. r = Mapped(h, a) /\ Means(o) = Image(Value(h, a)) /\ ~IsView(o)
    BY <1>4, <1>9 DEF Operand, Means, IsView
  <2>2. Legal(o) <=> Sizable(a.shape)
    BY <1>4, <1>9 DEF LegalFor
  <2>3. Means(o).shape = a.shape
    BY <2>1 DEF Image, Value
  <2>4. NewIn(h, r)
    BY <1>4, <1>9, <2>1, MappedIs
  <2>5. /\ ~r.ok => ~Legal(o) \/ Indices(a.shape) = {}
        /\ r.ok => Legal(o) /\ Gives(r.heap, r.array, Means(o))
    BY <1>4, <1>9, <2>1, <2>2, MapAt
  <2> QED
    BY <2>1, <2>3, <2>4, <2>5 DEF NewIn
<1> QED
  BY <1>1, <1>2, <1>3, <1>5, <1>6, <1>7, <1>8, <1>9, OperandKinds

-----------------------------------------------------------------------------
(* Arithmetic has its meaning, in either order of the operands.                  *)
LEMMA BroadcastTurned ==
  ASSUME NEW s \in Seq(Nat), NEW t \in Seq(Nat)
  PROVE  /\ Broadcastable(s, t) <=> Broadcastable(t, s)
         /\ Broadcastable(s, t) => BroadcastShapes(s, t) = BroadcastShapes(t, s)
<1> DEFINE n == Longest(s, t)
           p == Padded(s, n)
           q == Padded(t, n)
<1>1. n \in Nat /\ Longest(t, s) = n
  BY DEF Longest
<1>2. /\ Broadcastable(s, t) <=> \A i \in 1 .. n : p[i] = q[i] \/ 1 \in {p[i], q[i]}
      /\ Broadcastable(t, s) <=> \A i \in 1 .. n : q[i] = p[i] \/ 1 \in {q[i], p[i]}
  BY <1>1 DEF Broadcastable
<1>3. /\ BroadcastShapes(s, t) = [i \in 1 .. n |-> IF q[i] = 1 THEN p[i] ELSE q[i]]
      /\ BroadcastShapes(t, s) = [i \in 1 .. n |-> IF p[i] = 1 THEN q[i] ELSE p[i]]
  BY <1>1 DEF BroadcastShapes
<1> HIDE DEF n, p, q
<1>4. ASSUME Broadcastable(s, t), NEW i \in 1 .. n
      PROVE  (IF q[i] = 1 THEN p[i] ELSE q[i]) = (IF p[i] = 1 THEN q[i] ELSE p[i])
  BY <1>2, <1>4
<1> QED
  BY <1>2, <1>3, <1>4

LEMMA CombineTurned ==
  ASSUME NEW op \in Operators, NEW x \in Elements, NEW y \in Elements
  PROVE  /\ Combine(Reversed(op), y, x) = Combine(op, x, y)
         /\ op \in {"+", "*"} => Combine(op, y, x) = Combine(op, x, y)
<1>1. x \in Int /\ y \in Int
  BY NdarrayAssumption DEF Elements
<1>2. x + y = y + x /\ x * y = y * x
  BY <1>1
<1>3. {x, y} = {y, x}
  OBVIOUS
<1>4. op \in {"+", "*"} => Combine(op, y, x) = Combine(op, x, y)
  BY <1>2, <1>3 DEF Combine
<1>5. CASE op \in {"+", "*"}
  <2>1. Reversed(op) = op
    BY <1>5 DEF Reversed
  <2> QED
    BY <1>4, <1>5, <2>1
<1>6. CASE op = "-"
  <2>1. Reversed(op) = "r-"
    BY <1>6 DEF Reversed
  <2> QED
    BY <1>3, <1>6, <2>1 DEF Combine
<1>7. CASE op = "/"
  <2>1. Reversed(op) = "r/"
    BY <1>7 DEF Reversed
  <2> QED
    BY <1>3, <1>7, <2>1 DEF Combine
<1> QED
  BY <1>4, <1>5, <1>6, <1>7 DEF Operators

LEMMA AtIs == ASSUME NEW h, Heap(h), NEW a, ViewIn(h, a), NEW ix \in Indices(a.shape) PROVE At(h, a, ix) \in Elements
<1>1. a.buffer \in DOMAIN h /\ Position(a, ix) + 1 \in 1 .. Len(h[a.buffer]) /\ h[a.buffer] \in Seq(Elements)
  BY DEF ViewIn, Heap
<1> QED
  BY <1>1 DEF At

LEMMA PulledIs ==
  ASSUME NEW h, Heap(h), NEW a, ViewIn(h, a), NEW b, ViewIn(h, b), Broadcastable(a.shape, b.shape),
         NEW ix \in Indices(BroadcastShapes(a.shape, b.shape))
  PROVE  /\ Pull(ix, a.shape) \in Indices(a.shape) /\ Pulled(h, a, ix) \in Elements
         /\ Pull(ix, b.shape) \in Indices(b.shape) /\ Pulled(h, b, ix) \in Elements
<1> DEFINE u == BroadcastShapes(a.shape, b.shape)
<1>1. Shaped(a) /\ Shaped(b)
  BY DEF ViewIn
<1>2. u \in Seq(Nat) /\ CanStretch(a, u) /\ CanStretch(b, u)
  BY <1>1, OperandsStretch
<1> HIDE DEF u
<1>3. ix \in Indices(u)
  BY DEF u
<1>4. Pull(ix, a.shape) \in Indices(a.shape) /\ Pull(ix, b.shape) \in Indices(b.shape)
  BY <1>1, <1>2, <1>3, StretchedAt
<1> QED
  BY <1>4, AtIs DEF Pulled

LEMMA CombinedIs ==
  ASSUME NEW h, Heap(h), NEW a, ViewIn(h, a), NEW b, ViewIn(h, b), Broadcastable(a.shape, b.shape),
         NEW op, NEW r, Elementwise(h, r, op, a, b), NEW f, Gives(h, a, f), NEW g, Gives(h, b, g)
  PROVE  Gives(r.heap, r.array, Combined(op, f, g))
<1> DEFINE u == BroadcastShapes(a.shape, b.shape)
           m == Combined(op, f, g)
<1>1. f.shape = a.shape /\ g.shape = b.shape
  BY DEF Gives
<1>2. m.shape = u /\ \A ix \in Indices(u) : m.at[ix] = Combine(op, f.at[Pull(ix, a.shape)], g.at[Pull(ix, b.shape)])
  BY <1>1 DEF Combined
<1>3. r.array.shape = u
  BY DEF Elementwise
<1> HIDE DEF m
<1>4. ASSUME NEW ix \in Indices(u) PROVE At(r.heap, r.array, ix) = m.at[ix]
  <2>1. Pull(ix, a.shape) \in Indices(a.shape) /\ Pull(ix, b.shape) \in Indices(b.shape)
    BY PulledIs
  <2>2. f.at[Pull(ix, a.shape)] = Pulled(h, a, ix) /\ g.at[Pull(ix, b.shape)] = Pulled(h, b, ix)
    BY <2>1 DEF Gives, Pulled
  <2>3. At(r.heap, r.array, ix) = Combine(op, Pulled(h, a, ix), Pulled(h, b, ix))
    BY DEF Elementwise
  <2> QED
    BY <1>2, <2>2, <2>3
<1> QED
  BY <1>2, <1>3, <1>4 DEF Gives, m

LEMMA MeasuredIs ==
  ASSUME NEW a, Shaped(a), NEW b, Shaped(b)
  PROVE  Measured(a, b) <=> Combines(a.shape, b.shape)
<1>1. a.shape \in Seq(Nat) /\ b.shape \in Seq(Nat)
  BY DEF Shaped, Views
<1>2. \A s \in Seq(Nat) : Sizable(s) <=> Product(s) # TooLarge
  BY DEF Sizable, ToSize
<1> DEFINE u == BroadcastShapes(a.shape, b.shape)
<1>3. Broadcastable(a.shape, b.shape) => u \in Seq(Nat)
  BY <1>1, BroadcastIs
<1> HIDE DEF u
<1>4. Combines(a.shape, b.shape) <=> Broadcastable(a.shape, b.shape) /\ Sizable(a.shape) /\ Sizable(b.shape) /\ Sizable(u)
  BY DEF Combines, u
<1>5. Measured(a, b) <=> /\ Broadcastable(a.shape, b.shape)
                         /\ Product(a.shape) # TooLarge /\ Product(b.shape) # TooLarge /\ Product(u) # TooLarge
  BY DEF Measured, Unsized, Size, u
<1> QED
  BY <1>1, <1>2, <1>3, <1>4, <1>5

(* An empty result has an empty operand.                                         *)
LEMMA EmptyIs ==
  ASSUME NEW s \in Seq(Nat), NEW t \in Seq(Nat), Broadcastable(s, t), Refused(BroadcastShapes(s, t))
  PROVE  Indices(s) = {} \/ Indices(t) = {}
<1> DEFINE n == Longest(s, t)
           p == Padded(s, n)
           q == Padded(t, n)
<1>1. n \in Nat /\ Len(s) <= n /\ Len(t) <= n /\ Len(s) \in Nat /\ Len(t) \in Nat
  BY DEF Longest
<1>2. BroadcastShapes(s, t) = [i \in 1 .. n |-> IF q[i] = 1 THEN p[i] ELSE q[i]]
  BY DEF BroadcastShapes
<1>3. PICK i \in 1 .. n : p[i] = 0 \/ q[i] = 0
  <2> HIDE DEF n, p, q
  <2> QED
    BY <1>2 DEF Refused
<1>4. ASSUME NEW v \in Seq(Nat), Len(v) <= n, Padded(v, n)[i] = 0 PROVE Refused(v)
  <2> DEFINE w == Padded(v, n)
  <2>1. PICK m \in Nat : m = Len(v) /\ m <= n
    BY <1>4
  <2>2. w[i] = IF i <= n - m THEN 1 ELSE v[i - (n - m)]
    BY <1>1, <1>4, <2>1, PaddedIs
  <2>3. ~(i <= n - m) /\ v[i - (n - m)] = 0
    BY <1>4, <2>2
  <2>4. i - (n - m) \in 1 .. m
    <3> HIDE DEF n
    <3> QED
      BY <1>1, <2>1, <2>3
  <2>5. DOMAIN v = 1 .. m
    BY <2>1
  <2> QED
    BY <2>3, <2>4, <2>5 DEF Refused
<1>5. Refused(s) \/ Refused(t)
  BY <1>1, <1>3, <1>4
<1> QED
  BY <1>5, RefusedIs

LEMMA CountEmpty == ASSUME NEW o, Indices(Means(o).shape) = {} PROVE Count(o) = 0
BY FS_EmptySet DEF Count

LEMMA CountSize ==
  ASSUME NEW h, NEW a, Shaped(a), Size(a) # TooLarge, NEW o, Gives(h, a, Means(o))
  PROVE  Count(o) = Size(a)
<1>1. a.shape \in Seq(Nat) /\ Means(o).shape = a.shape
  BY DEF Shaped, Views, Gives
<1> QED
  BY <1>1, CountIs DEF Count, Size

LEMMA CombineMeans ==
  ASSUME NEW h, Heap(h), NEW a, ViewIn(h, a), NEW b, ViewIn(h, b), Broadcastable(a.shape, b.shape),
         NEW op \in Operators, NEW rop, rop = Reversed(op) \/ (rop = op /\ op \in {"+", "*"}),
         NEW r, Elementwise(h, r, rop, b, a)
  PROVE  Elementwise(h, r, op, a, b)
<1> DEFINE u == BroadcastShapes(a.shape, b.shape)
<1>1. a.shape \in Seq(Nat) /\ b.shape \in Seq(Nat)
  BY DEF ViewIn, Shaped, Views
<1>2. BroadcastShapes(b.shape, a.shape) = u
  BY <1>1, BroadcastTurned
<1>3. r.array.shape = u /\ \A ix \in Indices(u) : At(r.heap, r.array, ix) = Combine(rop, Pulled(h, b, ix), Pulled(h, a, ix))
  BY <1>2 DEF Elementwise
<1>4. ASSUME NEW ix \in Indices(u)
      PROVE  Combine(rop, Pulled(h, b, ix), Pulled(h, a, ix)) = Combine(op, Pulled(h, a, ix), Pulled(h, b, ix))
  <2>1. Pulled(h, a, ix) \in Elements /\ Pulled(h, b, ix) \in Elements
    BY PulledIs
  <2> QED
    BY <2>1, CombineTurned
<1> QED
  BY <1>3, <1>4 DEF Elementwise

(* A destination is clear of a source that does not overlap it.                  *)
Placing(v, o, w, other) ==
  IF IsView(o) /\ IsView(other) THEN v = ViewOf(o) /\ w = ViewOf(other) ELSE v.buffer # w.buffer
LEMMA BuffersApart == ASSUME NEW v, NEW w, v.buffer # w.buffer PROVE CellsOf(v) \intersect CellsOf(w) = {}
BY CellsThere
LEMMA ClearIs ==
  ASSUME NEW v, NEW w, NEW o, NEW other, Placing(v, o, w, other), IsContiguous(v),
         ~(IsView(o) /\ Overlap(ViewOf(o), other))
  PROVE  Clear(v, w)
<1>1. CASE IsView(o) /\ IsView(other)
  <2>1. v = ViewOf(o) /\ w = ViewOf(other) /\ Sources(other) = CellsOf(w)
    BY <1>1 DEF Placing, Sources
  <2> QED
    BY <1>1, <2>1 DEF Overlap, Clear
<1>2. CASE ~(IsView(o) /\ IsView(other))
  BY <1>2, BuffersApart DEF Placing, Clear
<1> QED
  BY <1>1, <1>2

(* Two operands, one evaluated after the other.                                  *)
Both(l, r, h, a, b) ==
  /\ Heap(h) /\ ViewIn(h, a) /\ ViewIn(h, b) /\ Gives(h, a, Means(l)) /\ Gives(h, b, Means(r))
  /\ Placing(a, l, b, r) /\ Placing(b, r, a, l) /\ Legal(l) /\ Legal(r)
LEMMA BothAre ==
  ASSUME IInv, NEW l \in AnyOperand, NEW r \in AnyOperand, Operand(heap, l).ok, Operand(Operand(heap, l).heap, r).ok
  PROVE  LET left == Operand(heap, l) right == Operand(left.heap, r) IN
           Both(l, r, right.heap, left.array, right.array) /\ Changes(heap, right.heap, {})
<1> DEFINE left == Operand(heap, l)
           right == Operand(left.heap, r)
           g == left.heap
           h == right.heap
           a == left.array
           b == right.array
<1>1. Heap(heap) /\ AllIn(heap) /\ Changes(heap, heap, {})
  BY ChangesNothing DEF IInv
<1>2. /\ Legal(l) /\ Gives(g, a, Means(l))
      /\ IF IsView(l) THEN g = heap /\ a = ViewOf(l) ELSE a.buffer \notin DOMAIN heap
  BY <1>1, OperandAt
<1>3. Heap(g) /\ Changes(heap, g, {}) /\ ViewIn(g, a)
  BY <1>1, OperandIs DEF Good
<1>4. AllIn(g)
  BY <1>1, <1>3, AllKept
<1> HIDE DEF left
<1>5. /\ Legal(r) /\ Gives(h, b, Means(r))
      /\ IF IsView(r) THEN h = g /\ b = ViewOf(r) ELSE b.buffer \notin DOMAIN g
  BY <1>1, <1>3, OperandAt DEF left
<1>6. Heap(h) /\ Changes(g, h, {}) /\ ViewIn(h, b)
  BY <1>3, <1>4, OperandIs DEF Good, left
<1> HIDE DEF right
<1>7. ViewIn(h, a) /\ Gives(h, a, Means(l)) /\ Changes(heap, h, {})
  BY <1>2, <1>3, <1>6, ViewKept, GivesKept, ChangesThen
<1>8. a.buffer \in DOMAIN g
  BY <1>3 DEF ViewIn
<1>9. ASSUME IsView(r) PROVE b.buffer \in DOMAIN heap
  <2>1. h = g /\ b = ViewOf(r)
    BY <1>5, <1>9
  <2>2. Operand(heap, r).ok /\ Operand(heap, r).array = b
    <3>1. r[1] \in {"name", "slice", "stretch"}
      BY <1>9 DEF IsView
    <3>2. Operand(heap, r).ok <=> Operand(g, r).ok
      BY <3>1 DEF Operand, Slice, Got, Throw
    <3>3. Operand(heap, r).ok
      BY <3>2 DEF left
    <3> QED
      BY <1>1, <1>9, <2>1, <3>3, OperandAt
  <2>3. ViewIn(Operand(heap, r).heap, b) /\ Operand(heap, r).heap = heap
    BY <1>1, <1>9, <2>2, OperandIs, OperandAt DEF Good
  <2> QED
    BY <2>3 DEF ViewIn
<1>10. Placing(a, l, b, r)
  BY <1>2, <1>5, <1>8, <1>9 DEF Placing
<1>11. Placing(b, r, a, l)
  BY <1>2, <1>5, <1>8, <1>9 DEF Placing
<1> QED
  BY <1>2, <1>5, <1>6, <1>7, <1>10, <1>11 DEF Both, left, right

(* a op= b for an operand o whose array is b.                                    *)
LEMMA CompoundFor ==
  ASSUME NEW h, Heap(h), NEW op \in AnyOp, NEW a, ViewIn(h, a), NEW b, ViewIn(h, b), NEW block \in Nat \ {0},
         NEW o, Gives(h, b, Means(o)), ~(Count(o) = 1 /\ Len(b.shape) > Len(a.shape)),
         IsContiguous(a) /\ Count(o) # 1 => Clear(a, b), CompoundApply(h, op, a, b, block).ok
  PROVE  Measured(a, b) /\ Elementwise(h, CompoundApply(h, op, a, b, block), op, a, b)
<1>1. Measured(a, b)
  BY CompoundAt
<1>2. Shaped(a) /\ Shaped(b) /\ a.shape \in Seq(Nat) /\ b.shape \in Seq(Nat)
  BY DEF ViewIn, Shaped, Views
<1>3. Size(b) # TooLarge
  BY <1>1 DEF Measured, Unsized
<1>4. Count(o) = Size(b)
  BY <1>2, <1>3, CountSize
<1>5. Size(b) = 1 => Len(b.shape) <= Len(a.shape)
  <2>1. Len(a.shape) \in Nat /\ Len(b.shape) \in Nat
    BY <1>2
  <2> QED
    BY <1>4, <2>1
<1> QED
  BY <1>1, <1>4, <1>5, CompoundAt

LEMMA NotMeasured ==
  ASSUME NEW h, NEW a, ViewIn(h, a), NEW b, ViewIn(h, b), NEW f, Gives(h, a, f), NEW g, Gives(h, b, g),
         ~Measured(a, b) \/ Refused(BroadcastShapes(a.shape, b.shape))
  PROVE  ~Combines(f.shape, g.shape) \/ Indices(f.shape) = {} \/ Indices(g.shape) = {}
<1>1. Shaped(a) /\ Shaped(b) /\ a.shape \in Seq(Nat) /\ b.shape \in Seq(Nat) /\ f.shape = a.shape /\ g.shape = b.shape
  BY DEF ViewIn, Shaped, Views, Gives
<1>2. CASE ~Measured(a, b)
  BY <1>1, <1>2, MeasuredIs
<1>3. CASE Measured(a, b) /\ Refused(BroadcastShapes(a.shape, b.shape))
  BY <1>1, <1>3, EmptyIs DEF Measured
<1> QED
  BY <1>2, <1>3

LEMMA MeasuredTurned ==
  ASSUME NEW a, Shaped(a), NEW b, Shaped(b)
  PROVE  /\ Measured(a, b) <=> Measured(b, a)
         /\ Measured(a, b) => BroadcastShapes(a.shape, b.shape) = BroadcastShapes(b.shape, a.shape)
<1>1. a.shape \in Seq(Nat) /\ b.shape \in Seq(Nat)
  BY DEF Shaped, Views
<1> QED
  BY <1>1, BroadcastTurned DEF Measured, Unsized

(* What is not claimed of an expression.                                         *)
Exempt(l, r) == (Expiring(l) /\ Keeps(l, r)) \/ (Expiring(r) /\ Keeps(r, l)) \/ Clobbers(l, r)
LEMMA ReuseAt ==
  ASSUME NEW l, NEW r, NEW h, NEW a, NEW b, Both(l, r, h, a, b), NEW op \in Operators, NEW block \in Nat \ {0}
  PROVE  LET res == Reuse(h, op, l, r, a, b, block) IN
           /\ ~res.ok => ~Measured(a, b) \/ Refused(BroadcastShapes(a.shape, b.shape))
           /\ res.ok => Measured(a, b) /\ (Exempt(l, r) \/ Elementwise(h, res, op, a, b))
<1> DEFINE res == Reuse(h, op, l, r, a, b, block)
<1>1. /\ Heap(h) /\ ViewIn(h, a) /\ ViewIn(h, b) /\ Gives(h, a, Means(l)) /\ Gives(h, b, Means(r))
      /\ Placing(a, l, b, r) /\ Placing(b, r, a, l)
      /\ Shaped(a) /\ Shaped(b) /\ Means(l).shape = a.shape /\ Means(r).shape = b.shape
  BY DEF Both, Gives, ViewIn
<1>2. Reversed(op) \in AnyOp /\ op \in AnyOp
  BY ReversedIs
<1>3. ASSUME Expiring(l), NEW x, x = CompoundApply(h, op, a, b, block)
      PROVE  /\ ~x.ok => ~Measured(a, b) \/ Refused(BroadcastShapes(a.shape, b.shape))
             /\ x.ok => Measured(a, b) /\ (Exempt(l, r) \/ Elementwise(h, x, op, a, b))
  <2>1. /\ ~x.ok => ~Measured(a, b) \/ Refused(BroadcastShapes(a.shape, b.shape))
        /\ x.ok => Measured(a, b)
    BY <1>1, <1>2, <1>3, CompoundAt
  <2>2. ASSUME ~Exempt(l, r), x.ok PROVE Elementwise(h, x, op, a, b)
    <3>1. ~(Count(r) = 1 /\ Len(b.shape) > Len(a.shape))
      BY <1>1, <1>3, <2>2 DEF Exempt, Keeps
    <3>2. ASSUME IsContiguous(a), Count(r) # 1 PROVE Clear(a, b)
      <4>1. ~(IsView(l) /\ Overlap(ViewOf(l), r))
        BY <1>3, <2>2, <3>2 DEF Exempt, Clobbers, Destination
      <4> QED
        BY <1>1, <3>2, <4>1, ClearIs
    <3> QED
      BY <1>1, <1>2, <1>3, <2>2, <3>1, <3>2, CompoundFor
  <2> QED
    BY <2>1, <2>2
<1>4. ASSUME ~Expiring(l), Expiring(r), NEW rop, rop = Reversed(op) \/ (rop = op /\ op \in {"+", "*"}),
             NEW x, x = CompoundApply(h, rop, b, a, block)
      PROVE  /\ ~x.ok => ~Measured(a, b) \/ Refused(BroadcastShapes(a.shape, b.shape))
             /\ x.ok => Measured(a, b) /\ (Exempt(l, r) \/ Elementwise(h, x, op, a, b))
  <2>0. rop \in AnyOp
    BY <1>2, <1>4
  <2>1. /\ ~x.ok => ~Measured(b, a) \/ Refused(BroadcastShapes(b.shape, a.shape))
        /\ x.ok => Measured(b, a)
    BY <1>1, <1>4, <2>0, CompoundAt
  <2>2. ASSUME ~Exempt(l, r), x.ok PROVE Elementwise(h, x, op, a, b)
    <3>1. ~(Count(l) = 1 /\ Len(a.shape) > Len(b.shape))
      BY <1>1, <1>4, <2>2 DEF Exempt, Keeps
    <3>2. ASSUME IsContiguous(b), Count(l) # 1 PROVE Clear(b, a)
      <4>1. ~(IsView(r) /\ Overlap(ViewOf(r), l))
        BY <1>4, <2>2, <3>2 DEF Exempt, Clobbers, Destination
      <4> QED
        BY <1>1, <3>2, <4>1, ClearIs
    <3>3. Elementwise(h, x, rop, b, a)
      BY <1>1, <1>4, <2>0, <2>2, <3>1, <3>2, CompoundFor
    <3>4. Broadcastable(a.shape, b.shape)
      BY <1>1, <2>1, <2>2, MeasuredTurned DEF Measured
    <3> QED
      BY <1>1, <1>4, <3>3, <3>4, CombineMeans
  <2> QED
    BY <1>1, <2>1, <2>2, MeasuredTurned
<1>5. CASE IsScalar(l) /\ Expiring(r) /\ op \in {"+", "*"}
  <2>1. ~Expiring(l)
    BY <1>5 DEF IsScalar, Expiring
  <2>2. res = CompoundApply(h, op, b, a, block)
    BY <1>5, <2>1 DEF Reuse, IsScalar
  <2> HIDE DEF res
  <2> QED
    BY <1>4, <1>5, <2>1, <2>2 DEF res
<1>6. CASE Expiring(l)
  <2>1. ~IsScalar(l) /\ l[1] # "name"
    BY <1>6 DEF IsScalar, Expiring
  <2>2. res = CompoundApply(h, op, a, b, block)
    BY <1>6, <2>1 DEF Reuse
  <2> HIDE DEF res
  <2> QED
    BY <1>3, <1>6, <2>2 DEF res
<1>7. CASE l[1] = "name" /\ Expiring(r)
  <2>1. ~IsScalar(l) /\ ~Expiring(l)
    BY <1>7 DEF IsScalar, Expiring
  <2>2. res = CompoundApply(h, Reversed(op), b, a, block)
    BY <1>7, <2>1 DEF Reuse
  <2> HIDE DEF res
  <2> QED
    BY <1>4, <1>7, <2>1, <2>2 DEF res
<1>8. CASE ~(IsScalar(l) /\ Expiring(r) /\ op \in {"+", "*"}) /\ ~Expiring(l) /\ ~(l[1] = "name" /\ Expiring(r))
  <2>1. res = BinaryOp(h, op, a, b)
    BY <1>8 DEF Reuse
  <2> HIDE DEF res
  <2> QED
    BY <1>1, <1>2, <2>1, BinaryOpAt DEF res
<1> QED
  BY <1>5, <1>6, <1>7, <1>8

LEMMA BinaryAt ==
  ASSUME IInv, NEW op \in Operators, NEW l \in AnyOperand, NEW r \in AnyOperand, NEW block \in Nat \ {0}
  PROVE  LET res == Binary(heap, op, l, r, block)
             legal == Legal(l) /\ Legal(r) /\ Combines(Means(l).shape, Means(r).shape)
         IN  /\ ~res.ok => ~legal \/ 0 \in {Count(l), Count(r)}
             /\ res.ok => legal /\ (Exempt(l, r) \/ Gives(res.heap, res.array, Combined(op, Means(l), Means(r))))
<1> DEFINE res == Binary(heap, op, l, r, block)
           left == Operand(heap, l)
           right == Operand(left.heap, r)
           h == right.heap
           a == left.array
           b == right.array
           legal == Legal(l) /\ Legal(r) /\ Combines(Means(l).shape, Means(r).shape)
<1>0. Heap(heap) /\ AllIn(heap) /\ Changes(heap, heap, {})
  BY ChangesNothing DEF IInv
<1>1. CASE ~left.ok
  <2>1. res = Throw
    BY <1>1 DEF Binary, LeftThere
  <2>2. ~Legal(l) \/ Count(l) = 0
    BY <1>0, <1>1, OperandAt, CountEmpty
  <2> QED
    BY <2>1, <2>2 DEF Throw
<1>2. CASE left.ok /\ ~right.ok
  <2>1. res = Throw
    BY <1>2 DEF Binary, LeftThere, BothThere
  <2>2. Heap(left.heap) /\ Changes(heap, left.heap, {})
    BY <1>0, <1>2, OperandIs DEF Good
  <2>3. ~Legal(r) \/ Count(r) = 0
    BY <1>0, <1>2, <2>2, OperandAt, CountEmpty
  <2> QED
    BY <2>1, <2>3 DEF Throw
<1>3. CASE left.ok /\ right.ok
  <2>1. res = Reuse(h, op, l, r, a, b, block)
    BY <1>3 DEF Binary, LeftThere, BothThere
  <2>2. Both(l, r, h, a, b)
    BY <1>3, BothAre
  <2> HIDE DEF res, h, a, b
  <2>3. /\ ~res.ok => ~Measured(a, b) \/ Refused(BroadcastShapes(a.shape, b.shape))
        /\ res.ok => Measured(a, b) /\ (Exempt(l, r) \/ Elementwise(h, res, op, a, b))
    BY <2>1, <2>2, ReuseAt
  <2>4. /\ Heap(h) /\ ViewIn(h, a) /\ ViewIn(h, b) /\ Gives(h, a, Means(l)) /\ Gives(h, b, Means(r)) /\ Legal(l) /\ Legal(r)
        /\ Shaped(a) /\ Shaped(b) /\ Means(l).shape = a.shape /\ Means(r).shape = b.shape
    BY <2>2 DEF Both, Gives, ViewIn
  <2>5. CASE ~res.ok
    <3>1. ~Combines(Means(l).shape, Means(r).shape) \/ Indices(Means(l).shape) = {} \/ Indices(Means(r).shape) = {}
      BY <2>3, <2>4, <2>5, NotMeasured
    <3> QED
      BY <2>5, <3>1, CountEmpty DEF res
  <2>6. CASE res.ok
    <3>1. Combines(Means(l).shape, Means(r).shape) /\ Broadcastable(a.shape, b.shape)
      BY <2>3, <2>4, <2>6, MeasuredIs DEF Measured
    <3>2. Elementwise(h, res, op, a, b) => Gives(res.heap, res.array, Combined(op, Means(l), Means(r)))
      BY <2>4, <3>1, CombinedIs
    <3> QED
      BY <2>3, <2>4, <2>6, <3>1, <3>2 DEF res
  <2> QED
    BY <2>5, <2>6
<1> QED
  BY <1>1, <1>2, <1>3

-----------------------------------------------------------------------------
(* Statements.                                                                   *)
LEMMA SameIs == ASSUME NEW h, NEW a, NEW f, Gives(h, a, f) PROVE Same(Value(h, a), f)
BY DEF Gives, Same, Value, At

LEMMA AssignedIs ==
  ASSUME NEW what, NEW x, NEW res, Assign(what, x, res)
  PROVE  /\ done'.what = what /\ (done'.ok <=> res.ok)
         /\ res.ok => \A f : Gives(res.heap, res.array, f) => Same(Later(x), f)
<1>1. CASE ~res.ok
  BY <1>1 DEF Assign, Finish
<1>2. CASE res.ok
  <2> DEFINE bound == With(arrays, x, res.array)
             live == {bound[y].buffer : y \in DOMAIN bound}
  <2>1. done' = [what |-> what, ok |-> TRUE] /\ arrays' = bound /\ heap' = [b \in live |-> res.heap[b]]
    BY <1>2 DEF Assign, Finish
  <2>2. x \in DOMAIN bound /\ bound[x] = res.array
    BY DEF With
  <2> HIDE DEF bound
  <2>3. res.array.buffer \in live
    BY <2>2
  <2> HIDE DEF live
  <2>4. arrays'[x] = res.array /\ heap'[res.array.buffer] = res.heap[res.array.buffer]
    BY <2>1, <2>2, <2>3
  <2>5. ASSUME NEW f, Gives(res.heap, res.array, f) PROVE Same(Later(x), f)
    <3>1. Value(heap', res.array) = Value(res.heap, res.array)
      BY <2>4 DEF Value
    <3>2. Same(Value(res.heap, res.array), f)
      BY <2>5, SameIs
    <3> QED
      BY <2>4, <3>1, <3>2 DEF Later
  <2> QED
    BY <1>2, <2>1, <2>5
<1> QED
  BY <1>1, <1>2

LEMMA BindMeaning ==
  ASSUME IInv, NEW x \in Names, NEW o \in AnyOperand, Bind(x, o)
  PROVE  LastMeansWhatItSays
<1> DEFINE what == <<"bind", x, o>>
           res == Operand(heap, o)
<1>1. what[1] = "bind" /\ what[2] = x /\ what[3] = o
  OBVIOUS
<1>2. Assign(what, x, res)
  BY DEF Bind
<1>3. /\ ~res.ok => ~Legal(o) \/ Count(o) = 0
      /\ res.ok => Legal(o) /\ Gives(res.heap, res.array, Means(o))
  BY OperandAt, ChangesNothing, CountEmpty DEF IInv
<1> HIDE DEF what, res
<1>4. done'.what = what /\ (done'.ok <=> res.ok) /\ (res.ok => Same(Later(x), Means(o)))
  BY <1>2, <1>3, AssignedIs
<1>5. BindMeans(x, o)
  BY <1>3, <1>4 DEF BindMeans, Judge
<1> QED
  BY <1>1, <1>4, <1>5 DEF LastMeansWhatItSays

LEMMA ComputeMeaning ==
  ASSUME IInv, NEW x \in Names, NEW op \in Operators, NEW l \in AnyOperand, NEW r \in AnyOperand,
         NEW block \in Blocks, Compute(x, op, l, r, block)
  PROVE  LastMeansWhatItSays
<1> DEFINE what == <<"compute", x, op, l, r>>
           res == Binary(heap, op, l, r, block)
           m == Combined(op, Means(l), Means(r))
           legal == Legal(l) /\ Legal(r) /\ Combines(Means(l).shape, Means(r).shape)
<1>1. what[1] = "compute" /\ what[2] = x /\ what[3] = op /\ what[4] = l /\ what[5] = r
  OBVIOUS
<1>2. Assign(what, x, res)
  BY DEF Compute
<1>3. /\ ~res.ok => ~legal \/ 0 \in {Count(l), Count(r)}
      /\ res.ok => legal /\ (Exempt(l, r) \/ Gives(res.heap, res.array, m))
  BY BinaryAt, BlocksAre
<1> HIDE DEF what, res, m
<1>4. done'.what = what /\ (done'.ok <=> res.ok) /\ (res.ok /\ Gives(res.heap, res.array, m) => Same(Later(x), m))
  BY <1>2, <1>3, AssignedIs
<1>5. /\ ~done'.ok => ~legal \/ 0 \in {Count(l), Count(r)}
      /\ done'.ok => legal /\ (Exempt(l, r) \/ Same(Later(x), m))
  BY <1>3, <1>4
<1>6. ComputeMeans(x, op, l, r)
  BY <1>5 DEF ComputeMeans, Judge, Exempt, m
<1> QED
  BY <1>1, <1>4, <1>6 DEF LastMeansWhatItSays

(* A name as an operand.                                                         *)
LEMMA NameIs ==
  ASSUME IInv, NEW x \in DOMAIN arrays, NEW me, me = <<"name", x>>, NEW h
  PROVE  /\ me \in AnyOperand /\ me[1] = "name" /\ me[2] = x
         /\ IsView(me) /\ ViewOf(me) = arrays[x] /\ Means(me) = Now(x) /\ NameOf(me) = x
         /\ Operand(h, me).ok /\ Operand(h, me).heap = h /\ Operand(h, me).array = arrays[x]
<1>1. x \in Names
  BY DEF IInv
<1>2. me \in AnyOperand /\ me[1] = "name" /\ me[2] = x
  BY <1>1 DEF AnyOperand
<1>3. Operand(h, me) = Got(h, arrays[x])
  BY <1>2 DEF Operand
<1>4. Operand(h, me).ok /\ Operand(h, me).heap = h /\ Operand(h, me).array = arrays[x]
  BY <1>3 DEF Got
<1> QED
  BY <1>2, <1>4 DEF IsView, ViewOf, Means, Of, NameOf, Now

LEMMA UpdateMeaning ==
  ASSUME IInv, NEW x \in Names, NEW op \in Operators, NEW o \in AnyOperand, NEW block \in Blocks, Update(x, op, o, block)
  PROVE  LastMeansWhatItSays
<1> DEFINE what == <<"update", x, op, o>>
           right == Operand(heap, o)
           a == arrays[x]
           b == right.array
           h == right.heap
           res == Updated(op, a, right, block)
           m == Combined(op, Now(x), Means(o))
           legal == Legal(o) /\ Combines(Now(x).shape, Means(o).shape)
<1>1. what[1] = "update" /\ what[2] = x /\ what[3] = op /\ what[4] = o
  OBVIOUS
<1>2. Assign(what, x, res) /\ x \in DOMAIN arrays
  BY DEF Update
<1>3. PICK me : me = <<"name", x>>
  OBVIOUS
<1>4. /\ me \in AnyOperand /\ IsView(me) /\ ViewOf(me) = a /\ Means(me) = Now(x)
      /\ Operand(heap, me).ok /\ Operand(heap, me).heap = heap /\ Operand(heap, me).array = a
  BY <1>2, <1>3, NameIs
<1>5. block \in Nat \ {0} /\ op \in AnyOp
  BY BlocksAre, ReversedIs
<1> DEFINE exempt == Keeps(me, o) \/ (Overlap(a, o) /\ Count(o) # 1)
<1>6. /\ ~res.ok => ~legal \/ 0 \in {Count(o), Count(me)}
      /\ res.ok => legal /\ (exempt \/ Gives(res.heap, res.array, m))
  <2>1. CASE ~right.ok
    <3>1. res = Throw
      BY <2>1 DEF Updated
    <3>2. ~Legal(o) \/ Count(o) = 0
      BY <2>1, OperandAt, ChangesNothing, CountEmpty DEF IInv
    <3> QED
      BY <3>1, <3>2 DEF Throw
  <2>2. CASE right.ok
    <3>1. Both(me, o, h, a, b)
      BY <1>4, <2>2, BothAre
    <3>2. res = CompoundApply(h, op, a, b, block)
      BY <2>2 DEF Updated
    <3> HIDE DEF a, b, h, res, m, right
    <3>3. /\ Heap(h) /\ ViewIn(h, a) /\ ViewIn(h, b) /\ Gives(h, a, Now(x)) /\ Gives(h, b, Means(o)) /\ Legal(o)
          /\ Placing(a, me, b, o) /\ Shaped(a) /\ Shaped(b) /\ Now(x).shape = a.shape /\ Means(o).shape = b.shape
      BY <1>4, <3>1 DEF Both, Gives, ViewIn
    <3>4. CASE ~res.ok
      <4>1. ~Measured(a, b) \/ Refused(BroadcastShapes(a.shape, b.shape))
        BY <1>5, <3>2, <3>3, <3>4, CompoundAt
      <4>2. ~Combines(Now(x).shape, Means(o).shape) \/ Indices(Now(x).shape) = {} \/ Indices(Means(o).shape) = {}
        BY <3>3, <4>1, NotMeasured
      <4> QED
        BY <1>4, <3>4, <4>2, CountEmpty
    <3>5. CASE res.ok
      <4>1. Measured(a, b)
        BY <1>5, <3>2, <3>3, <3>5, CompoundAt
      <4>2. Combines(Now(x).shape, Means(o).shape) /\ Broadcastable(a.shape, b.shape)
        BY <3>3, <4>1, MeasuredIs DEF Measured
      <4>3. ASSUME ~exempt PROVE Gives(res.heap, res.array, m)
        <5>1. ~(Count(o) = 1 /\ Len(b.shape) > Len(a.shape))
          BY <1>4, <3>3, <4>3 DEF Keeps
        <5>2. ASSUME IsContiguous(a), Count(o) # 1 PROVE Clear(a, b)
          <6>1. ~(IsView(me) /\ Overlap(ViewOf(me), o))
            BY <1>4, <4>3, <5>2
          <6> QED
            BY <3>3, <5>2, <6>1, ClearIs
        <5>3. Elementwise(h, res, op, a, b)
          BY <1>5, <3>2, <3>3, <3>5, <5>1, <5>2, CompoundFor
        <5> QED
          BY <3>3, <4>2, <5>3, CombinedIs DEF m
      <4> QED
        BY <3>3, <3>5, <4>2, <4>3
    <3> QED
      BY <3>4, <3>5
  <2> QED
    BY <2>1, <2>2
<1> HIDE DEF what, res, m
<1>7. done'.what = what /\ (done'.ok <=> res.ok) /\ (res.ok /\ Gives(res.heap, res.array, m) => Same(Later(x), m))
  BY <1>2, <1>6, AssignedIs
<1>8. /\ ~done'.ok => ~legal \/ 0 \in {Count(o), Count(me)}
      /\ done'.ok => legal /\ (exempt \/ Same(Later(x), m))
  BY <1>6, <1>7
<1>9. UpdateMeans(x, op, o)
  BY <1>3, <1>8 DEF UpdateMeans, Judge, m
<1> QED
  BY <1>1, <1>7, <1>9 DEF LastMeansWhatItSays

LEMMA FinishedIs ==
  ASSUME NEW what, NEW res, Finish(what, res, arrays)
  PROVE  /\ done'.what = what /\ (done'.ok <=> res.ok)
         /\ res.ok => \A y \in DOMAIN arrays : /\ Value(heap', arrays[y]) = Value(res.heap, arrays[y])
                                               /\ Later(y) = Value(res.heap, arrays[y])
<1>1. CASE ~res.ok
  BY <1>1 DEF Finish
<1>2. CASE res.ok
  <2> DEFINE live == {arrays[y].buffer : y \in DOMAIN arrays}
  <2>1. done' = [what |-> what, ok |-> TRUE] /\ arrays' = arrays /\ heap' = [b \in live |-> res.heap[b]]
    BY <1>2 DEF Finish
  <2>2. ASSUME NEW y \in DOMAIN arrays
        PROVE  Value(heap', arrays[y]) = Value(res.heap, arrays[y]) /\ Later(y) = Value(res.heap, arrays[y])
    <3>1. arrays[y].buffer \in live
      OBVIOUS
    <3> HIDE DEF live
    <3>2. heap'[arrays[y].buffer] = res.heap[arrays[y].buffer] /\ arrays'[y] = arrays[y]
      BY <2>1, <3>1
    <3> QED
      BY <3>2 DEF Value, Later
  <2> QED
    BY <1>2, <2>1, <2>2
<1> QED
  BY <1>1, <1>2

LEMMA IntoMeaning ==
  ASSUME IInv, NEW x \in Names, NEW y \in Names, NEW z \in Names, NEW op \in Operators,
         NEW block \in Blocks, Into(x, op, y, z, block)
  PROVE  LastMeansWhatItSays
<1>1. PICK l : l = <<"name", y>>
  OBVIOUS
<1>2. PICK r : r = <<"name", z>>
  OBVIOUS
<1> DEFINE what == <<"into", x, op, l, r>>
           to == arrays[x]
           a == arrays[y]
           b == arrays[z]
           res == BinaryOpInto(heap, op, to, a, b, block)
           m == Combined(op, Means(l), Means(r))
           legal == Combines(Means(l).shape, Means(r).shape) /\ m.shape = Now(x).shape /\ IsContiguous(to)
           exempt == (Overlap(to, l) /\ ~ReadOnce(to, l, r)) \/ (Overlap(to, r) /\ ~ReadOnce(to, r, l))
<1>3. what[1] = "into" /\ what[2] = x /\ what[3] = op /\ what[4] = l /\ what[5] = r
  OBVIOUS
<1>4. Finish(what, res, arrays) /\ x \in DOMAIN arrays /\ y \in DOMAIN arrays /\ z \in DOMAIN arrays
  BY <1>1, <1>2 DEF Into
<1>5. /\ IsView(l) /\ ViewOf(l) = a /\ Means(l) = Now(y) /\ NameOf(l) = y
      /\ IsView(r) /\ ViewOf(r) = b /\ Means(r) = Now(z) /\ NameOf(r) = z
  BY <1>1, <1>2, <1>4, NameIs
<1>6. /\ Heap(heap) /\ ViewIn(heap, to) /\ ViewIn(heap, a) /\ ViewIn(heap, b)
      /\ Shaped(a) /\ Shaped(b) /\ a.shape \in Seq(Nat) /\ b.shape \in Seq(Nat)
  BY <1>4 DEF IInv, AllIn, ViewIn, Shaped, Views
<1>7. /\ Gives(heap, a, Means(l)) /\ Gives(heap, b, Means(r)) /\ Now(x).shape = to.shape
      /\ Means(l).shape = a.shape /\ Means(r).shape = b.shape
  BY <1>5, ValueGives DEF Now, Value
<1>8. block \in Nat \ {0} /\ op \in AnyOp
  BY BlocksAre, ReversedIs
<1>9. m.shape = BroadcastShapes(a.shape, b.shape)
  BY <1>7 DEF Combined
<1>10. legal <=> Measured(a, b) /\ to.shape = BroadcastShapes(a.shape, b.shape) /\ IsContiguous(to)
  BY <1>6, <1>7, <1>9, MeasuredIs
<1> HIDE DEF to, a, b, res, m, what
<1>11. /\ ~res.ok => ~legal \/ Refused(to.shape)
       /\ res.ok => legal /\ res.array = to
       /\ res.ok /\ (Clear(to, a) \/ Once(to, a, b)) /\ (Clear(to, b) \/ Once(to, b, a))
            => Elementwise(heap, res, op, a, b)
  BY <1>6, <1>8, <1>10, IntoAt DEF res
<1>12. ~res.ok => ~legal \/ 0 \in {Count(l), Count(r)}
  <2>1. ASSUME legal, Refused(to.shape) PROVE 0 \in {Count(l), Count(r)}
    <3>1. Broadcastable(a.shape, b.shape) /\ Refused(BroadcastShapes(a.shape, b.shape))
      BY <1>10, <2>1 DEF Measured
    <3>2. Indices(a.shape) = {} \/ Indices(b.shape) = {}
      BY <1>6, <3>1, EmptyIs
    <3> QED
      BY <1>7, <3>2, CountEmpty
  <2> QED
    BY <1>11, <2>1
<1>13. ASSUME res.ok, ~exempt PROVE Gives(res.heap, res.array, m)
  <2>1. Measured(a, b) /\ IsContiguous(to)
    BY <1>10, <1>11, <1>13
  <2>2. Broadcastable(a.shape, b.shape) /\ Size(a) # TooLarge /\ Size(b) # TooLarge
    BY <2>1 DEF Measured, Unsized
  <2>3. Count(l) = Size(a) /\ Count(r) = Size(b)
    BY <1>6, <1>7, <2>2, CountSize
  <2>4. ~Overlap(to, l) => Clear(to, a)
    BY <1>5, <2>1 DEF Overlap, Sources, Clear
  <2>5. ~Overlap(to, r) => Clear(to, b)
    BY <1>5, <2>1 DEF Overlap, Sources, Clear
  <2>6. (ReadOnce(to, l, r) => Once(to, a, b)) /\ (ReadOnce(to, r, l) => Once(to, b, a))
    BY <1>5, <2>3 DEF ReadOnce, Once, a, b
  <2>7. Elementwise(heap, res, op, a, b)
    BY <1>11, <1>13, <2>4, <2>5, <2>6
  <2> QED
    BY <1>6, <1>7, <2>2, <2>7, CombinedIs DEF m
<1>14. done'.what = what /\ (done'.ok <=> res.ok) /\ (res.ok /\ Gives(res.heap, res.array, m) => Same(Later(x), m))
  BY <1>4, <1>11, FinishedIs, SameIs DEF to
<1>15. /\ ~done'.ok => ~legal \/ 0 \in {Count(l), Count(r)}
       /\ done'.ok => legal /\ (exempt \/ Same(Later(x), m))
  BY <1>11, <1>12, <1>13, <1>14
<1>16. IntoMeans(x, op, l, r)
  BY <1>15 DEF IntoMeans, Judge, m, to
<1> QED
  BY <1>3, <1>14, <1>16 DEF LastMeansWhatItSays

LEMMA ItemMeaning ==
  ASSUME IInv, NEW x \in Names, NEW at \in Seq(Int), NEW v \in Elements, SetItem(x, at, v)
  PROVE  LastMeansWhatItSays
<1> DEFINE what == <<"item", x, at, v>>
           a == arrays[x]
           n == Len(a.shape)
           from == [i \in DOMAIN at |-> Bound(at[i], a.shape[i])]
           inside == Len(at) = Len(a.shape) /\ \A i \in DOMAIN at : from[i] \in 0 .. a.shape[i] - 1
           put == Put(heap, Cell(a, Position(a, from)), v)
           res == IF inside THEN Got(put, a) ELSE Throw
           chosen == {ix \in Indices(a.shape) : Len(ix) = Len(at) /\ \A i \in DOMAIN ix : at[i] \in {ix[i], ix[i] - a.shape[i]}}
<1>1. Finish(what, res, arrays) /\ x \in DOMAIN arrays
  BY DEF SetItem
<1>2. what[1] = "item" /\ what[2] = x /\ what[3] = at /\ what[4] = v
  OBVIOUS
<1>3. Heap(heap) /\ ViewIn(heap, a) /\ Shaped(a) /\ a.shape \in Seq(Nat)
  BY <1>1 DEF IInv, AllIn, ViewIn, Shaped, Views
<1> HIDE DEF what, a
<1>4. n \in Nat /\ \A i \in 1 .. n : a.shape[i] \in Nat
  BY <1>3
<1>5. ASSUME inside PROVE from \in chosen
  <2>1. DOMAIN at = 1 .. n /\ DOMAIN from = 1 .. n /\ \A i \in 1 .. n : at[i] \in Int
    BY <1>5
  <2>2. \A i \in 1 .. n : from[i] \in 0 .. a.shape[i] - 1 /\ from[i] = Bound(at[i], a.shape[i])
    BY <1>5, <2>1
  <2>3. from = [i \in 1 .. n |-> from[i]]
    BY <2>1
  <2> HIDE DEF from, n
  <2>4. \A i \in 1 .. n : from[i] \in Nat /\ from[i] < a.shape[i] /\ at[i] \in {from[i], from[i] - a.shape[i]}
    <3>1. ASSUME NEW i \in 1 .. n PROVE from[i] \in Nat /\ from[i] < a.shape[i] /\ at[i] \in {from[i], from[i] - a.shape[i]}
      <4>1. PICK d \in Nat : d = a.shape[i]
        BY <1>4
      <4>2. PICK k \in Int : k = at[i]
        BY <2>1
      <4>3. from[i] \in 0 .. d - 1 /\ from[i] = IF k < 0 THEN k + d ELSE k
        BY <2>2, <4>1, <4>2 DEF Bound
      <4>4. k \in {from[i], from[i] - d}
        BY <4>3
      <4> QED
        BY <4>1, <4>2, <4>3, <4>4
    <3> QED
      BY <3>1
  <2>5. from \in [1 .. n -> Nat]
    BY <2>3, <2>4
  <2>6. from \in Indices(a.shape)
    BY <1>3, <2>4, <2>5, IndicesAre DEF n
  <2>7. Len(from) = Len(at)
    BY <1>3, <1>5, <2>6, IndexSeq
  <2> QED
    BY <2>1, <2>4, <2>6, <2>7
<1>6. ASSUME NEW ix \in chosen PROVE inside /\ ix = from
  <2>1. /\ ix \in [1 .. n -> Nat] /\ Len(ix) = n /\ Len(ix) = Len(at)
        /\ \A i \in 1 .. n : ix[i] \in Nat /\ ix[i] < a.shape[i] /\ at[i] \in {ix[i], ix[i] - a.shape[i]}
    <3>1. ix \in Indices(a.shape)
      OBVIOUS
    <3>2. ix \in [1 .. n -> Nat] /\ Len(ix) = n /\ \A i \in 1 .. n : ix[i] \in Nat /\ ix[i] < a.shape[i]
      BY <1>3, <3>1, IndicesAre, IndexSeq
    <3> QED
      BY <3>2
  <2>2. DOMAIN at = 1 .. n
    BY <2>1
  <2>3. ASSUME NEW i \in 1 .. n PROVE Bound(at[i], a.shape[i]) = ix[i] /\ ix[i] \in 0 .. a.shape[i] - 1
    <3>1. PICK d \in Nat : d = a.shape[i]
      BY <1>4
    <3>2. PICK k \in Nat : k = ix[i]
      BY <2>1
    <3>3. k < d /\ at[i] \in {k, k - d}
      BY <2>1, <3>1, <3>2
    <3>4. (IF at[i] < 0 THEN at[i] + d ELSE at[i]) = k /\ k \in 0 .. d - 1
      BY <3>3
    <3> QED
      BY <3>1, <3>2, <3>4 DEF Bound
  <2>4. from = [i \in 1 .. n |-> ix[i]]
    BY <2>2, <2>3
  <2>5. ix = from
    BY <2>1, <2>4
  <2> HIDE DEF from
  <2> QED
    BY <2>1, <2>2, <2>3, <2>5
<1>7. inside <=> chosen # {}
  BY <1>5, <1>6
<1>8. res.ok <=> inside
  BY DEF Got, Throw
<1>9. ASSUME inside PROVE Value(res.heap, a).at[from] = v
  <2>1. from \in Indices(a.shape)
    BY <1>5, <1>9
  <2>2. res.heap = put
    BY <1>9 DEF Got
  <2> HIDE DEF from
  <2> DEFINE p == Position(a, from) + 1
  <2>3. a.buffer \in DOMAIN heap /\ p \in 1 .. Len(heap[a.buffer]) /\ heap[a.buffer] \in Seq(Elements)
    BY <1>3, <2>1 DEF ViewIn, Heap
  <2>4. put = [heap EXCEPT ![a.buffer][p] = v]
    BY DEF Put, Cell
  <2> HIDE DEF p
  <2>5. put[a.buffer][p] = v
    BY <2>3, <2>4
  <2> HIDE DEF put, inside
  <2>6. Value(res.heap, a).at[from] = res.heap[a.buffer][p]
    BY <2>1 DEF Value, p
  <2> QED
    BY <2>2, <2>5, <2>6
<1> HIDE DEF res, inside, from
<1>10. done'.what = what /\ (done'.ok <=> res.ok) /\ (res.ok => Later(x) = Value(res.heap, a))
  BY <1>1, FinishedIs DEF a
<1>11. Now(x).shape = a.shape
  BY DEF Now, Value, a
<1>12. ItemMeans(x, at, v)
  <2>1. done'.ok <=> chosen # {}
    BY <1>7, <1>8, <1>10
  <2>2. ASSUME done'.ok, NEW ix \in chosen PROVE Later(x).at[ix] = v
    BY <1>6, <1>8, <1>9, <1>10, <2>2
  <2>3. done'.ok \in BOOLEAN
    <3>1. done' = [what |-> what, ok |-> FALSE] \/ done' = [what |-> what, ok |-> TRUE]
      BY <1>1, Zenon DEF Finish
    <3>2. CASE done' = [what |-> what, ok |-> FALSE]
      BY <3>2, Zenon
    <3>3. CASE done' = [what |-> what, ok |-> TRUE]
      BY <3>3, Zenon
    <3> QED
      BY <3>1, <3>2, <3>3, Zenon
  <2> QED
    BY <1>11, <2>1, <2>2, <2>3 DEF ItemMeans
<1> QED
  BY <1>2, <1>10, <1>12 DEF LastMeansWhatItSays

-----------------------------------------------------------------------------
(* A slice that is assigned to.                                                  *)
LEMMA PutRead ==
  ASSUME NEW h, Heap(h), NEW b \in DOMAIN h, NEW p \in 1 .. Len(h[b]), NEW e,
         NEW c \in DOMAIN h, NEW q \in 1 .. Len(h[c])
  PROVE  Read(Put(h, <<"cell", b, p>>, e), <<"cell", c, q>>) = IF b = c /\ p = q THEN e ELSE Read(h, <<"cell", c, q>>)
<1> DEFINE g == Put(h, <<"cell", b, p>>, e)
<1>1. h[b] \in Seq(Elements)
  BY DEF Heap
<1>2. DOMAIN h[b] = 1 .. Len(h[b])
  BY <1>1
<1>3. g = [h EXCEPT ![b][p] = e]
  BY DEF Put
<1>4. Read(g, <<"cell", c, q>>) = g[c][q] /\ Read(h, <<"cell", c, q>>) = h[c][q]
  BY DEF Read
<1> HIDE DEF g
<1>5. g[c][q] = IF b = c /\ p = q THEN e ELSE h[c][q]
  BY <1>2, <1>3
<1> QED
  BY <1>4, <1>5 DEF g

Apart(t, C) == \A b, p : t = <<"cell", b, p>> => <<b, p - 1>> \notin C
(* The kth of the cells copied to is none of the others, nor is what it gets changed. *)
Lands(h, to, from, n, k, C) ==
  /\ k \in 1 .. n /\ Len(to) = n /\ Terms(h, from, n) /\ Apart(from[k], C)
  /\ \A j \in 1 .. n : Writable(h, to[j], C) /\ (to[j] = to[k] => j = k)
LEMMA CopyInAt ==
  ASSUME NEW h, Heap(h), NEW to, NEW n \in Nat, NEW from, NEW C, NEW k, Lands(h, to, from, n, k, C)
  PROVE  Read(CopyIn(h, to, from), to[k]) = Read(h, from[k])
<1> USE DEF Lands
<1>0. PICK g : CopyRun(h, to, from, n, C, g)
  BY CopyInRuns
<1>1. /\ g[0] = h /\ g[n] = CopyIn(h, to, from)
      /\ \A j \in 1 .. n : g[j] = CopyOne(g[j - 1], to[j], from[j])
      /\ \A j \in 0 .. n : Heap(g[j]) /\ Changes(h, g[j], C)
  BY <1>0 DEF CopyRun
<1> DEFINE T == {j \in 0 .. n : k <= j => Read(g[j], to[k]) = Read(h, from[k])}
<1>2. 0 \in T
  OBVIOUS
<1>3. ASSUME NEW j \in 1 .. n, j - 1 \in T PROVE j \in T
  <2>1. j - 1 \in 0 .. n /\ j \in 0 .. n
    OBVIOUS
  <2>2. Heap(g[j - 1]) /\ Changes(h, g[j - 1], C) /\ g[j] = Put(g[j - 1], to[j], Read(g[j - 1], from[j]))
    BY <1>1, <2>1 DEF CopyOne
  <2>3. PICK b \in DOMAIN h : \E p \in 1 .. Len(h[b]) : to[j] = <<"cell", b, p>>
    BY DEF Writable
  <2>4. PICK p \in 1 .. Len(h[b]) : to[j] = <<"cell", b, p>>
    BY <2>3
  <2>5. PICK c \in DOMAIN h : \E q \in 1 .. Len(h[c]) : to[k] = <<"cell", c, q>>
    BY DEF Writable
  <2>6. PICK q \in 1 .. Len(h[c]) : to[k] = <<"cell", c, q>>
    BY <2>5
  <2>7. /\ b \in DOMAIN g[j - 1] /\ p \in 1 .. Len(g[j - 1][b])
        /\ c \in DOMAIN g[j - 1] /\ q \in 1 .. Len(g[j - 1][c])
    BY <2>2 DEF Changes
  <2>8. Read(g[j], to[k]) = IF b = c /\ p = q THEN Read(g[j - 1], from[j]) ELSE Read(g[j - 1], to[k])
    BY <2>2, <2>4, <2>6, <2>7, PutRead
  <2>9. CASE j = k
    <3>1. b = c /\ p = q
      BY <2>4, <2>6, <2>9
    <3>2. Readable(h, from[k])
      BY DEF Terms
    <3>3. Read(g[j - 1], from[k]) = Read(h, from[k])
      BY <2>2, <3>2, ReadKept DEF Apart
    <3> QED
      BY <2>1, <2>8, <2>9, <3>1, <3>3
  <2>10. CASE j # k
    <3>1. ~(b = c /\ p = q)
      BY <2>4, <2>6, <2>10
    <3>2. k <= j => k <= j - 1
      BY <2>10
    <3>3. k <= j => Read(g[j - 1], to[k]) = Read(h, from[k])
      BY <1>3, <3>2
    <3> QED
      BY <2>1, <2>8, <3>1, <3>3
  <2> QED
    BY <2>9, <2>10
<1> HIDE DEF T
<1>4. \A j \in 0 .. n : j \in T
  BY <1>2, <1>3, Counting
<1>5. n \in 0 .. n /\ k <= n
  OBVIOUS
<1> QED
  BY <1>1, <1>4, <1>5 DEF T

LEMMA FilledCell ==
  ASSUME NEW h, Heap(h), NEW v, ViewIn(h, v), Size(v) # TooLarge, ~Aliased(v), NEW from, Terms(h, from, Size(v)),
         NEW ix \in Indices(v.shape), Apart(from[Rank(v.shape, ix) + 1], CellsOf(v))
  PROVE  At(CopyIn(h, Walked(v), from), v, ix) = Read(h, from[Rank(v.shape, ix) + 1])
<1> DEFINE k == Rank(v.shape, ix) + 1
           n == Size(v)
           to == Walked(v)
<1>1. Shaped(v) /\ v.shape \in Seq(Nat)
  BY DEF ViewIn, Shaped, Views
<1>2. k \in 1 .. n /\ to[k] = Cell(v, Position(v, ix)) /\ Rank(v.shape, ix) \in Nat
  BY <1>1, WalkedAt, WalkAt DEF Size
<1>3. /\ n \in Nat /\ Len(to) = n
      /\ \A j \in 1 .. n : Writable(h, to[j], CellsOf(v))
  BY WalkedWritable
<1>4. ASSUME NEW j \in 1 .. n, to[j] = to[k] PROVE j = k
  <2> DEFINE jx == Walk(v.shape)[j]
  <2>1. jx \in Indices(v.shape) /\ Rank(v.shape, jx) = j - 1
    BY <1>1, WalkIs DEF Size
  <2>2. Rank(v.shape, jx) + 1 = j
    BY <1>3, <2>1
  <2>3. to[j] = Cell(v, Position(v, jx))
    <3>1. to[Rank(v.shape, jx) + 1] = Cell(v, Position(v, jx))
      BY <1>1, <2>1, WalkedAt
    <3> QED
      BY <2>2, <3>1
  <2> HIDE DEF jx
  <2>4. Position(v, jx) \in Nat /\ Position(v, ix) \in Nat
    BY <1>1, <2>1, PositionNat
  <2>5. Position(v, jx) + 1 = Position(v, ix) + 1
    BY <1>2, <1>4, <2>3 DEF Cell
  <2>6. jx = ix
    BY <2>1, <2>4, <2>5 DEF Aliased
  <2> QED
    BY <2>2, <2>6
<1>6. Terms(h, from, n) /\ Apart(from[k], CellsOf(v))
  OBVIOUS
<1> HIDE DEF k, n, to
<1>5. n \in Nat /\ Lands(h, to, from, n, k, CellsOf(v))
  BY <1>2, <1>3, <1>4, <1>6 DEF Lands
<1>7. Read(CopyIn(h, to, from), to[k]) = Read(h, from[k])
  BY <1>5, CopyInAt
<1> QED
  BY <1>2, <1>7, CellRead DEF At, k, to

(* What may be assigned to a slice of the given shape.                           *)
Assignable(o, shape) == Legal(o) /\ Sizable(shape) /\ (Fits(Means(o).shape, shape) \/ Indices(shape) = {})
LEMMA FilledAt ==
  ASSUME Heap(heap), AllIn(heap), NEW x \in DOMAIN arrays, NEW o \in AnyOperand,
         NEW dst, dst.ok, NEW v, v = dst.array, ViewIn(heap, v)
  PROVE  LET r == Filled(arrays[x], dst, Operand(heap, o), IsScalar(o)) IN
           /\ ~r.ok => ~Assignable(o, v.shape) \/ Indices(Means(o).shape) = {}
           /\ r.ok => /\ Assignable(o, v.shape)
                      /\ (IsView(o) /\ CellsOf(v) \intersect Sources(o) # {}) \/ Aliased(v)
                         \/ Gives(r.heap, v, Stretch(Means(o), v.shape))
<1> DEFINE a == arrays[x]
           src == Operand(heap, o)
           b == src.array
           g == src.heap
           m == Means(o)
           w == BroadcastTo(b, v.shape)
           n == Size(v)
           from == IF IsScalar(o) THEN Repeated(g, b, n) ELSE Walked(w)
           r == Filled(a, dst, src, IsScalar(o))
           f == Stretch(m, v.shape)
<1>1. /\ ~src.ok => ~Legal(o) \/ Indices(m.shape) = {}
      /\ src.ok => /\ Legal(o) /\ Gives(g, b, m)
                   /\ IF IsView(o) THEN g = heap /\ b = ViewOf(o) ELSE b.buffer \notin DOMAIN heap
  BY OperandAt, ChangesNothing
<1>2. Shaped(v) /\ v.shape \in Seq(Nat)
  BY DEF ViewIn, Shaped, Views
<1>3. Sizable(v.shape) <=> n # TooLarge
  BY <1>2 DEF Sizable, ToSize, Size
<1>4. r = IF ~src.ok \/ n = TooLarge THEN Throw
          ELSE IF Refused(v.shape) THEN Got(heap, a)
          ELSE IF ~CanStretch(b, v.shape) THEN Throw
          ELSE Got(CopyIn(g, Walked(v), from), a)
  BY DEF Filled
<1>5. f.shape = v.shape /\ \A ix \in Indices(v.shape) : f.at[ix] = m.at[Pull(ix, m.shape)]
  BY DEF Stretch
<1>6. src.ok => Good(heap, src, {})
  BY OperandIs
<1>7. IsScalar(o) => Size(b) = 1 /\ ~IsView(o)
  BY ScalarOperand DEF IsScalar, IsView
<1> HIDE DEF r, f, m, n, a, src
<1>8. CASE ~src.ok \/ n = TooLarge
  <2>1. ~r.ok
    BY <1>4, <1>8 DEF Throw
  <2> QED
    BY <1>1, <1>3, <1>8, <2>1 DEF Assignable, r, m, n, a, src
<1>9. ASSUME src.ok, n # TooLarge
      PROVE  /\ Heap(g) /\ Changes(heap, g, {}) /\ ViewIn(g, b) /\ Shaped(b) /\ b.shape = m.shape /\ Gives(g, b, m)
             /\ Fits(m.shape, v.shape) <=> CanStretch(b, v.shape)
  <2>1. Heap(g) /\ Changes(heap, g, {}) /\ ViewIn(g, b)
    BY <1>6, <1>9 DEF Good
  <2>2. Shaped(b) /\ b.shape = m.shape
    BY <1>1, <1>9, <2>1 DEF ViewIn, Gives
  <2>3. Fits(b.shape, v.shape) <=> CanStretch(b, v.shape)
    BY <1>2, <2>2, FitsIs
  <2> QED
    BY <1>1, <1>9, <2>1, <2>2, <2>3
<1>10. CASE src.ok /\ n # TooLarge /\ Refused(v.shape)
  <2>1. r.ok
    BY <1>4, <1>10 DEF Got
  <2>2. Indices(v.shape) = {}
    BY <1>2, <1>10, RefusedIs
  <2>3. Assignable(o, v.shape) /\ Gives(r.heap, v, f)
    BY <1>1, <1>3, <1>5, <1>10, <2>2 DEF Assignable, Gives
  <2> QED
    BY <2>1, <2>3 DEF r, f, m, a, src
<1>11. CASE src.ok /\ n # TooLarge /\ ~Refused(v.shape) /\ ~CanStretch(b, v.shape)
  <2>1. ~r.ok
    BY <1>4, <1>11 DEF Throw
  <2>2. Indices(v.shape) # {} /\ ~Fits(m.shape, v.shape)
    BY <1>2, <1>9, <1>11, RefusedIs
  <2> QED
    BY <2>1, <2>2 DEF Assignable, r, m, a, src
<1>12. CASE src.ok /\ n # TooLarge /\ ~Refused(v.shape) /\ CanStretch(b, v.shape)
  <2>1. r.ok /\ r.heap = CopyIn(g, Walked(v), from)
    BY <1>4, <1>12 DEF Got
  <2>2. Assignable(o, v.shape)
    BY <1>1, <1>3, <1>9, <1>12 DEF Assignable, m
  <2>3. /\ Heap(g) /\ Changes(heap, g, {}) /\ ViewIn(g, b) /\ Shaped(b) /\ b.shape = m.shape /\ Gives(g, b, m)
        /\ ViewIn(g, v)
    BY <1>9, <1>12, ViewKept
  <2>4. ViewIn(g, w) /\ w.shape = v.shape /\ w.buffer = b.buffer /\ Size(w) = n
    <3>1. Inside(g, b, w) /\ w.shape = v.shape
      BY <1>2, <1>12, <2>3, StretchIs
    <3>2. w.buffer = b.buffer
      BY DEF BroadcastTo
    <3> HIDE DEF w
    <3> QED
      BY <3>1, <3>2 DEF Inside, Size, n
  <2>5. n \in Nat
    BY <1>2, <1>12, SizeNat DEF Size, n
  <2>6. Terms(g, from, n)
    <3>1. CASE IsScalar(o)
      BY <1>7, <2>3, <2>5, <3>1, RepeatedIs
    <3>2. CASE ~IsScalar(o)
      <4> HIDE DEF w
      <4> QED
        BY <1>12, <2>4, <3>2, WalkedIs DEF Terms
    <3> QED
      BY <3>1, <3>2
  <2>7. ASSUME ~(IsView(o) /\ CellsOf(v) \intersect Sources(o) # {}), ~Aliased(v), NEW ix \in Indices(v.shape)
        PROVE  At(r.heap, v, ix) = f.at[ix]
    <3> DEFINE k == Rank(v.shape, ix) + 1
               jx == Pull(ix, b.shape)
    <3>1. jx \in Indices(b.shape) /\ At(g, w, ix) = At(g, b, jx) /\ Position(w, ix) = Position(b, jx)
      BY <1>2, <1>12, <2>3, StretchedAt, StretchedIs DEF Pulled
    <3>2. k \in 1 .. n
      BY <1>2, <1>12, WalkedAt DEF n
    <3>3. Read(g, from[k]) = At(g, b, jx) /\ Apart(from[k], CellsOf(v))
      <4>1. CASE IsScalar(o)
        <5> HIDE DEF k, jx
        <5>1. from[k] = Repeated(g, b, n)[k]
          BY <4>1
        <5>2. Read(g, from[k]) = At(g, b, jx)
          BY <1>7, <2>3, <3>1, <3>2, <4>1, <5>1, RepeatedRead
        <5>3. from[k] = <<"value", Read(g, Cell(b, b.offset))>>
          BY <3>2, <5>1 DEF Repeated
        <5>4. from[k][1] # "cell"
          BY <5>3
        <5>5. Apart(from[k], CellsOf(v))
          BY <5>4 DEF Apart
        <5> QED
          BY <5>2, <5>5
      <4>2. CASE ~IsScalar(o)
        <5>1. from[k] = Walked(w)[k]
          BY <4>2
        <5> HIDE DEF w, from, jx
        <5>2. Shaped(w) /\ Size(w) # TooLarge /\ ix \in Indices(w.shape)
          BY <1>12, <2>4 DEF ViewIn
        <5>3. Read(g, Walked(w)[k]) = At(g, w, ix) /\ Walked(w)[k] = Cell(w, Position(w, ix))
          BY <2>4, <5>2, ListRead, WalkedAt
        <5> HIDE DEF k
        <5>4. Position(b, jx) \in Nat
          BY <2>3, <3>1, PositionNat DEF Shaped, Views
        <5>5. from[k] = <<"cell", b.buffer, Position(b, jx) + 1>>
          BY <2>4, <3>1, <5>1, <5>3 DEF Cell
        <5>6. <<b.buffer, Position(b, jx)>> \notin CellsOf(v)
          <6>1. <<b.buffer, Position(b, jx)>> \in CellsOf(b)
            BY <3>1 DEF CellsOf
          <6>2. CASE IsView(o)
            BY <1>1, <1>12, <2>7, <6>1, <6>2 DEF Sources
          <6>3. CASE ~IsView(o)
            <7>1. b.buffer # v.buffer
              BY <1>1, <1>12, <6>3 DEF ViewIn
            <7> QED
              BY <6>1, <7>1, BuffersApart
          <6> QED
            BY <6>2, <6>3
        <5>7. ASSUME NEW c, NEW p, from[k] = <<"cell", c, p>> PROVE <<c, p - 1>> \notin CellsOf(v)
          <6>1. c = b.buffer /\ p = Position(b, jx) + 1
            BY <5>5, <5>7
          <6>2. p - 1 = Position(b, jx)
            BY <5>4, <6>1
          <6> QED
            BY <5>6, <6>1, <6>2
        <5>8. Apart(from[k], CellsOf(v))
          BY <5>7 DEF Apart
        <5> QED
          BY <3>1, <5>1, <5>3, <5>8
      <4> QED
        BY <4>1, <4>2
    <3> HIDE DEF from, w, jx
    <3>4. At(r.heap, v, ix) = Read(g, from[k])
      BY <1>12, <2>1, <2>3, <2>6, <2>7, <3>3, FilledCell DEF n
    <3>5. f.at[ix] = At(g, b, jx)
      BY <1>5, <2>3, <2>7, <3>1 DEF Gives, jx
    <3> QED
      BY <3>3, <3>4, <3>5
  <2>8. (IsView(o) /\ CellsOf(v) \intersect Sources(o) # {}) \/ Aliased(v) \/ Gives(r.heap, v, f)
    BY <1>5, <2>7 DEF Gives
  <2> QED
    BY <2>1, <2>2, <2>8 DEF r, f, m, a, src
<1> QED
  BY <1>8, <1>10, <1>11, <1>12

LEMMA FillMeaning ==
  ASSUME IInv, NEW x \in Names, NEW lo \in Int, NEW hi \in Int, NEW o \in AnyOperand, Fill(x, lo, hi, o)
  PROVE  LastMeansWhatItSays
<1> DEFINE what == <<"fill", x, lo, hi, o>>
           a == arrays[x]
           dst == Slice(heap, a, lo, hi)
           v == dst.array
           res == Filled(a, dst, Operand(heap, o), IsScalar(o))
           before == SliceMeans(Value(heap, a), lo, hi)
           after == SliceMeans(Value(res.heap, a), lo, hi)
           exempt == (IsView(o) /\ CellsOf(v) \intersect Sources(o) # {}) \/ Aliased(v)
           f == Stretch(Means(o), before.shape)
           legal == a.shape # <<>> /\ Assignable(o, before.shape)
<1>1. Finish(what, res, arrays) /\ x \in DOMAIN arrays
  BY DEF Fill
<1>2. what[1] = "fill" /\ what[2] = x /\ what[3] = lo /\ what[4] = hi /\ what[5] = o
  OBVIOUS
<1>3. Heap(heap) /\ AllIn(heap) /\ ViewIn(heap, a)
  BY <1>1 DEF IInv, AllIn
<1>4. /\ dst.ok <=> a.shape # <<>>
      /\ dst.ok => Gives(heap, v, before) /\ v.shape = before.shape
  <2>1. /\ dst.ok <=> a.shape # <<>>
        /\ dst.ok => Gives(heap, v, before)
    BY <1>3, SliceAt
  <2>2. ASSUME NEW w, NEW m, Gives(heap, w, m) PROVE w.shape = m.shape
    BY <2>2 DEF Gives
  <2> HIDE DEF dst, v, before
  <2> QED
    BY <2>1, <2>2
<1>5. dst.ok => ViewIn(heap, v)
  BY <1>3, SliceIs DEF Inside
<1>6. ~dst.ok => ~res.ok
  BY DEF Filled, Throw
<1>7. ASSUME dst.ok
      PROVE  /\ ~res.ok => ~Assignable(o, v.shape) \/ Indices(Means(o).shape) = {}
             /\ res.ok => Assignable(o, v.shape) /\ (exempt \/ Gives(res.heap, v, Stretch(Means(o), v.shape)))
  BY <1>1, <1>3, <1>5, <1>7, FilledAt
<1>8. Good(heap, res, CellsOf(v))
  BY <1>1, <1>3, FilledIs
<1>9. ASSUME res.ok, dst.ok PROVE Gives(res.heap, v, after)
  <2> DEFINE g == res.heap
  <2> HIDE DEF res
  <2>1. ViewIn(g, a)
    BY <1>3, <1>8, <1>9, ViewKept DEF Good
  <2>2. Slice(g, a, lo, hi).array = v
    BY <1>4, <1>9 DEF Slice, Got
  <2>3. Slice(g, a, lo, hi).ok
    BY <1>4, <1>9, <2>1, SliceAt
  <2> HIDE DEF g, v
  <2>4. Gives(g, Slice(g, a, lo, hi).array, SliceMeans(Value(g, a), lo, hi))
    BY <2>1, <2>3, SliceAt
  <2> QED
    BY <2>2, <2>4 DEF g
<1>10. DOMAIN after.at = Indices(after.shape)
  BY DEF SliceMeans
<1> HIDE DEF res, v, before, after, what, f, dst, a
<1>11. ASSUME res.ok, ~exempt PROVE Same(after, f)
  <2>1. dst.ok
    BY <1>6, <1>11
  <2>2. Gives(res.heap, v, f) /\ Gives(res.heap, v, after)
    BY <1>4, <1>7, <1>9, <1>11, <2>1 DEF f
  <2> QED
    BY <1>10, <2>2 DEF Gives, Same
<1>12. /\ ~res.ok => ~legal \/ Count(o) = 0
       /\ res.ok => legal
  BY <1>4, <1>6, <1>7, CountEmpty
<1>13. done'.what = what /\ (done'.ok <=> res.ok) /\ (res.ok => Later(x) = Value(res.heap, a))
  BY <1>1, FinishedIs DEF a
<1>14. res.ok => SliceMeans(Later(x), lo, hi) = after
  BY <1>13 DEF after
<1>15. /\ ~done'.ok => ~legal \/ Count(o) = 0
       /\ done'.ok => legal /\ (exempt \/ Same(SliceMeans(Later(x), lo, hi), f))
  BY <1>11, <1>12, <1>13, <1>14
<1>16. Now(x) = Value(heap, a) /\ Now(x).shape = a.shape
  BY DEF Now, Value, a
<1>17. SliceMeans(Now(x), lo, hi).shape = before.shape /\ Slice(heap, arrays[x], lo, hi).array = v
  BY <1>16 DEF before, v, dst, a
<1>18. legal <=> /\ Now(x).shape # <<>> /\ Legal(o) /\ Sizable(before.shape)
                 /\ Fits(Means(o).shape, before.shape) \/ Indices(before.shape) = {}
  BY <1>16 DEF Assignable
<1>19. FillMeans(x, lo, hi, o)
  BY <1>15, <1>17, <1>18 DEF FillMeans, Judge, f
<1> QED
  BY <1>2, <1>13, <1>19 DEF LastMeansWhatItSays

LEMMA MakeMeaning ==
  ASSUME NEW x \in Names, NEW dims, NEW elements, Make(x, dims, elements)
  PROVE  LastMeansWhatItSays
<1> DEFINE what == <<"make", x, dims, elements>>
<1>1. done'.what = what
  BY AssignedIs DEF Make
<1>2. what[1] = "make"
  OBVIOUS
<1> HIDE DEF what
<1> QED
  BY <1>1, <1>2 DEF LastMeansWhatItSays

LEMMA StepMeans ==
  ASSUME IInv, [ArrayNext]_arrayVars
  PROVE  LastMeansWhatItSays \/ UNCHANGED arrayVars
<1>2. CASE \E x \in Names, dims \in Seq(Int), elements \in Seq(Elements) :
              (Sizable(dims) => Len(elements) = Product(dims)) /\ Make(x, dims, elements)
  BY <1>2, MakeMeaning
<1>3. CASE \E x \in Names, o \in AnyOperand : Bind(x, o)
  BY <1>3, BindMeaning
<1>4. CASE \E x \in Names, op \in Operators, l, r \in AnyOperand, block \in Blocks :
              ~(IsScalar(l) /\ IsScalar(r)) /\ Compute(x, op, l, r, block)
  BY <1>4, ComputeMeaning
<1>5. CASE \E x \in Names, op \in Operators, o \in AnyOperand, block \in Blocks : Update(x, op, o, block)
  BY <1>5, UpdateMeaning
<1>6. CASE \E x, y, z \in Names, op \in Operators, block \in Blocks : Into(x, op, y, z, block)
  BY <1>6, IntoMeaning
<1>7. CASE \E x \in Names, ix \in Seq(Int), v \in Elements : SetItem(x, ix, v)
  BY <1>7, ItemMeaning
<1>8. CASE \E x \in Names, lo, hi \in Int, o \in AnyOperand : Fill(x, lo, hi, o)
  BY <1>8, FillMeaning
<1> QED
  BY <1>2, <1>3, <1>4, <1>5, <1>6, <1>7, <1>8 DEF ArrayNext

(* Every statement means what it says, for every shape, bound, stride, operand    *)
(* and element, and every program before it: what is computed is the broadcast of *)
(* the operands' elements, what is sliced, stretched, reshaped and assigned is    *)
(* what indices in C order give, and an exception is thrown when, and apart from  *)
(* empty results only when, the statement has no meaning (ndarray.hpp:1172-1500). *)
(* A loop computes in place only where it reads no cell that it has written.      *)
THEOREM StatementsMean == ArraySpec => ComputesTheBroadcast
<1>1. ArrayInit => IInv
  BY InitIs
<1>2. IInv /\ [ArrayNext]_arrayVars => IInv'
  BY StepIs
<1>3. IInv /\ [ArrayNext]_arrayVars => [LastMeansWhatItSays]_arrayVars
  BY StepMeans
<1> QED
  BY <1>1, <1>2, <1>3, PTL DEF ArraySpec, ComputesTheBroadcast
=============================================================================
