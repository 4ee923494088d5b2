---------------------------- MODULE RequestsProofs ----------------------------
(* Theorems about Requests for any URLs, responses, limits and redirects:  *)
(* a body is whole or an error is set, secrets stay with the host the call *)
(* was made to, and the history is the chain that was followed.            *)
EXTENDS Requests, SequenceTheorems, WellFoundedInduction, TLAPS

(* The inductive invariant.                                                *)
Targets == Urls \cup {BadUrl}
Hosts == {u.host : u \in Urls}
InHop == {"connect", "tls", "send", "read", "held", "parse"}

Tokens == [t : {"head"}, r : Responses] \cup [t : {"size"}, n : Int]
          \cup [t : {"unit"}, n : Nat] \cup {CrLf}

Steps == {"idle", "hop", "done"} \cup InHop
Calls == [pc : Steps, method : Methods \cup {"GET"}, url : Targets, hop : 0 .. MaxRedirects + 1,
          origin : Hosts \cup {NoHost}, creds : BOOLEAN, follow : BOOLEAN,
          hist : Seq(Targets \X Targets)]

CallTyped ==
  /\ call \in Calls
  /\ call.pc \in InHop => call.url \in Urls
  /\ fd \in BOOLEAN /\ conn \in BOOLEAN
  /\ fd <=> call.pc \in {"tls", "send", "read", "held", "parse"}
  /\ conn => fd /\ call.pc # "tls"

(* What was gathered and what is still to come is what a server that       *)
(* answers with r sends, from its head on and as far as it was cut.        *)
Begins(s, rest, r) ==
  /\ s # << >> => s[1] = HeadOf(r)
  /\ s = << >> /\ rest # << >> => rest[1] = HeadOf(r)
  /\ r.framing # "endless" =>
       /\ Len(s) + Len(rest) <= Len(OnTheWire(r))
       /\ \A i \in 1 .. Len(s) : s[i] = OnTheWire(r)[i]
       /\ \A i \in 1 .. Len(rest) : rest[i] = OnTheWire(r)[Len(s) + i]

Arriving ==
  /\ raw \in Seq(Tokens) /\ stream \in Seq(Tokens)
  /\ Len(raw) <= MaxBytes + Piece
  /\ call.pc = "read" => Len(raw) <= MaxBytes
  /\ call.pc \notin {"read", "held", "parse"} => raw = << >>
  /\ call.pc \in {"read", "parse"} => said \in Responses /\ Begins(raw, stream, said)

(* A call's host is fixed before anything is sent, and a hop that carries  *)
(* credentials is to that host.                                            *)
Homely ==
  /\ call.pc = "idle" => call.origin = NoHost
  /\ call.origin = NoHost => call.pc \notin InHop /\ sent = {}
  /\ call.pc \in InHop /\ call.creds => call.url.host = call.origin

IInv == CallTyped /\ Arriving /\ Homely /\ SecretsStayHome /\ HistoryIsTheChain /\ WholeOrError

-----------------------------------------------------------------------------
(* Induction: a set of numbers that is not empty has a least element.      *)
LEMMA LeastNat ==
  ASSUME NEW T, T \subseteq Nat, T # {}
  PROVE  \E k \in T : \A j \in T : k <= j
<1> DEFINE R == OpToRel(<, Nat)
<1>0. IsWellFoundedOn(R, Nat)
  BY NatLessThanWellFounded
<1>2. \A k, j \in Nat : <<j, k>> \in R <=> j < k
  BY DEF OpToRel
<1> HIDE DEF R
<1>1. PICK k \in T : \A j \in T : ~(<<j, k>> \in R)
  BY <1>0, WFMin
<1>3. ASSUME NEW j \in T PROVE k <= j
  <2>1. k \in Nat /\ j \in Nat
    OBVIOUS
  <2>2. ~(j < k)
    BY <1>1, <1>2, <2>1
  <2>3. QED
    BY <2>1, <2>2
<1>4. QED
  BY <1>3

(* What dechunk makes of the rest of a body depends on the chunks behind   *)
(* it only.                                                                *)
LEMMA FromChunkAhead ==
  ASSUME NEW r, NEW s \in Seq(Tokens), NEW f, NEW g, NEW pos \in 1 .. Len(s) + 1,
         \A q \in pos + 1 .. Len(s) + 1 : f[q] = g[q]
  PROVE  FromChunk(r, s, f, pos) = FromChunk(r, s, g, pos)
<1>1. CASE pos > Len(s) \/ s[pos].t # "size"
  BY <1>1 DEF FromChunk
<1>2. CASE ~(pos > Len(s)) /\ s[pos].t = "size"
  <2>1. s[pos] \in Tokens
    BY <1>2
  <2>2. s[pos].n \in Int
    BY <1>2, <2>1 DEF Tokens, CrLf
  <2>3. CASE s[pos].n <= 0 \/ Len(s) < pos + s[pos].n + 1
    <3>1. s[pos].n < 0 \/ s[pos].n = 0 \/ Len(s) < pos + s[pos].n + 1
      BY <2>2, <2>3
    <3>2. QED
      BY <3>1, <1>2 DEF FromChunk
  <2>4. CASE ~(s[pos].n <= 0) /\ ~(Len(s) < pos + s[pos].n + 1)
    <3>1. pos + s[pos].n + 2 \in pos + 1 .. Len(s) + 1
      BY <1>2, <2>2, <2>4
    <3>2. f[pos + s[pos].n + 2] = g[pos + s[pos].n + 2]
      BY <3>1
    <3>3. QED
      BY <3>2 DEF FromChunk
  <2>5. QED
    BY <2>3, <2>4
<1>3. QED
  BY <1>1, <1>2

LEMMA DechunkUnfolds ==
  ASSUME NEW r, NEW s \in Seq(Tokens)
  PROVE  \E D : /\ Dechunk(r, s) = D[1]
                /\ \A pos \in 1 .. Len(s) + 1 : D[pos] = FromChunk(r, s, D, pos)
<1> DEFINE N == Len(s) + 1
           Good(g, k) == \A pos \in 1 .. N : N - pos <= k => g[pos] = FromChunk(r, s, g, pos)
           Bad == {k \in Nat : ~\E g : Good(g, k)}
<1>n. N \in Nat /\ N >= 1
  OBVIOUS
<1> HIDE DEF N
<1>1. \E g : Good(g, 0)
  <2> DEFINE g == [pos \in 1 .. N |-> Failed("cut", r.status)]
  <2>1. FromChunk(r, s, g, N) = Failed("cut", r.status)
    <3>1. N > Len(s)
      BY DEF N
    <3>2. QED
      BY <3>1 DEF FromChunk
  <2>2. Good(g, 0)
    <3> SUFFICES ASSUME NEW pos \in 1 .. N, N - pos <= 0 PROVE g[pos] = FromChunk(r, s, g, pos)
      OBVIOUS
    <3>1. pos = N
      BY <1>n
    <3>2. QED
      BY <2>1, <3>1
  <2>3. QED
    BY <2>2
<1>2. ASSUME NEW k \in Nat, NEW g, Good(g, k)
      PROVE  \E h : Good(h, k + 1)
  <2> DEFINE h == [pos \in 1 .. N |-> FromChunk(r, s, g, pos)]
  <2>1. ASSUME NEW pos \in 1 .. N, N - pos <= k + 1
        PROVE  h[pos] = FromChunk(r, s, h, pos)
    <3>1. \A q \in pos + 1 .. N : g[q] = h[q]
      BY <1>2, <1>n, <2>1
    <3> HIDE DEF h
    <3>2. pos \in 1 .. Len(s) + 1 /\ \A q \in pos + 1 .. Len(s) + 1 : g[q] = h[q]
      BY <3>1 DEF N
    <3>3. FromChunk(r, s, g, pos) = FromChunk(r, s, h, pos)
      BY <3>2, FromChunkAhead
    <3>4. h[pos] = FromChunk(r, s, g, pos)
      BY DEF h
    <3>5. QED
      BY <3>3, <3>4
  <2>2. QED
    BY <2>1
<1>3. Bad = {}
  <2> SUFFICES ASSUME Bad # {} PROVE FALSE
    OBVIOUS
  <2>1. PICK k \in Bad : \A j \in Bad : k <= j
    <3>1. Bad \in SUBSET Nat
      OBVIOUS
    <3> HIDE DEF Bad
    <3>2. QED
      BY <3>1, LeastNat
  <2>2. k # 0
    BY <1>1, <2>1
  <2>3. k - 1 \in Nat /\ k - 1 \notin Bad
    BY <2>1, <2>2
  <2>4. PICK g : Good(g, k - 1)
    BY <2>3
  <2>5. \E h : Good(h, k - 1 + 1)
    BY SMTT(30), <1>2, <2>3, <2>4
  <2>6. k - 1 + 1 = k
    BY <2>3
  <2>7. QED
    BY <2>1, <2>5, <2>6
<1>4. PICK g : Good(g, N)
  BY <1>3, <1>n
<1>5. PICK h : h = [pos \in 1 .. N |-> FromChunk(r, s, h, pos)]
  <2> DEFINE h == [pos \in 1 .. N |-> FromChunk(r, s, g, pos)]
  <2>1. \A pos \in 1 .. N : g[pos] = FromChunk(r, s, g, pos)
    BY <1>n, <1>4
  <2>2. \A pos \in 1 .. N : FromChunk(r, s, g, pos) = FromChunk(r, s, h, pos)
    <3> SUFFICES ASSUME NEW pos \in 1 .. N PROVE FromChunk(r, s, g, pos) = FromChunk(r, s, h, pos)
      OBVIOUS
    <3>1. \A q \in pos + 1 .. N : g[q] = h[q]
      BY <1>n, <2>1
    <3> HIDE DEF h
    <3>2. QED
      BY <3>1, FromChunkAhead DEF N
  <2>3. h = [pos \in 1 .. N |-> FromChunk(r, s, h, pos)]
    BY <2>2
  <2>4. QED
    BY <2>3
<1> DEFINE D == CHOOSE f : f = [pos \in 1 .. N |-> FromChunk(r, s, f, pos)]
<1>6. D = [pos \in 1 .. N |-> FromChunk(r, s, D, pos)]
  BY <1>5
<1>7. Dechunk(r, s) = D[1]
  BY DEF Dechunk, N
<1> HIDE DEF D
<1>8. \A pos \in 1 .. N : D[pos] = FromChunk(r, s, D, pos)
  BY <1>6
<1>9. QED
  BY <1>7, <1>8 DEF N

LEMMA FunctionIsSequence ==
  ASSUME NEW S, NEW n \in Nat, NEW f \in [1 .. n -> S]
  PROVE  f \in Seq(S) /\ Len(f) = n
  OBVIOUS

LEMMA TokenTypes ==
  /\ \A r \in Responses : HeadOf(r) \in Tokens
  /\ \A n \in Int : Size(n) \in Tokens
  /\ \A i \in Nat : Unit(i) \in Tokens
  /\ CrLf \in Tokens
  BY DEF HeadOf, Size, Unit, Tokens

LEMMA ChunksAre ==
  ASSUME NEW r \in Responses
  PROVE  /\ Chunks(r) \in Seq(Tokens) /\ Len(Chunks(r)) = 3 * r.units + 1
         /\ Chunks(r)[3 * r.units + 1] = Size(0)
         /\ \A j \in 0 .. r.units - 1 :
              /\ Chunks(r)[3 * j + 1] = Size(1)
              /\ Chunks(r)[3 * j + 2] = Unit(j + 1)
<1>0. r.units \in Nat
  BY RequestsAssumption
<1>1. ASSUME NEW i \in 1 .. 3 * r.units + 1 PROVE Chunks(r)[i] \in Tokens
  <2>1. Chunks(r)[i] = CASE i % 3 = 1 -> Size(IF i > 3 * r.units THEN 0 ELSE 1)
          [] i % 3 = 2 -> Unit((i + 1) \div 3)
          [] i % 3 = 0 -> CrLf
    BY DEF Chunks
  <2>2. i % 3 = 0 \/ i % 3 = 1 \/ i % 3 = 2
    BY <1>0
  <2>3. Chunks(r)[i] \in {Size(0), Size(1), Unit((i + 1) \div 3), CrLf}
    BY <2>1, <2>2
  <2>4. (i + 1) \div 3 \in Nat
    BY <1>0
  <2>5. QED
    BY <2>3, <2>4, TokenTypes
<1>2. Chunks(r) \in Seq(Tokens) /\ Len(Chunks(r)) = 3 * r.units + 1
  <2>1. Chunks(r) \in [1 .. 3 * r.units + 1 -> Tokens]
    BY <1>1 DEF Chunks
  <2>2. QED
    BY <1>0, <2>1
<1>3. Chunks(r)[3 * r.units + 1] = Size(0)
  <2>1. (3 * r.units + 1) % 3 = 1 /\ 3 * r.units + 1 > 3 * r.units /\ 3 * r.units + 1 \in 1 .. 3 * r.units + 1
    BY <1>0
  <2>2. QED
    BY <2>1 DEF Chunks
<1>4. ASSUME NEW j \in 0 .. r.units - 1
      PROVE  Chunks(r)[3 * j + 1] = Size(1) /\ Chunks(r)[3 * j + 2] = Unit(j + 1)
  <2>1. /\ (3 * j + 1) % 3 = 1 /\ ~(3 * j + 1 > 3 * r.units) /\ 3 * j + 1 \in 1 .. 3 * r.units + 1
        /\ (3 * j + 2) % 3 = 2 /\ 3 * j + 2 \in 1 .. 3 * r.units + 1
        /\ (3 * j + 2 + 1) \div 3 = j + 1
    BY <1>0
  <2>2. Chunks(r)[3 * j + 1] = Size(1)
    BY <2>1 DEF Chunks
  <2>3. Chunks(r)[3 * j + 2] = Unit(j + 1)
    BY <2>1 DEF Chunks
  <2>4. QED
    BY <2>2, <2>3
<1>5. QED
  BY <1>2, <1>3, <1>4

(* The units from j + 1 on.                                                *)
UnitsAfter(r, j) == [i \in 1 .. r.units - j |-> Unit(j + i)]

LEMMA ChunkMissing ==
  ASSUME NEW r, NEW s, NEW D, NEW pos, pos > Len(s)
  PROVE  FromChunk(r, s, D, pos).error # Ok
<1>1. FromChunk(r, s, D, pos) = Failed("cut", r.status)
  BY DEF FromChunk
<1>2. QED
  BY <1>1 DEF Failed, Ok

LEMMA ChunkLast ==
  ASSUME NEW r, NEW s, NEW D, NEW pos, ~(pos > Len(s)), s[pos] = Size(0)
  PROVE  FromChunk(r, s, D, pos) = Got(r, << >>)
<1>1. s[pos].t = "size" /\ s[pos].n = 0
  BY DEF Size
<1>2. ~(pos > Len(s) \/ s[pos].t # "size") /\ ~(s[pos].n < 0)
  BY <1>1
<1>3. QED
  BY <1>1, <1>2, Zenon DEF FromChunk

LEMMA ChunkCut ==
  ASSUME NEW r, NEW s, NEW D, NEW pos, ~(pos > Len(s)), s[pos] = Size(1), Len(s) < pos + 1 + 1
  PROVE  FromChunk(r, s, D, pos).error # Ok
<1>1. s[pos].t = "size" /\ s[pos].n = 1
  BY DEF Size
<1>2. ~(pos > Len(s) \/ s[pos].t # "size") /\ ~(s[pos].n < 0) /\ s[pos].n # 0 /\ Len(s) < pos + s[pos].n + 1
  BY <1>1
<1>3. FromChunk(r, s, D, pos) = Failed("cut", r.status)
  BY <1>2, Zenon DEF FromChunk
<1>4. QED
  BY <1>3 DEF Failed, Ok

LEMMA NextUnits ==
  ASSUME NEW r \in Responses, NEW j \in 0 .. r.units - 1, NEW s \in Seq(Tokens), NEW i \in 1 .. Len(s),
         s[i] = Unit(j + 1)
  PROVE  SubSeq(s, i, i) \o UnitsAfter(r, j + 1) = UnitsAfter(r, j)
<1>0. r.units \in Nat
  BY RequestsAssumption
<1> DEFINE t == SubSeq(s, i, i)
           u == UnitsAfter(r, j + 1)
           w == UnitsAfter(r, j)
<1>1. t \in Seq(Tokens) /\ Len(t) = 1 /\ t[1] = Unit(j + 1)
  <2>1. s[i] \in Tokens /\ i \in Int
    OBVIOUS
  <2>2. QED
    BY <2>1, SubSeqProperties
<1>2. /\ u \in Seq(Tokens) /\ Len(u) = r.units - j - 1
      /\ w \in Seq(Tokens) /\ Len(w) = r.units - j
  <2>1. u \in [1 .. r.units - (j + 1) -> Tokens] /\ w \in [1 .. r.units - j -> Tokens]
    BY <1>0, TokenTypes DEF UnitsAfter
  <2>2. r.units - (j + 1) \in Nat /\ r.units - j \in Nat
    BY <1>0
  <2>3. u \in Seq(Tokens) /\ Len(u) = r.units - (j + 1)
    <3> HIDE DEF u, w
    <3>1. QED
      BY SMTT(30), <2>1, <2>2, FunctionIsSequence
  <2>4. w \in Seq(Tokens) /\ Len(w) = r.units - j
    <3> HIDE DEF u, w
    <3>1. QED
      BY <2>1, <2>2, FunctionIsSequence
  <2>5. r.units - (j + 1) = r.units - j - 1
    BY <1>0
  <2>6. QED
    BY <2>3, <2>4, <2>5
<1>3. /\ \A k \in 1 .. r.units - j - 1 : u[k] = Unit(j + 1 + k)
      /\ \A k \in 1 .. r.units - j : w[k] = Unit(j + k)
  BY <1>0 DEF UnitsAfter
<1> HIDE DEF t, u, w
<1>4. /\ t \o u \in Seq(Tokens) /\ Len(t \o u) = r.units - j
      /\ \A k \in 1 .. r.units - j : (t \o u)[k] = IF k <= 1 THEN t[k] ELSE u[k - 1]
  <2>1. /\ t \o u \in Seq(Tokens) /\ Len(t \o u) = Len(t) + Len(u)
        /\ \A k \in 1 .. Len(t) + Len(u) :
             (t \o u)[k] = IF k <= Len(t) THEN t[k] ELSE u[k - Len(t)]
    BY <1>1, <1>2, ConcatProperties
  <2>2. Len(t) = 1 /\ Len(t) + Len(u) = r.units - j
    BY <1>0, <1>1, <1>2
  <2>3. QED
    BY <2>1, <2>2
<1>5. ASSUME NEW k \in 1 .. r.units - j PROVE (t \o u)[k] = w[k]
  <2>1. CASE k = 1
    BY <1>1, <1>3, <1>4, <2>1
  <2>2. CASE k # 1
    <3>1. k - 1 \in 1 .. r.units - j - 1 /\ ~(k <= 1) /\ j + 1 + (k - 1) = j + k
      BY <1>0, <2>2
    <3>2. QED
      BY <1>3, <1>4, <3>1
  <2>3. QED
    BY <2>1, <2>2
<1>6. QED
  BY <1>2, <1>4, <1>5, SeqEqual DEF t, u, w

(* However the chunks are cut, what is taken for the body is all of it.    *)
LEMMA DechunkIsWhole ==
  ASSUME NEW r \in Responses, NEW s \in Seq(Tokens), Len(s) <= Len(Chunks(r)),
         \A i \in 1 .. Len(s) : s[i] = Chunks(r)[i]
  PROVE  Dechunk(r, s).error = Ok => Dechunk(r, s) = Got(r, Units(r))
<1>0. r.units \in Nat
  BY RequestsAssumption
<1>s. Len(s) \in Nat
  OBVIOUS
<1>1. PICK D : /\ Dechunk(r, s) = D[1]
               /\ \A pos \in 1 .. Len(s) + 1 : D[pos] = FromChunk(r, s, D, pos)
  BY DechunkUnfolds
<1> DEFINE Whole(j) == D[3 * j + 1].error = Ok => D[3 * j + 1] = Got(r, UnitsAfter(r, j))
<1>2. ASSUME 3 * r.units + 1 <= Len(s) + 1
      PROVE  Whole(r.units)
  <2>1. PICK pos \in 1 .. Len(s) + 1 : pos = 3 * r.units + 1
    BY <1>0, <1>s, <1>2
  <2>2. D[pos] = FromChunk(r, s, D, pos)
    BY <1>1
  <2>3. CASE pos > Len(s)
    BY <2>1, <2>2, <2>3, ChunkMissing
  <2>4. CASE ~(pos > Len(s))
    <3>1. s[pos] = Size(0)
      BY <1>s, <2>1, <2>4, ChunksAre
    <3>2. UnitsAfter(r, r.units) = << >>
      BY <1>0 DEF UnitsAfter
    <3>3. D[pos] = Got(r, << >>)
      BY <2>2, <2>4, <3>1, ChunkLast
    <3>4. QED
      BY <2>1, <3>2, <3>3
  <2>5. QED
    BY <2>3, <2>4
<1>3. ASSUME NEW j \in 0 .. r.units - 1, 3 * j + 1 <= Len(s) + 1,
             3 * (j + 1) + 1 <= Len(s) + 1 => Whole(j + 1)
      PROVE  Whole(j)
  <2>1. 3 * j + 1 \in 1 .. Len(s) + 1
    <3>1. j \in Nat
      BY <1>0
    <3>2. 3 * j + 1 <= Len(s) + 1
      BY <1>3
    <3>3. QED
      BY <1>s, <3>1, <3>2
  <2>p. PICK pos \in 1 .. Len(s) + 1 : pos = 3 * j + 1
    BY <2>1
  <2>2. D[pos] = FromChunk(r, s, D, pos)
    BY <1>1
  <2>3. CASE pos > Len(s)
    BY <2>p, <2>2, <2>3, ChunkMissing
  <2>c. ~(pos > Len(s)) => s[pos] = Size(1)
    BY <1>s, <2>p, ChunksAre
  <2>4. CASE ~(pos > Len(s)) /\ Len(s) < pos + 1 + 1
    BY <2>p, <2>2, <2>c, <2>4, ChunkCut
  <2>5. CASE ~(pos > Len(s)) /\ ~(Len(s) < pos + 1 + 1)
    <3>2. pos + 1 \in 1 .. Len(s) /\ pos + 1 = 3 * j + 2 /\ pos + 1 + 2 = 3 * (j + 1) + 1 /\ pos + 1 + 2 <= Len(s) + 1
      BY <1>s, <2>p, <2>5
    <3>3. s[pos + 1] = Unit(j + 1)
      BY SMTT(30), <3>2, ChunksAre
    <3>n. FromChunk(r, s, D, pos) =
            IF D[pos + 1 + 2].error # Ok THEN D[pos + 1 + 2]
            ELSE Got(r, SubSeq(s, pos + 1, pos + 1) \o D[pos + 1 + 2].body)
      <4>1. s[pos].t = "size" /\ s[pos].n = 1
        BY <2>5, <2>c DEF Size
      <4>2. /\ ~(pos > Len(s) \/ s[pos].t # "size") /\ ~(s[pos].n < 0) /\ s[pos].n # 0
            /\ ~(Len(s) < pos + s[pos].n + 1)
        BY <2>5, <4>1
      <4>3. FromChunk(r, s, D, pos) =
              IF D[pos + s[pos].n + 2].error # Ok THEN D[pos + s[pos].n + 2]
              ELSE Got(r, SubSeq(s, pos + 1, pos + s[pos].n) \o D[pos + s[pos].n + 2].body)
        BY <4>2, Zenon DEF FromChunk
      <4>4. QED
        BY <4>1, <4>3, Zenon
    <3> DEFINE rest == D[pos + 1 + 2]
    <3>4. rest.error = Ok => rest = Got(r, UnitsAfter(r, j + 1))
      BY <1>3, <3>2
    <3>5. /\ rest.error # Ok => D[pos] = rest
          /\ rest.error = Ok => D[pos] = Got(r, SubSeq(s, pos + 1, pos + 1) \o rest.body)
      BY <3>n, <2>2
    <3> HIDE DEF rest
    <3>6. CASE rest.error # Ok
      BY <2>p, <3>5, <3>6
    <3>7. CASE rest.error = Ok
      <4>1. rest.body = UnitsAfter(r, j + 1)
        <5>1. Got(r, UnitsAfter(r, j + 1)).body = UnitsAfter(r, j + 1)
          BY DEF Got
        <5>2. QED
          BY <3>4, <3>7, <5>1
      <4>2. SubSeq(s, pos + 1, pos + 1) \o UnitsAfter(r, j + 1) = UnitsAfter(r, j)
        BY <3>2, <3>3, NextUnits
      <4>3. D[pos] = Got(r, UnitsAfter(r, j))
        BY <3>5, <3>7, <4>1, <4>2
      <4>4. QED
        BY <2>p, <4>3
    <3>8. QED
      BY <3>6, <3>7
  <2>6. QED
    BY <2>3, <2>4, <2>5
<1> DEFINE Bad == {m \in 0 .. r.units : 3 * (r.units - m) + 1 <= Len(s) + 1 /\ ~Whole(r.units - m)}
<1> HIDE DEF Whole
<1>4. Bad = {}
  <2> SUFFICES ASSUME Bad # {} PROVE FALSE
    OBVIOUS
  <2>1. PICK m \in Bad : \A k \in Bad : m <= k
    <3>1. Bad \subseteq Nat
      BY <1>0
    <3> HIDE DEF Bad
    <3>2. QED
      BY <3>1, LeastNat
  <2>2. m \in 0 .. r.units /\ 3 * (r.units - m) + 1 <= Len(s) + 1 /\ ~Whole(r.units - m)
    BY <2>1
  <2>3. m # 0
    <3>1. r.units - 0 = r.units
      BY <1>0
    <3>2. QED
      BY <1>2, <2>2, <3>1
  <2>4. m - 1 \in 0 .. r.units /\ ~(m <= m - 1)
    BY <1>0, <2>2, <2>3
  <2>n. m - 1 \notin Bad
    BY <2>1, <2>4
  <2>5. r.units - m \in 0 .. r.units - 1 /\ r.units - (m - 1) = (r.units - m) + 1
    BY SMTT(30), <1>0, <2>2, <2>3
  <2>6. 3 * ((r.units - m) + 1) + 1 <= Len(s) + 1 => Whole((r.units - m) + 1)
    BY <2>4, <2>n, <2>5
  <2>7. QED
    BY <1>3, <2>2, <2>5, <2>6
<1>5. Whole(0)
  <2>1. r.units \notin Bad
    BY <1>4
  <2>2. r.units - r.units = 0 /\ 3 * 0 + 1 <= Len(s) + 1 /\ r.units \in 0 .. r.units
    BY <1>0, <1>s
  <2>3. QED
    BY <2>1, <2>2
<1>6. UnitsAfter(r, 0) = Units(r)
  BY <1>0 DEF UnitsAfter, Units
<1>7. 3 * 0 + 1 = 1
  OBVIOUS
<1>8. QED
  BY <1>1, <1>5, <1>6, <1>7 DEF Whole
-----------------------------------------------------------------------------
(* What a server sends starts with its head, and goes on as it is framed.  *)
LEMMA WireIs ==
  ASSUME NEW r \in Responses
  PROVE  /\ OnTheWire(r) \in Seq(Tokens) /\ Len(OnTheWire(r)) >= 1
         /\ OnTheWire(r)[1] = HeadOf(r)
         /\ r.framing = "chunked" =>
              /\ Len(OnTheWire(r)) = 1 + Len(Chunks(r))
              /\ \A i \in 1 .. Len(Chunks(r)) : OnTheWire(r)[1 + i] = Chunks(r)[i]
         /\ r.framing = "badchunk" =>
              /\ Len(OnTheWire(r)) = 3
              /\ OnTheWire(r)[2] = Size(-1)
         /\ r.framing = "length" =>
              /\ Len(OnTheWire(r)) = 1 + r.units
              /\ \A i \in 1 .. r.units : OnTheWire(r)[1 + i] = Unit(i)
<1>0. r.units \in Nat
  BY RequestsAssumption
<1>1. ASSUME NEW b \in Seq(Tokens)
      PROVE  /\ <<HeadOf(r)>> \o b \in Seq(Tokens) /\ Len(<<HeadOf(r)>> \o b) = 1 + Len(b)
             /\ (<<HeadOf(r)>> \o b)[1] = HeadOf(r)
             /\ \A i \in 1 .. Len(b) : (<<HeadOf(r)>> \o b)[1 + i] = b[i]
  <2> DEFINE h == <<HeadOf(r)>>
  <2>1. h \in Seq(Tokens) /\ Len(h) = 1 /\ h[1] = HeadOf(r)
    BY TokenTypes
  <2> HIDE DEF h
  <2>2. /\ h \o b \in Seq(Tokens) /\ Len(h \o b) = Len(h) + Len(b)
        /\ \A i \in 1 .. Len(h) + Len(b) : (h \o b)[i] = IF i <= Len(h) THEN h[i] ELSE b[i - Len(h)]
    BY <2>1, ConcatProperties
  <2>3. Len(b) \in Nat
    OBVIOUS
  <2>4. (h \o b)[1] = HeadOf(r)
    BY <2>1, <2>2, <2>3
  <2>5. ASSUME NEW i \in 1 .. Len(b) PROVE (h \o b)[1 + i] = b[i]
    <3>1. 1 + i \in 1 .. 1 + Len(b) /\ ~(1 + i <= 1) /\ 1 + i - 1 = i
      BY <2>3
    <3>2. QED
      BY <2>1, <2>2, <3>1
  <2>6. QED
    BY <2>1, <2>2, <2>4, <2>5 DEF h
<1>2. Chunks(r) \in Seq(Tokens)
  BY ChunksAre
<1>3. Units(r) \in Seq(Tokens) /\ Len(Units(r)) = r.units
  <2>1. Units(r) \in [1 .. r.units -> Tokens]
    BY <1>0, TokenTypes DEF Units
  <2>2. QED
    BY <1>0, <2>1, FunctionIsSequence
<1>4. \A i \in 1 .. r.units : Units(r)[i] = Unit(i)
  BY DEF Units
<1>5. CASE r.framing = "chunked"
  <2>1. OnTheWire(r) = <<HeadOf(r)>> \o Chunks(r)
    BY <1>5 DEF OnTheWire
  <2>2. Len(Chunks(r)) \in Nat
    BY <1>2
  <2>3. QED
    BY <1>1, <1>2, <1>5, <2>1, <2>2
<1>6. CASE r.framing = "badchunk"
  <2>1. OnTheWire(r) = <<HeadOf(r), Size(-1), Unit(1)>>
    BY <1>6 DEF OnTheWire
  <2>2. HeadOf(r) \in Tokens /\ Size(-1) \in Tokens /\ Unit(1) \in Tokens
    BY TokenTypes
  <2>3. QED
    BY <1>6, <2>1, <2>2
<1>7. CASE r.framing \notin {"chunked", "badchunk"}
  <2>1. OnTheWire(r) = <<HeadOf(r)>> \o Units(r)
    BY <1>7 DEF OnTheWire
  <2>2. QED
    BY <1>0, <1>1, <1>3, <1>4, <1>7, <2>1
<1>8. QED
  BY <1>5, <1>6, <1>7

(* What follows the head of what was gathered.                             *)
LEMMA BodyIs ==
  ASSUME NEW s \in Seq(Tokens), s # << >>
  PROVE  /\ Tail(s) \in Seq(Tokens) /\ Len(Tail(s)) = Len(s) - 1
         /\ \A i \in 1 .. Len(Tail(s)) : Tail(s)[i] = s[1 + i]
  OBVIOUS

(* An answer without error carries the status and the Location of the      *)
(* response that was sent, and its whole body if its length is declared.   *)
LEMMA ParsedIsWhole ==
  ASSUME NEW r \in Responses, NEW s \in Seq(Tokens), NEW rest \in Seq(Tokens), NEW m,
         Begins(s, rest, r), ParseResponse(s, m).error = Ok
  PROVE  /\ ParseResponse(s, m).status = r.status
         /\ ParseResponse(s, m).location = r.location
         /\ m # "HEAD" /\ r.framing \in {"length", "chunked"} =>
              ParseResponse(s, m).body = Units(r)
<1> DEFINE p == ParseResponse(s, m)
           b == Tail(s)
<1>0. r.units \in Nat
  BY RequestsAssumption
<1>g. \A x : Got(r, x).status = r.status /\ Got(r, x).location = r.location /\ Got(r, x).body = x
  BY DEF Got
<1>f. \A n : /\ Failed("no head", n).error # Ok /\ Failed("malformed status", n).error # Ok
             /\ Failed("malformed chunk size", n).error # Ok /\ Failed("cut", n).error # Ok
             /\ Failed("over the limit", n).error # Ok /\ Failed("invalid length", n).error # Ok
  BY DEF Failed, Ok
<1>1. s # << >>
  <2>1. SUFFICES ASSUME s = << >> PROVE FALSE
    OBVIOUS
  <2>2. p = Failed("no head", 0)
    BY <2>1 DEF ParseResponse
  <2>3. QED
    BY <2>2, <1>f
<1>2. s[1].r = r
  BY <1>1 DEF Begins, HeadOf
<1>3. p = IF r.status = 0 THEN Failed("malformed status", 0)
          ELSE IF m = "HEAD" THEN Got(r, << >>)
          ELSE IF r.framing \in {"chunked", "badchunk"} THEN Dechunk(r, b)
          ELSE IF r.framing = "length" THEN
                   IF r.units > MaxBytes THEN Failed("over the limit", r.status)
                   ELSE IF Len(b) < r.units THEN Failed("cut", r.status)
                   ELSE Got(r, SubSeq(b, 1, r.units))
          ELSE IF r.framing = "badlength" THEN Failed("invalid length", r.status)
          ELSE Got(r, b)
  BY <1>1, <1>2, Zenon DEF ParseResponse
<1>b. /\ b \in Seq(Tokens) /\ Len(b) = Len(s) - 1 /\ Len(b) \in Nat
      /\ \A i \in 1 .. Len(b) : b[i] = s[1 + i]
  BY <1>1, BodyIs
<1>e. p.error = Ok
  OBVIOUS
<1> HIDE DEF p, b
<1>4. r.status # 0
  <2>1. r.status = 0 => p = Failed("malformed status", 0)
    BY <1>3
  <2>2. QED
    BY <1>e, <1>f, <2>1
<1>5. CASE m = "HEAD"
  <2>1. p = Got(r, << >>)
    BY <1>3, <1>4, <1>5
  <2>2. QED
    BY <1>5, <1>g, <2>1 DEF p
<1>6. CASE m # "HEAD" /\ r.framing = "chunked"
  <2>1. p = Dechunk(r, b)
    BY <1>3, <1>4, <1>6
  <2>2. Len(s) <= 1 + Len(Chunks(r)) /\ \A i \in 1 .. Len(s) : s[i] = OnTheWire(r)[i]
    <3>1. Len(rest) \in Nat /\ Len(s) \in Nat
      OBVIOUS
    <3>2. Len(s) + Len(rest) <= Len(OnTheWire(r)) /\ \A i \in 1 .. Len(s) : s[i] = OnTheWire(r)[i]
      BY <1>6 DEF Begins
    <3>3. Len(OnTheWire(r)) = 1 + Len(Chunks(r)) /\ Len(Chunks(r)) \in Nat
      BY <1>6, WireIs, ChunksAre
    <3>4. QED
      BY <3>1, <3>2, <3>3
  <2>3. Len(Chunks(r)) \in Nat /\ Len(b) <= Len(Chunks(r))
    <3>1. Len(Chunks(r)) \in Nat
      BY ChunksAre
    <3>2. QED
      BY <1>b, <2>2, <3>1
  <2>4. ASSUME NEW i \in 1 .. Len(b) PROVE b[i] = Chunks(r)[i]
    <3>1. b[i] = s[1 + i] /\ 1 + i \in 1 .. Len(s) /\ i \in 1 .. Len(Chunks(r))
      BY <1>b, <2>3
    <3>2. OnTheWire(r)[1 + i] = Chunks(r)[i]
      BY <1>6, <3>1, WireIs
    <3>3. QED
      BY <2>2, <3>1, <3>2
  <2>5. Dechunk(r, b).error = Ok => Dechunk(r, b) = Got(r, Units(r))
    BY <1>b, <2>3, <2>4, DechunkIsWhole
  <2>6. p = Got(r, Units(r))
    BY <1>e, <2>1, <2>5
  <2>7. QED
    BY <1>g, <2>6 DEF p
<1>7. CASE m # "HEAD" /\ r.framing = "badchunk"
  <2>1. p = Dechunk(r, b)
    BY <1>3, <1>4, <1>7
  <2>2. PICK D : Dechunk(r, b) = D[1] /\ \A pos \in 1 .. Len(b) + 1 : D[pos] = FromChunk(r, b, D, pos)
    BY <1>b, DechunkUnfolds
  <2>3. p = FromChunk(r, b, D, 1)
    <3>1. 1 \in 1 .. Len(b) + 1
      BY <1>b
    <3>2. QED
      BY <2>1, <2>2, <3>1
  <2>4. CASE 1 > Len(b)
    <3>1. p.error # Ok
      BY <2>3, <2>4, ChunkMissing
    <3>2. QED
      BY <1>e, <3>1
  <2>5. CASE ~(1 > Len(b))
    <3>1. 1 \in 1 .. Len(b) /\ 1 + 1 \in 1 .. Len(s)
      BY <1>b, <2>5
    <3>2. b[1] = Size(-1)
      <4>1. b[1] = s[1 + 1]
        BY <1>b, <3>1
      <4>2. s[1 + 1] = OnTheWire(r)[1 + 1]
        BY <1>7, <3>1 DEF Begins
      <4>3. QED
        BY <1>7, <4>1, <4>2, WireIs
    <3>3. ~(1 > Len(b) \/ b[1].t # "size") /\ b[1].n < 0
      BY <2>5, <3>2 DEF Size
    <3>4. p = Failed("malformed chunk size", r.status)
      BY <2>3, <3>3, Zenon DEF FromChunk
    <3>5. QED
      BY <1>e, <1>f, <3>4
  <2>6. QED
    BY <2>4, <2>5
<1>8. CASE m # "HEAD" /\ r.framing = "length"
  <2>1. p = IF r.units > MaxBytes THEN Failed("over the limit", r.status)
            ELSE IF Len(b) < r.units THEN Failed("cut", r.status)
            ELSE Got(r, SubSeq(b, 1, r.units))
    <3>1. r.framing \notin {"chunked", "badchunk"}
      BY <1>8
    <3>2. QED
      BY <1>3, <1>4, <1>8, <3>1, Zenon
  <2>2. ~(r.units > MaxBytes)
    BY <1>e, <1>f, <2>1
  <2>3. ~(Len(b) < r.units)
    BY <1>e, <1>f, <2>1, <2>2
  <2>4. p = Got(r, SubSeq(b, 1, r.units))
    BY <2>1, <2>2, <2>3
  <2>5. SubSeq(b, 1, r.units) = Units(r)
    <3>1. /\ SubSeq(b, 1, r.units) \in Seq(Tokens) /\ Len(SubSeq(b, 1, r.units)) = r.units
          /\ \A i \in 1 .. r.units : SubSeq(b, 1, r.units)[i] = b[i]
      BY <1>0, <1>b, <2>3
    <3>2. ASSUME NEW i \in 1 .. r.units PROVE b[i] = Unit(i)
      <4>1. i \in 1 .. Len(b) /\ 1 + i \in 1 .. Len(s)
        BY <1>0, <1>b, <2>3
      <4>2. b[i] = s[1 + i]
        BY <1>b, <4>1
      <4>3. s[1 + i] = OnTheWire(r)[1 + i]
        BY <1>8, <4>1 DEF Begins
      <4>4. OnTheWire(r)[1 + i] = Unit(i)
        BY <1>8, WireIs
      <4>5. QED
        BY <4>2, <4>3, <4>4
    <3>3. /\ Units(r) \in Seq(Tokens) /\ Len(Units(r)) = r.units
          /\ \A i \in 1 .. r.units : Units(r)[i] = Unit(i)
      <4>1. Units(r) \in [1 .. r.units -> Tokens]
        BY <1>0, TokenTypes DEF Units
      <4>2. QED
        BY <1>0, <4>1, FunctionIsSequence DEF Units
    <3>4. QED
      BY <3>1, <3>2, <3>3, SeqEqual
  <2>6. QED
    BY <1>g, <2>4, <2>5 DEF p
<1>9. CASE m # "HEAD" /\ r.framing \notin {"chunked", "badchunk", "length"}
  <2>1. p = IF r.framing = "badlength" THEN Failed("invalid length", r.status) ELSE Got(r, b)
    BY <1>3, <1>4, <1>9
  <2>2. r.framing # "badlength"
    BY <1>e, <1>f, <2>1
  <2>3. p = Got(r, b)
    BY <2>1, <2>2
  <2>4. QED
    BY <1>9, <1>g, <2>3 DEF p
<1>10. QED
  BY <1>5, <1>6, <1>7, <1>8, <1>9

-----------------------------------------------------------------------------
(* A step within a hop that moves the call to p only.                      *)
SameButStep(p) ==
  /\ call' \in Calls /\ call'.pc = p
  /\ call'.method = call.method /\ call'.url = call.url /\ call'.hop = call.hop
  /\ call'.origin = call.origin /\ call'.creds = call.creds /\ call'.follow = call.follow
  /\ call'.hist = call.hist

LEMMA GotoMoves ==
  ASSUME call \in Calls, NEW p \in Steps, Goto(p)
  PROVE  SameButStep(p)
  BY DEF Calls, Goto, SameButStep

LEMMA HopGoesOn ==
  ASSUME IInv, call.pc \in InHop, NEW p \in Steps \ {"idle"}, SameButStep(p)
  PROVE  /\ call' \in Calls /\ call'.pc = p /\ call'.url \in Urls /\ call'.method = call.method
         /\ sent' = sent => Homely' /\ SecretsStayHome'
         /\ HistoryIsTheChain'
<1>1. call.url \in Urls /\ call.origin # NoHost
  BY DEF IInv, CallTyped, Homely
<1>2. ASSUME sent' = sent PROVE Homely' /\ SecretsStayHome'
  BY <1>1, <1>2 DEF IInv, Homely, SecretsStayHome, SameButStep
<1>3. HistoryIsTheChain'
  <2>1. call.hop <= MaxRedirects
    BY DEF IInv, HistoryIsTheChain, InHop
  <2>2. HistoryIsTheChain
    BY DEF IInv
  <2>3. QED
    BY <2>1, <2>2 DEF HistoryIsTheChain, SameButStep
<1>4. QED
  BY <1>1, <1>2, <1>3 DEF SameButStep

(* An answer with an error is not one to be whole.                         *)
LEMMA FailureIsAnError ==
  ASSUME NEW w \in {"too many redirects", "malformed URL", "connect", "tls", "refused: control bytes",
                    "send failed", "location"}, NEW n, result' = Failed(w, n)
  PROVE  WholeOrError'
<1>1. Failed(w, n).error = w /\ w # Ok
  BY DEF Failed, Ok
<1>2. result'.error # Ok
  BY <1>1
<1>3. QED
  BY <1>2 DEF WholeOrError

LEMMA NotDoneYet ==
  ASSUME call'.pc # "done"
  PROVE  WholeOrError'
  BY DEF WholeOrError

-----------------------------------------------------------------------------
LEMMA InitHolds == Init => IInv
<1> SUFFICES ASSUME Init PROVE IInv
  OBVIOUS
<1> USE DEF Init, NoCall
<1>0. << >> \in Seq(Targets \X Targets) /\ << >> \in Seq(Tokens) /\ Len(<< >>) = 0
  OBVIOUS
<1>1. call \in Calls
  BY <1>0, RequestsAssumption DEF Calls, Steps, Targets
<1>2. CallTyped
  BY <1>1 DEF CallTyped, InHop
<1>3. Arriving
  BY <1>0, RequestsAssumption DEF Arriving
<1>4. Homely /\ SecretsStayHome
  BY DEF Homely, SecretsStayHome, InHop
<1>5. HistoryIsTheChain
  BY <1>0 DEF HistoryIsTheChain
<1>6. WholeOrError
  BY DEF WholeOrError
<1>7. QED
  BY <1>2, <1>3, <1>4, <1>5, <1>6 DEF IInv

LEMMA CallKeeps ==
  ASSUME IInv, NEW m \in Methods, NEW u \in Urls \cup {BadUrl}, NEW c \in BOOLEAN, NEW f \in BOOLEAN,
         Call(m, u, c, f)
  PROVE  IInv'
<1>0. << >> \in Seq(Targets \X Targets) /\ Len(<< >>) = 0
  OBVIOUS
<1>1. /\ call' = [pc |-> "hop", method |-> m, url |-> u, hop |-> 0, origin |-> NoHost,
                  creds |-> c, follow |-> f, hist |-> << >>]
      /\ UNCHANGED <<fd, conn, stream, said, raw, result, sent>> /\ call.pc = "idle"
  BY DEF Call, NoCall
<1>2. call' \in Calls
  BY <1>0, <1>1, RequestsAssumption DEF Calls, Steps, Targets
<1>3. call'.pc = "hop" /\ call'.hop = 0 /\ call'.hist = << >> /\ call'.origin = NoHost
  BY <1>1
<1>4. sent = {} /\ fd = FALSE /\ conn = FALSE /\ raw = << >>
  <2>1. sent = {}
    <3>1. call.origin = NoHost
      BY <1>1 DEF IInv, Homely
    <3>2. QED
      BY <3>1 DEF IInv, Homely
  <2>2. fd = FALSE /\ conn = FALSE
    BY <1>1 DEF IInv, CallTyped
  <2>3. raw = << >>
    BY <1>1 DEF IInv, Arriving
  <2>4. QED
    BY <2>1, <2>2, <2>3
<1>5. CallTyped'
  BY <1>1, <1>2, <1>3, <1>4 DEF CallTyped, InHop
<1>6. Arriving'
  BY <1>1, <1>3, <1>4 DEF IInv, Arriving
<1>7. Homely' /\ SecretsStayHome'
  BY <1>1, <1>3, <1>4 DEF Homely, SecretsStayHome, InHop
<1>8. HistoryIsTheChain'
  BY <1>0, <1>3 DEF HistoryIsTheChain
<1>9. WholeOrError'
  BY <1>3, NotDoneYet
<1>10. QED
  BY <1>5, <1>6, <1>7, <1>8, <1>9 DEF IInv

LEMMA BeginHopKeeps ==
  ASSUME IInv, BeginHop
  PROVE  IInv'
<1>0. /\ call.pc = "hop" /\ call \in Calls /\ HistoryIsTheChain
      /\ UNCHANGED <<fd, conn, stream, said, raw, sent>>
  BY DEF IInv, CallTyped, BeginHop
<1>1. fd = FALSE /\ conn = FALSE /\ raw = << >>
  <2>1. fd = FALSE /\ conn = FALSE
    BY <1>0 DEF IInv, CallTyped
  <2>2. raw = << >>
    BY <1>0 DEF IInv, Arriving
  <2>3. QED
    BY <2>1, <2>2
<1>2. ASSUME NEW w \in {"too many redirects", "malformed URL"}, Return(Failed(w, 0))
      PROVE  IInv'
  <2>1. SameButStep("done") /\ result' = Failed(w, 0)
    BY <1>0, <1>2, GotoMoves DEF Return, Steps
  <2>2. WholeOrError'
    BY <2>1, FailureIsAnError
  <2>3. CallTyped'
    BY <1>0, <1>1, <2>1 DEF CallTyped, SameButStep, InHop
  <2>4. Arriving'
    BY <1>0, <1>1, <2>1 DEF IInv, Arriving, SameButStep
  <2>5. Homely' /\ SecretsStayHome'
    BY <1>0, <2>1 DEF IInv, Homely, SecretsStayHome, SameButStep, InHop
  <2>6. HistoryIsTheChain'
    BY <1>0, <2>1 DEF HistoryIsTheChain, SameButStep
  <2>7. QED
    BY <2>2, <2>3, <2>4, <2>5, <2>6 DEF IInv
<1>3. ASSUME call.hop <= MaxRedirects, call.url # BadUrl,
             call' = [call EXCEPT !.pc = "connect", !.creds = StripSensitive(call.url.host),
                                  !.origin = IF @ = NoHost THEN call.url.host ELSE @]
      PROVE  IInv'
  <2>1. call.url \in Urls /\ call.url.host \in Hosts /\ call.url.host # NoHost
    <3>1. call.url \in Urls
      BY <1>0, <1>3 DEF Calls, Targets
    <3>2. QED
      BY <3>1, RequestsAssumption DEF Hosts
  <2>2. StripSensitive(call.url.host) \in BOOLEAN
    <3>1. call.creds \in BOOLEAN
      BY <1>0 DEF Calls
    <3>2. QED
      BY <3>1 DEF StripSensitive
  <2>3. /\ call' \in Calls /\ call'.pc = "connect" /\ call'.url = call.url
        /\ call'.hop = call.hop /\ call'.hist = call.hist
        /\ call'.creds = StripSensitive(call.url.host)
        /\ call'.origin = IF call.origin = NoHost THEN call.url.host ELSE call.origin
    BY <1>0, <1>3, <2>1, <2>2 DEF Calls, Steps, InHop
  <2>4. CallTyped'
    BY <1>0, <1>1, <2>1, <2>3 DEF CallTyped
  <2>5. Arriving'
    BY <1>0, <1>1, <2>3 DEF IInv, Arriving
  <2>6. Homely'
    <3>1. call'.origin # NoHost
      BY <2>1, <2>3
    <3>2. call'.creds => call'.url.host = call'.origin
      BY <2>3 DEF StripSensitive
    <3>3. QED
      BY <2>3, <3>1, <3>2 DEF Homely
  <2>7. SecretsStayHome'
    <3>1. CASE call.origin = NoHost
      BY <1>0, <3>1 DEF IInv, Homely, SecretsStayHome
    <3>2. CASE call.origin # NoHost
      BY <1>0, <2>3, <3>2 DEF IInv, SecretsStayHome
    <3>3. QED
      BY <3>1, <3>2
  <2>8. HistoryIsTheChain'
    BY <1>0, <1>3, <2>3 DEF HistoryIsTheChain
  <2>9. WholeOrError'
    BY <2>3, NotDoneYet
  <2>10. QED
    BY <2>4, <2>5, <2>6, <2>7, <2>8, <2>9 DEF IInv
<1>4. QED
  BY <1>2, <1>3 DEF BeginHop

LEMMA ConnectKeeps ==
  ASSUME IInv, Connect
  PROVE  IInv'
<1>0. call.pc = "connect" /\ call \in Calls /\ UNCHANGED <<conn, stream, said, raw, sent>>
  BY DEF IInv, CallTyped, Connect
<1>1. fd = FALSE /\ conn = FALSE /\ raw = << >>
  <2>1. fd = FALSE /\ conn = FALSE
    BY <1>0 DEF IInv, CallTyped
  <2>2. raw = << >>
    BY <1>0 DEF IInv, Arriving
  <2>3. QED
    BY <2>1, <2>2
<1>2. ASSUME NEW p \in {"tls", "send", "done"}, Goto(p), fd' \in BOOLEAN, fd' <=> p # "done",
             WholeOrError'
      PROVE  IInv'
  <2>1. SameButStep(p)
    BY <1>0, <1>2, GotoMoves DEF Steps, InHop
  <2>2. /\ call' \in Calls /\ call'.pc = p /\ call'.url \in Urls
        /\ Homely' /\ SecretsStayHome' /\ HistoryIsTheChain'
    BY <1>0, <2>1, HopGoesOn DEF Steps, InHop
  <2>3. CallTyped'
    BY <1>0, <1>1, <1>2, <2>2 DEF CallTyped
  <2>4. Arriving'
    BY <1>0, <1>1, <1>2, <2>2 DEF IInv, Arriving
  <2>5. QED
    BY <1>2, <2>2, <2>3, <2>4 DEF IInv
<1>3. CASE fd' = TRUE /\ Goto(IF call.url.scheme = "https" THEN "tls" ELSE "send")
  <2>1. PICK p \in {"tls", "send"} : Goto(p)
    BY <1>3
  <2>2. call'.pc = p
    BY <1>0, <2>1, GotoMoves DEF SameButStep, Steps, InHop
  <2>3. WholeOrError'
    BY <2>2, NotDoneYet
  <2>4. QED
    BY <1>2, <1>3, <2>1, <2>3
<1>4. CASE Return(Failed("connect", 0)) /\ UNCHANGED fd
  <2>1. Goto("done") /\ result' = Failed("connect", 0)
    BY <1>4 DEF Return
  <2>2. WholeOrError'
    BY <2>1, FailureIsAnError
  <2>3. QED
    BY <1>1, <1>2, <1>4, <2>1, <2>2
<1>5. QED
  BY <1>3, <1>4 DEF Connect

LEMMA HandshakeKeeps ==
  ASSUME IInv, Handshake
  PROVE  IInv'
<1>0. call.pc = "tls" /\ call \in Calls /\ UNCHANGED <<stream, said, raw, sent>>
  BY DEF IInv, CallTyped, Handshake
<1>1. raw = << >> /\ fd = TRUE /\ conn = FALSE
  BY <1>0 DEF IInv, CallTyped, Arriving
<1>2. ASSUME NEW p \in {"send", "done"}, Goto(p), WholeOrError',
             fd' \in BOOLEAN, conn' \in BOOLEAN, fd' <=> p # "done", conn' => fd'
      PROVE  IInv'
  <2>1. SameButStep(p)
    BY <1>0, <1>2, GotoMoves DEF Steps, InHop
  <2>2. /\ call' \in Calls /\ call'.pc = p /\ call'.url \in Urls
        /\ Homely' /\ SecretsStayHome' /\ HistoryIsTheChain'
    BY <1>0, <2>1, HopGoesOn DEF Steps, InHop
  <2>3. CallTyped'
    BY <1>2, <2>2 DEF CallTyped
  <2>4. Arriving'
    BY <1>0, <1>1, <1>2, <2>2 DEF IInv, Arriving
  <2>5. QED
    BY <1>2, <2>2, <2>3, <2>4 DEF IInv
<1>3. CASE conn' = TRUE /\ Goto("send") /\ UNCHANGED <<fd, result>>
  <2>1. call'.pc = "send"
    BY <1>0, <1>3, GotoMoves DEF SameButStep, Steps, InHop
  <2>2. WholeOrError'
    BY <2>1, NotDoneYet
  <2>3. QED
    BY <1>1, <1>2, <1>3, <2>2
<1>4. CASE Return(Failed("tls", 0)) /\ fd' = FALSE /\ UNCHANGED conn
  <2>1. Goto("done") /\ result' = Failed("tls", 0)
    BY <1>4 DEF Return
  <2>2. WholeOrError'
    BY <2>1, FailureIsAnError
  <2>3. QED
    BY <1>1, <1>2, <1>4, <2>1, <2>2
<1>5. QED
  BY <1>3, <1>4 DEF Handshake

(* What a server sends before it is cut begins its response.               *)
LEMMA CutBegins ==
  ASSUME NEW r \in Responses, NEW cut \in 0 .. Len(OnTheWire(r))
  PROVE  /\ SubSeq(OnTheWire(r), 1, cut) \in Seq(Tokens)
         /\ Begins(<< >>, SubSeq(OnTheWire(r), 1, cut), r)
<1> DEFINE w == OnTheWire(r)
           s == SubSeq(w, 1, cut)
<1>1. w \in Seq(Tokens) /\ Len(w) \in Nat /\ w[1] = HeadOf(r)
  BY WireIs
<1> HIDE DEF w
<1>2. cut \in 0 .. Len(w)
  BY DEF w
<1>3. s \in Seq(Tokens) /\ Len(s) = cut /\ \A i \in 1 .. cut : s[i] = w[i]
  BY <1>1, <1>2
<1> HIDE DEF s
<1>4. s # << >> => s[1] = HeadOf(r)
  <2>1. s # << >> => cut # 0
    BY <1>3
  <2>2. QED
    BY <1>1, <1>2, <1>3, <2>1
<1>5. \A i \in 1 .. Len(s) : s[i] = w[Len(<< >>) + i]
  <2>1. Len(<< >>) = 0
    OBVIOUS
  <2>2. QED
    BY <1>2, <1>3, <2>1
<1>6. Len(<< >>) + Len(s) <= Len(w)
  BY <1>1, <1>2, <1>3
<1>7. Begins(<< >>, s, r)
  BY <1>4, <1>5, <1>6 DEF Begins, w
<1>8. QED
  BY <1>3, <1>7 DEF s, w

LEMMA SendKeeps ==
  ASSUME IInv, Send
  PROVE  IInv'
<1>0. call.pc = "send" /\ call \in Calls /\ UNCHANGED raw
  BY DEF IInv, CallTyped, Send
<1>1. /\ raw = << >> /\ fd = TRUE /\ conn \in BOOLEAN /\ stream \in Seq(Tokens)
      /\ call.origin # NoHost /\ (call.creds => call.url.host = call.origin)
  <2>1. raw = << >> /\ stream \in Seq(Tokens)
    BY <1>0 DEF IInv, Arriving
  <2>2. fd = TRUE /\ conn \in BOOLEAN
    BY <1>0 DEF IInv, CallTyped
  <2>3. call.origin # NoHost /\ (call.creds => call.url.host = call.origin)
    BY <1>0 DEF IInv, Homely, InHop
  <2>4. QED
    BY <2>1, <2>2, <2>3
<1>2. ASSUME NEW p \in {"read", "done"}, Goto(p), WholeOrError',
             sent' = sent \/ sent' = sent \cup {<<call.url.host, call.creds>>},
             fd' \in BOOLEAN, conn' \in BOOLEAN, fd' <=> p # "done", conn' => fd',
             stream' \in Seq(Tokens),
             p = "read" => said' \in Responses /\ Begins(<< >>, stream', said')
      PROVE  IInv'
  <2>1. SameButStep(p)
    BY <1>0, <1>2, GotoMoves DEF Steps, InHop
  <2>2. /\ call' \in Calls /\ call'.pc = p /\ call'.url \in Urls
        /\ sent' = sent => Homely' /\ SecretsStayHome'
        /\ HistoryIsTheChain'
    BY <1>0, <2>1, HopGoesOn DEF Steps, InHop
  <2>3. CallTyped'
    BY <1>2, <2>2 DEF CallTyped
  <2>4. Arriving'
    <3>1. raw' = << >> /\ raw' \in Seq(Tokens) /\ Len(raw') = 0
      BY <1>0, <1>1
    <3>2. Len(raw') <= MaxBytes + Piece /\ Len(raw') <= MaxBytes
      BY <3>1, RequestsAssumption
    <3>3. p = "read" => Begins(raw', stream', said')
      BY <1>2, <3>1
    <3>4. QED
      BY <1>2, <2>2, <3>1, <3>2, <3>3 DEF Arriving
  <2>5. Homely'
    BY <1>1, <2>1, <1>2 DEF Homely, SameButStep
  <2>6. SecretsStayHome'
    <3>1. call'.origin = call.origin
      BY <2>1 DEF SameButStep
    <3>2. ASSUME NEW x \in sent', x[2] PROVE x[1] = call.origin
      <4>1. CASE x \in sent
        BY <3>2, <4>1 DEF IInv, SecretsStayHome
      <4>2. CASE x \notin sent
        <5>1. x = <<call.url.host, call.creds>>
          BY <1>2, <4>2
        <5>2. QED
          BY <1>1, <3>2, <5>1
      <4>3. QED
        BY <4>1, <4>2
    <3>3. QED
      BY <3>1, <3>2 DEF SecretsStayHome
  <2>7. QED
    BY <1>2, <2>2, <2>3, <2>4, <2>5, <2>6 DEF IInv
<1>3. ASSUME NEW w \in {"refused: control bytes", "send failed"}, Return(Failed(w, 0)), CloseBoth,
             stream' = stream,
             sent' = sent \/ sent' = sent \cup {<<call.url.host, call.creds>>}
      PROVE  IInv'
  <2>1. Goto("done") /\ result' = Failed(w, 0) /\ fd' = FALSE /\ conn' = FALSE
    BY <1>3 DEF Return, CloseBoth
  <2>2. WholeOrError'
    BY <2>1, FailureIsAnError
  <2>3. stream' \in Seq(Tokens)
    BY <1>1, <1>3
  <2>4. QED
    BY <1>2, <1>3, <2>1, <2>2, <2>3
<1>4. ASSUME NEW r \in Responses, NEW cut \in 0 .. Len(OnTheWire(r)), said' = r,
             stream' = SubSeq(OnTheWire(r), 1, cut), Goto("read"), UNCHANGED <<fd, conn, result>>,
             sent' = sent \cup {<<call.url.host, call.creds>>}
      PROVE  IInv'
  <2>1. stream' \in Seq(Tokens) /\ said' \in Responses /\ Begins(<< >>, stream', said')
    BY <1>4, CutBegins
  <2>2. call'.pc = "read"
    BY <1>0, <1>4, GotoMoves DEF SameButStep, Steps, InHop
  <2>3. WholeOrError'
    BY <2>2, NotDoneYet
  <2>4. fd' = TRUE /\ conn' \in BOOLEAN
    BY <1>1, <1>4
  <2>5. QED
    BY <1>2, <1>4, <2>1, <2>3, <2>4
<1>5. QED
  BY <1>3, <1>4 DEF Send

(* While a response arrives only what was gathered, what is to come and    *)
(* the step change.                                                        *)
LEMMA ArrivingKeeps ==
  ASSUME IInv, call.pc = "read", NEW p \in {"read", "parse"}, Goto(p),
         UNCHANGED <<fd, conn, said, result, sent>>,
         raw' \in Seq(Tokens), stream' \in Seq(Tokens), Len(raw') <= MaxBytes + Piece,
         p = "read" => Len(raw') <= MaxBytes, Begins(raw', stream', said)
  PROVE  IInv'
<1>0. /\ call \in Calls /\ fd = TRUE /\ conn \in BOOLEAN /\ said \in Responses
  BY DEF IInv, CallTyped, Arriving
<1>1. SameButStep(p)
  BY <1>0, GotoMoves DEF Steps, InHop
<1>2. /\ call' \in Calls /\ call'.pc = p /\ call'.url \in Urls
      /\ Homely' /\ SecretsStayHome' /\ HistoryIsTheChain'
  BY <1>1, HopGoesOn DEF Steps, InHop
<1>3. CallTyped'
  BY <1>0, <1>2 DEF CallTyped
<1>4. Arriving'
  BY <1>0, <1>2 DEF Arriving
<1>5. WholeOrError'
  BY <1>2, NotDoneYet
<1>6. QED
  BY <1>2, <1>3, <1>4, <1>5 DEF IInv

(* A piece of n tokens moves from what is to come to what was gathered.    *)
LEMMA PieceMoves ==
  ASSUME NEW s \in Seq(Tokens), NEW rest \in Seq(Tokens), NEW r, Begins(s, rest, r),
         NEW n \in 1 .. Len(rest)
  PROVE  /\ s \o SubSeq(rest, 1, n) \in Seq(Tokens) /\ Len(s \o SubSeq(rest, 1, n)) = Len(s) + n
         /\ SubSeq(rest, n + 1, Len(rest)) \in Seq(Tokens)
         /\ Begins(s \o SubSeq(rest, 1, n), SubSeq(rest, n + 1, Len(rest)), r)
<1> DEFINE t == SubSeq(rest, 1, n)
           u == SubSeq(rest, n + 1, Len(rest))
           w == OnTheWire(r)
           v == s \o t
<1>0. Len(s) \in Nat /\ Len(rest) \in Nat /\ n \in Nat /\ n <= Len(rest) /\ n >= 1
  OBVIOUS
<1>1. t \in Seq(Tokens) /\ Len(t) = n /\ \A i \in 1 .. n : t[i] = rest[i]
  BY <1>0
<1>2. u \in Seq(Tokens) /\ Len(u) = Len(rest) - n /\ \A i \in 1 .. Len(rest) - n : u[i] = rest[n + i]
  <2>1. \A i \in n + 1 .. Len(rest) : rest[i] \in Tokens
    OBVIOUS
  <2>2. u \in Seq(Tokens) /\ Len(u) = Len(rest) - n
    BY <1>0, SubSeqProperties
  <2>3. ASSUME NEW i \in 1 .. Len(rest) - n PROVE u[i] = rest[n + i]
    BY <1>0, <2>2
  <2>4. QED
    BY <2>2, <2>3
<1> HIDE DEF t, u, w
<1>3. /\ v \in Seq(Tokens) /\ Len(v) = Len(s) + n
      /\ \A i \in 1 .. Len(s) + n : v[i] = IF i <= Len(s) THEN s[i] ELSE t[i - Len(s)]
  BY <1>1, ConcatProperties
<1> HIDE DEF v
<1>4. v[1] = HeadOf(r)
  <2>1. CASE s = << >>
    <3>1. Len(s) = 0 /\ rest # << >> /\ rest[1] = HeadOf(r)
      BY <1>0, <2>1 DEF Begins
    <3>2. 1 \in 1 .. Len(s) + n /\ ~(1 <= Len(s)) /\ 1 - Len(s) = 1
      BY <1>0, <3>1
    <3>3. v[1] = t[1] /\ t[1] = rest[1]
      BY <1>0, <1>1, <1>3, <3>2
    <3>4. QED
      BY <3>1, <3>3
  <2>2. CASE s # << >>
    <3>1. 1 <= Len(s)
      BY <1>0, <2>2
    <3>2. v[1] = s[1]
      BY <1>0, <1>3, <3>1
    <3>3. QED
      BY <2>2, <3>2 DEF Begins
  <2>3. QED
    BY <2>1, <2>2
<1>5. v # << >>
  <2>1. Len(v) # 0
    BY <1>0, <1>3
  <2>2. QED
    BY <2>1
<1>6. ASSUME r.framing # "endless"
      PROVE  /\ Len(v) + Len(u) <= Len(w)
             /\ \A i \in 1 .. Len(v) : v[i] = w[i]
             /\ \A i \in 1 .. Len(u) : u[i] = w[Len(v) + i]
  <2>1. /\ Len(s) + Len(rest) <= Len(w)
        /\ \A i \in 1 .. Len(s) : s[i] = w[i]
        /\ \A i \in 1 .. Len(rest) : rest[i] = w[Len(s) + i]
    BY <1>6 DEF Begins, w
  <2>2. Len(v) + Len(u) = Len(s) + Len(rest)
    BY <1>0, <1>2, <1>3
  <2>3. ASSUME NEW i \in 1 .. Len(v) PROVE v[i] = w[i]
    <3>1. CASE i <= Len(s)
      BY <1>0, <1>3, <2>1, <3>1
    <3>2. CASE ~(i <= Len(s))
      <4>1. i - Len(s) \in 1 .. n /\ i - Len(s) \in 1 .. Len(rest) /\ Len(s) + (i - Len(s)) = i
        BY <1>0, <1>3, <3>2
      <4>2. v[i] = t[i - Len(s)] /\ t[i - Len(s)] = rest[i - Len(s)]
        BY <1>0, <1>1, <1>3, <3>2, <4>1
      <4>3. rest[i - Len(s)] = w[i]
        BY <2>1, <4>1
      <4>4. QED
        BY <4>2, <4>3
    <3>3. QED
      BY <3>1, <3>2
  <2>4. ASSUME NEW i \in 1 .. Len(u) PROVE u[i] = w[Len(v) + i]
    <3>1. i \in 1 .. Len(rest) - n /\ n + i \in 1 .. Len(rest) /\ Len(s) + (n + i) = Len(v) + i
      BY <1>0, <1>2, <1>3
    <3>2. QED
      BY <1>2, <2>1, <3>1
  <2>5. QED
    BY <2>1, <2>2, <2>3, <2>4
<1>7. Begins(v, u, r)
  BY <1>4, <1>5, <1>6 DEF Begins, w
<1>8. QED
  BY <1>2, <1>3, <1>7 DEF v, t, u

LEMMA RecvKeeps ==
  ASSUME IInv, Recv
  PROVE  IInv'
<1>0. /\ call.pc = "read" /\ raw \in Seq(Tokens) /\ stream \in Seq(Tokens)
      /\ Len(raw) <= MaxBytes /\ Begins(raw, stream, said)
  BY DEF IInv, Arriving, Recv
<1>1. UNCHANGED <<fd, conn, said, result, sent>>
  BY DEF Recv
<1>2. PICK n \in 1 .. Piece : /\ n <= Len(stream)
                              /\ raw' = raw \o SubSeq(stream, 1, n)
                              /\ stream' = SubSeq(stream, n + 1, Len(stream))
  BY DEF Recv
<1>3. /\ raw' \in Seq(Tokens) /\ Len(raw') = Len(raw) + n
      /\ stream' \in Seq(Tokens) /\ Begins(raw', stream', said)
  <2>1. n \in 1 .. Len(stream)
    BY <1>0, <1>2, RequestsAssumption
  <2>2. QED
    BY <1>0, <1>2, <2>1, PieceMoves
<1>4. Len(raw') <= MaxBytes + Piece /\ Len(raw') \in Nat
  <2>1. Len(raw) \in Nat
    BY <1>0
  <2>2. QED
    BY <1>0, <1>3, <2>1, RequestsAssumption
<1>5. PICK p \in {"read", "parse"} : Goto(p) /\ (p = "read" => ~(Len(raw') > MaxBytes))
  <2>1. Goto(IF Len(raw') > MaxBytes THEN "parse" ELSE "read")
    BY DEF Recv
  <2>2. CASE Len(raw') > MaxBytes
    BY <2>1, <2>2
  <2>3. CASE ~(Len(raw') > MaxBytes)
    BY <2>1, <2>3
  <2>4. QED
    BY <2>2, <2>3
<1>6. p = "read" => Len(raw') <= MaxBytes
  BY <1>4, <1>5, RequestsAssumption
<1>7. QED
  BY <1>0, <1>1, <1>3, <1>4, <1>5, <1>6, ArrivingKeeps

LEMMA BabbleKeeps ==
  ASSUME IInv, Babble
  PROVE  IInv'
<1>0. /\ call.pc = "read" /\ call \in Calls /\ raw \in Seq(Tokens) /\ said \in Responses
      /\ Begins(raw, stream, said)
  BY DEF IInv, CallTyped, Arriving, Babble
<1>1. /\ UNCHANGED <<call, fd, conn, said, raw, result, sent>> /\ said.framing = "endless"
      /\ stream' = <<IF raw = << >> THEN HeadOf(said) ELSE Unit(Len(raw))>>
  BY DEF Babble
<1>2. HeadOf(said) \in Tokens /\ Unit(Len(raw)) \in Tokens
  BY <1>0, TokenTypes
<1>3. stream' \in Seq(Tokens) /\ (raw = << >> => stream'[1] = HeadOf(said))
  BY <1>1, <1>2
<1>4. Begins(raw, stream', said)
  BY <1>0, <1>1, <1>3 DEF Begins
<1>5. Arriving'
  BY <1>0, <1>1, <1>3, <1>4 DEF IInv, Arriving
<1>6. CallTyped' /\ Homely' /\ SecretsStayHome' /\ HistoryIsTheChain'
  BY <1>1 DEF IInv, CallTyped, Homely, SecretsStayHome, HistoryIsTheChain
<1>7. WholeOrError'
  BY <1>0, <1>1, NotDoneYet
<1>8. QED
  BY <1>5, <1>6, <1>7 DEF IInv

LEMMA HoldKeeps ==
  ASSUME IInv, Hold
  PROVE  IInv'
<1>1. /\ call.pc \in {"tls", "read"} /\ call \in Calls /\ call' = [call EXCEPT !.pc = "held"]
      /\ UNCHANGED <<fd, conn, stream, said, raw, result, sent>>
  BY DEF IInv, CallTyped, Hold, Goto
<1>2. /\ call' \in Calls /\ call'.pc = "held"
      /\ call'.url = call.url /\ call'.origin = call.origin /\ call'.creds = call.creds
      /\ call'.hop = call.hop /\ call'.hist = call.hist
  BY <1>1 DEF Calls, Steps, InHop
<1>3. CallTyped'
  BY <1>1, <1>2 DEF IInv, CallTyped, InHop
<1>4. Arriving'
  BY <1>1, <1>2 DEF IInv, Arriving
<1>5. Homely' /\ SecretsStayHome'
  BY <1>1, <1>2 DEF IInv, Homely, SecretsStayHome, InHop
<1>6. HistoryIsTheChain'
  BY <1>1, <1>2 DEF IInv, HistoryIsTheChain
<1>7. WholeOrError'
  BY <1>2 DEF WholeOrError
<1>8. QED
  BY <1>3, <1>4, <1>5, <1>6, <1>7 DEF IInv

LEMMA EndOfStreamKeeps ==
  ASSUME IInv, EndOfStream
  PROVE  IInv'
<1>0. /\ call.pc = "read" /\ raw \in Seq(Tokens) /\ stream \in Seq(Tokens)
      /\ Len(raw) <= MaxBytes + Piece /\ Begins(raw, stream, said)
  BY DEF IInv, Arriving, EndOfStream
<1>1. UNCHANGED <<fd, conn, said, raw, result, sent>> /\ stream' = << >> /\ Goto("parse")
  BY DEF EndOfStream
<1>2. << >> \in Seq(Tokens) /\ Len(<< >>) = 0
  OBVIOUS
<1>3. Begins(raw, << >>, said)
  <2>1. Len(raw) \in Nat /\ Len(stream) \in Nat
    BY <1>0
  <2>2. ASSUME said.framing # "endless"
        PROVE  /\ Len(raw) + Len(<< >>) <= Len(OnTheWire(said))
               /\ \A i \in 1 .. Len(raw) : raw[i] = OnTheWire(said)[i]
               /\ \A i \in 1 .. Len(<< >>) : << >>[i] = OnTheWire(said)[Len(raw) + i]
    <3>1. /\ Len(raw) + Len(stream) <= Len(OnTheWire(said))
          /\ \A i \in 1 .. Len(raw) : raw[i] = OnTheWire(said)[i]
      BY <1>0, <2>2 DEF Begins
    <3>2. Len(OnTheWire(said)) \in Nat
      <4>1. said \in Responses
        BY <1>0 DEF IInv, Arriving
      <4>2. OnTheWire(said) \in Seq(Tokens)
        BY <4>1, WireIs
      <4>3. QED
        BY <4>2
    <3>3. QED
      BY <1>2, <2>1, <3>1, <3>2
  <2>3. raw # << >> => raw[1] = HeadOf(said)
    BY <1>0 DEF Begins
  <2>4. QED
    BY <2>2, <2>3 DEF Begins
<1>4. QED
  BY <1>0, <1>1, <1>2, <1>3, ArrivingKeeps

(* What an answer is that carries no error.                                *)
LEMMA AnswerIsWhole ==
  ASSUME IInv, call.pc = "parse", Answer.error = Ok
  PROVE  /\ Answer.location \in Urls \cup {BadUrl, NoLocation, RelativeLocation}
         /\ call.method # "HEAD" /\ said.framing \in {"length", "chunked"} =>
              Answer.status = said.status /\ Answer.body = Units(said)
<1>1. Answer = ParseResponse(raw, call.method)
  <2>1. CASE Len(raw) > MaxBytes
    <3>1. Answer = Failed("over the limit", 0)
      BY <2>1 DEF Answer
    <3>2. Answer.error = "over the limit"
      BY <3>1 DEF Failed
    <3>3. QED
      BY <3>2 DEF Ok
  <2>2. CASE ~(Len(raw) > MaxBytes)
    BY <2>2 DEF Answer
  <2>3. QED
    BY <2>1, <2>2
<1>2. said \in Responses /\ raw \in Seq(Tokens) /\ stream \in Seq(Tokens) /\ Begins(raw, stream, said)
  BY DEF IInv, Arriving
<1>3. ParseResponse(raw, call.method).error = Ok
  BY <1>1
<1>4. /\ ParseResponse(raw, call.method).status = said.status
      /\ ParseResponse(raw, call.method).location = said.location
      /\ call.method # "HEAD" /\ said.framing \in {"length", "chunked"} =>
           ParseResponse(raw, call.method).body = Units(said)
  BY <1>2, <1>3, ParsedIsWhole
<1>5. said.location \in Urls \cup {BadUrl, NoLocation, RelativeLocation}
  BY <1>2, RequestsAssumption
<1>6. QED
  BY <1>1, <1>4, <1>5

(* The history grows by the hop that is followed.                          *)
LEMMA HistoryGrows ==
  ASSUME NEW h \in Seq(Targets \X Targets), NEW u \in Targets, NEW l \in Targets, NEW n, Len(h) = n,
         \A i \in 1 .. Len(h) - 1 : h[i][2] = h[i + 1][1],
         h # << >> => h[Len(h)][2] = u
  PROVE  LET g == Append(h, <<u, l>>)
         IN  /\ g \in Seq(Targets \X Targets) /\ Len(g) = n + 1
             /\ \A i \in 1 .. Len(g) - 1 : g[i][2] = g[i + 1][1]
             /\ g # << >> /\ g[Len(g)][2] = l
<1> DEFINE x == <<u, l>>
           g == Append(h, x)
<1>1. Len(h) \in Nat /\ x \in Targets \X Targets /\ x[1] = u /\ x[2] = l
  OBVIOUS
<1> HIDE DEF x
<1>2. /\ g \in Seq(Targets \X Targets) /\ Len(g) = Len(h) + 1 /\ g[Len(h) + 1] = x
      /\ \A i \in 1 .. Len(h) : g[i] = h[i]
  BY <1>1
<1> HIDE DEF g
<1>3. ASSUME NEW i \in 1 .. Len(g) - 1 PROVE g[i][2] = g[i + 1][1]
  <2>1. i \in 1 .. Len(h)
    BY <1>1, <1>2
  <2>2. CASE i = Len(h)
    <3>1. h # << >>
      BY <2>1
    <3>2. g[i] = h[Len(h)] /\ g[i + 1] = x
      BY <1>2, <2>1, <2>2
    <3>3. QED
      BY <1>1, <3>1, <3>2
  <2>3. CASE i # Len(h)
    <3>1. i \in 1 .. Len(h) - 1 /\ i + 1 \in 1 .. Len(h)
      BY <1>1, <2>1, <2>3
    <3>2. g[i] = h[i] /\ g[i + 1] = h[i + 1]
      BY <1>2, <3>1
    <3>3. QED
      BY <3>1, <3>2
  <2>4. QED
    BY <2>2, <2>3
<1>4. g # << >>
  <2>1. Len(g) # 0
    BY <1>1, <1>2
  <2>2. QED
    BY <2>1
<1>5. g[Len(g)][2] = l
  BY <1>1, <1>2
<1>6. QED
  BY <1>2, <1>3, <1>4, <1>5 DEF g, x

LEMMA FinishKeeps ==
  ASSUME IInv, Finish
  PROVE  IInv'
<1>0. /\ call.pc = "parse" /\ call \in Calls /\ fd' = FALSE /\ conn' = FALSE /\ raw' = << >>
      /\ UNCHANGED <<stream, said, sent>>
  BY DEF IInv, CallTyped, Finish, CloseBoth
<1>1. stream \in Seq(Tokens) /\ << >> \in Seq(Tokens) /\ Len(<< >>) <= MaxBytes + Piece
  BY <1>0, RequestsAssumption DEF IInv, Arriving
<1>2. ASSUME Goto("done"), WholeOrError'
      PROVE  IInv'
  <2>1. SameButStep("done")
    BY <1>0, <1>2, GotoMoves DEF Steps
  <2>2. /\ call' \in Calls /\ call'.pc = "done"
        /\ Homely' /\ SecretsStayHome' /\ HistoryIsTheChain'
    BY <1>0, <2>1, HopGoesOn DEF Steps, InHop
  <2>3. CallTyped'
    BY <1>0, <2>2 DEF CallTyped, InHop
  <2>4. Arriving'
    BY <1>0, <1>1, <2>2 DEF Arriving
  <2>5. QED
    BY <1>2, <2>2, <2>3, <2>4 DEF IInv
<1>3. ASSUME Return(Answer)
      PROVE  IInv'
  <2>1. Goto("done") /\ result' = Answer
    BY <1>3 DEF Return
  <2>2. call'.method = call.method /\ said' = said
    BY <1>0, <2>1, GotoMoves DEF SameButStep, Steps
  <2>3. CASE Answer.error = Ok
    <3>1. call.method # "HEAD" /\ said.framing \in {"length", "chunked"} =>
            Answer.status = said.status /\ Answer.body = Units(said)
      BY <1>0, <2>3, AnswerIsWhole
    <3>2. result'.status = Answer.status /\ result'.body = Answer.body
      BY <2>1
    <3>3. WholeOrError'
      BY <2>2, <3>1, <3>2 DEF WholeOrError
    <3>4. QED
      BY <1>2, <2>1, <3>3
  <2>4. CASE Answer.error # Ok
    <3>1. result'.error # Ok
      BY <2>1, <2>4
    <3>2. WholeOrError'
      BY <3>1 DEF WholeOrError
    <3>3. QED
      BY <1>2, <2>1, <3>2
  <2>5. QED
    BY <2>3, <2>4
<1>4. ASSUME Return(Failed("location", Answer.status))
      PROVE  IInv'
  <2>1. Goto("done") /\ result' = Failed("location", Answer.status)
    BY <1>4 DEF Return
  <2>2. WholeOrError'
    BY <2>1, FailureIsAnError
  <2>3. QED
    BY <1>2, <2>1, <2>2
<1>5. ASSUME Redirects(Answer), Answer.location \notin {NoLocation, RelativeLocation},
             call' = Follow(Answer)
      PROVE  IInv'
  <2>1. Answer.location \in Targets
    <3>1. Answer.error = Ok
      BY <1>5 DEF Redirects
    <3>2. Answer.location \in Urls \cup {BadUrl, NoLocation, RelativeLocation}
      BY <1>0, <3>1, AnswerIsWhole
    <3>3. QED
      BY <1>5, <3>2 DEF Targets
  <2> DEFINE l == Answer.location
             g == Append(call.hist, <<call.url, l>>)
             m == NextMethod(call.method, Answer.status)
  <2>2. m \in Methods \cup {"GET"}
    BY <1>0 DEF Calls, NextMethod
  <2>3. /\ g \in Seq(Targets \X Targets) /\ Len(g) = call.hop + 1
        /\ \A i \in 1 .. Len(g) - 1 : g[i][2] = g[i + 1][1]
        /\ g # << >> /\ g[Len(g)][2] = l
    <3>1. call.hist \in Seq(Targets \X Targets) /\ call.url \in Targets
      BY <1>0 DEF Calls
    <3>2. /\ Len(call.hist) = call.hop
          /\ \A i \in 1 .. Len(call.hist) - 1 : call.hist[i][2] = call.hist[i + 1][1]
          /\ call.hist # << >> => call.hist[Len(call.hist)][2] = call.url
      BY DEF IInv, HistoryIsTheChain
    <3>3. QED
      BY <2>1, <3>1, <3>2, HistoryGrows
  <2>4. call.hop + 1 \in 0 .. MaxRedirects + 1
    BY <1>0, RequestsAssumption DEF IInv, HistoryIsTheChain, Calls
  <2>5. call' = [call EXCEPT !.pc = "hop", !.url = l, !.hop = call.hop + 1, !.method = m, !.hist = g]
    BY <1>5 DEF Follow
  <2> HIDE DEF l, g, m
  <2>6. /\ call' \in Calls /\ call'.pc = "hop" /\ call'.url = l /\ call'.hop = call.hop + 1
        /\ call'.hist = g /\ call'.origin = call.origin
    <3>1. l \in Targets
      BY <2>1 DEF l
    <3>2. QED
      BY <1>0, <2>2, <2>3, <2>4, <2>5, <3>1 DEF Calls, Steps
  <2>7. CallTyped'
    BY <1>0, <2>6 DEF CallTyped, InHop
  <2>8. Arriving'
    BY <1>0, <1>1, <2>6 DEF Arriving
  <2>9. Homely' /\ SecretsStayHome'
    BY <1>0, <2>6 DEF IInv, Homely, SecretsStayHome, InHop
  <2>10. HistoryIsTheChain'
    BY <2>3, <2>6 DEF HistoryIsTheChain
  <2>11. WholeOrError'
    BY <2>6, NotDoneYet
  <2>12. QED
    BY <2>7, <2>8, <2>9, <2>10, <2>11 DEF IInv
<1>6. QED
  BY <1>3, <1>4, <1>5 DEF Finish

LEMMA StepKeeps ==
  ASSUME IInv, [Next]_vars
  PROVE  IInv'
<1>1. CASE UNCHANGED vars
  BY <1>1 DEF vars, IInv, CallTyped, Arriving, Homely, SecretsStayHome, HistoryIsTheChain, WholeOrError
<1>2. CASE Next
  <2>1. CASE \E m \in Methods, url \in Urls \union {BadUrl}, creds, follow \in BOOLEAN :
               Call(m, url, creds, follow)
    BY <2>1, CallKeeps
  <2>2. CASE Step
    BY <2>2, BeginHopKeeps, ConnectKeeps, HandshakeKeeps, SendKeeps, RecvKeeps,
       EndOfStreamKeeps, FinishKeeps DEF Step
  <2>3. CASE Babble
    BY <2>3, BabbleKeeps
  <2>4. CASE Hold
    BY <2>4, HoldKeeps
  <2>5. QED
    BY <1>2, <2>1, <2>2, <2>3, <2>4 DEF Next
<1>3. QED
  BY <1>1, <1>2

(* The inductive invariant holds in every state of every behaviour.        *)
THEOREM Invariance == Spec => []IInv
<1>1. Init => IInv
  BY InitHolds
<1>2. IInv /\ [Next]_vars => IInv'
  BY StepKeeps
<1>3. QED
  BY <1>1, <1>2, PTL DEF Spec

(* A body whose length was declared is whole and in order, or the call     *)
(* reports an error: wherever the connection was cut, and however many     *)
(* pieces it came in.                                                      *)
THEOREM BodiesAreWhole == Spec => []WholeOrError
<1>1. IInv => WholeOrError
  BY DEF IInv
<1>2. QED
  BY <1>1, Invariance, PTL

(* Credentials reach no host but the one the call was made to, whatever    *)
(* chain of redirects the servers answer with.                             *)
THEOREM SecretsAreKept == Spec => []SecretsStayHome
<1>1. IInv => SecretsStayHome
  BY DEF IInv
<1>2. QED
  BY <1>1, Invariance, PTL

(* The history is the chain that was followed, no hop is made past the     *)
(* bound, and descriptors are open only inside a hop.                      *)
THEOREM ChainsAreSound == Spec => []ChainIsSound
<1>1. IInv => ChainIsSound
  <2>1. ASSUME IInv PROVE TypeOK
    <3>1. call \in Calls /\ Len(raw) <= MaxBytes + Piece
      BY <2>1 DEF IInv, CallTyped, Arriving
    <3>2. (fd => call.pc \in {"tls", "send", "read", "held", "parse"}) /\ (conn => fd)
      BY <2>1 DEF IInv, CallTyped
    <3>3. QED
      BY <3>1, <3>2 DEF TypeOK, Calls, Steps, InHop
  <2>2. QED
    BY <2>1 DEF IInv, ChainIsSound
<1>2. QED
  BY <1>1, Invariance, PTL
===============================================================================
