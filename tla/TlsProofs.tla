------------------------------ MODULE TlsProofs ------------------------------
(* Theorems about the sessions of Tls for any servers, sizes and windows:  *)
(* what recv() returns, and what "" and a close_notify mean.               *)
(*                                                                         *)
(* The argument: for each direction there is a map P from the numbers of   *)
(* the session's records to places in the data (Stream).  The writer's key *)
(* knows the end of P, the reader's key a number at which P is what it has *)
(* read, and every record that arrives whole carries the data between its  *)
(* own place and the next.  A send that fails spends a number and moves    *)
(* the next place past the data it dropped: the reader's number stays      *)
(* behind for good, and nothing authenticates any more.                    *)
EXTENDS Tls, SequenceTheorems, TLAPS

-----------------------------------------------------------------------------
(* The inductive invariant                                                 *)

AppLabels == {"c ap", "s ap"}
HsLabels  == {"c hs", "s hs"}
Shaking   == {"flight", "declined", "change", "send", "finished"}
Young     == {"start", "hello", "answer", "failed"} \cup Shaking
Live      == {"open", "closing"}

IsSeq(s) == \E S : s \in Seq(S)
IsKey(k) == k = [key |-> k.key, seq |-> k.seq] /\ k.seq \in Nat

WireShaped ==
  /\ DOMAIN chan = Ends /\ DOMAIN buf = Ends
  /\ \A e \in Ends : IsSeq(chan[e]) /\ IsSeq(buf[e])

EndShaped ==
  /\ DOMAIN pc = Ends /\ DOMAIN tx = Ends /\ DOMAIN rx = Ends
  /\ DOMAIN transcript = Ends /\ DOMAIN secret = Ends

SessionShaped ==
  /\ DOMAIN reader = Ends /\ DOMAIN want = Ends /\ DOMAIN pending = Ends
  /\ DOMAIN closed = Ends /\ DOMAIN ended = Ends /\ DOMAIN eof = Ends
  /\ DOMAIN rest = Ends /\ DOMAIN said = Ends /\ DOMAIN got = Ends
  /\ \A e \in Ends : IsSeq(pending[e]) /\ IsSeq(got[e]) /\ IsSeq(rest[e]) /\ said[e] \in Nat

Shaped == WireShaped /\ EndShaped /\ SessionShaped

(* Where an end is, and the keys it has there.                             *)
Phased ==
  \A e \in Ends :
    /\ pc[e] \in Young \cup Live \cup {"closed"}
    /\ pc[e] \in Shaking \cup Live => IsKey(tx[e]) /\ IsKey(rx[e])
    /\ pc[e] \in Shaking => tx[e].key[1] \in HsLabels /\ rx[e].key[1] \in HsLabels
    /\ pc[e] \in Live => tx[e].key[1] \in AppLabels /\ rx[e].key[1] \in AppLabels

(* The reader: it is inside a session, and what ended recv() stays.        *)
Reading ==
  \A e \in Ends :
    /\ reader[e] = "recv" => pc[e] = "open" /\ want[e] \in Nat \ {0}
    /\ pc[e] \in Young => pending[e] = <<>> /\ got[e] = <<>> /\ rest[e] = <<>> /\ said[e] = 0
                          /\ ended[e] = "none" /\ ~eof[e]
    /\ rest[e] # <<>> => pc[e] = "open"
    /\ ended[e] # "none" => closed[e]
    /\ eof[e] => pending[e] = <<>> /\ (closed[e] \/ pc[e] = "closed")

(* What e has sent and its peer has not taken yet, and what it has read.   *)
Pipe(e) == buf[Peer(e)] \o chan[Peer(e)]
All(e)  == got[e] \o pending[e]

(* P is where in the data the records of a session begin, by their numbers *)
(* below n: a record that arrived whole carries the data from there up to  *)
(* where the next begins, and an alert nothing, when all was said.         *)
Carries(r, P, n, total, over) ==
  /\ r.seq \in 0 .. n - 1
  /\ r.inner = "app" =>
       /\ Len(r.content) \in Nat
       /\ r.content = [j \in 1 .. Len(r.content) |-> P[r.seq] + j]
       /\ P[r.seq + 1] = P[r.seq] + Len(r.content)
  /\ r.inner # "app" => P[r.seq + 1] = P[r.seq]
  /\ r.inner = "alert" => P[r.seq] = total /\ over

OfSession(r) == r.type = "data" /\ r.key[1] \in AppLabels

Carried(q, P, n, total, over) ==
  \A i \in 1 .. Len(q) - 1 :
    q[i].part = "head" /\ q[i + 1].part = "body" /\ OfSession(q[i].of)
      => Carries(q[i].of, P, n, total, over)

Sent(e, P, n) ==
  /\ P[0] = 0 /\ \A j \in 0 .. n : P[j] <= said[e]
  /\ pc[e] \in Live => /\ n = tx[e].seq /\ P[n] + Len(rest[e]) = said[e]
                       /\ rest[e] = [j \in 1 .. Len(rest[e]) |-> P[n] + j]
  /\ pc[e] \in Young => n = 0
  /\ Carried(Pipe(e), P, n, said[e], pc[e] = "closed")

Heard(f, P, n) ==
  pc[f] \in Live /\ ended[f] # "auth" => rx[f].seq \in 0 .. n /\ P[rx[f].seq] = Len(All(f))

Stream(e) == \E P \in [Nat -> Nat], n \in Nat : Sent(e, P, n) /\ Heard(Peer(e), P, n)

(* What was read is a prefix of what was said, all of it after a notify.   *)
Told(f) ==
  /\ All(f) = [j \in 1 .. Len(All(f)) |-> j] /\ Len(All(f)) <= said[Peer(f)]
  /\ ended[f] = "notify" => pc[Peer(f)] = "closed" /\ Len(All(f)) = said[Peer(f)]

Streams == \A e \in Ends : Stream(e) /\ Told(e)

SInv == Shaped /\ Phased /\ Reading /\ Streams

-----------------------------------------------------------------------------
(* Sequences of anything                                                   *)

LEMMA Together ==
  ASSUME NEW s, NEW t, IsSeq(s), IsSeq(t)
  PROVE  \E S : s \in Seq(S) /\ t \in Seq(S)
<1>1. PICK S : s \in Seq(S)
  BY DEF IsSeq
<1>2. PICK T : t \in Seq(T)
  BY DEF IsSeq
<1>3. s \in Seq(S \cup T) /\ t \in Seq(S \cup T)
  BY <1>1, <1>2, SeqMonotonic
<1>4. QED
  BY <1>3

LEMMA SeqBasics ==
  ASSUME NEW s, IsSeq(s)
  PROVE  Len(s) \in Nat /\ DOMAIN s = 1 .. Len(s) /\ (Len(s) = 0 <=> s = <<>>)
<1>1. PICK S : s \in Seq(S)
  BY DEF IsSeq
<1>2. Len(s) \in Nat /\ DOMAIN s = 1 .. Len(s)
  BY <1>1, LenProperties
<1>3. Len(s) = 0 <=> s = <<>>
  BY <1>1, EmptySeq
<1>4. QED
  BY <1>2, <1>3

LEMMA SeqSame ==
  ASSUME NEW s, NEW t, IsSeq(s), IsSeq(t), Len(s) = Len(t), \A i \in 1 .. Len(s) : s[i] = t[i]
  PROVE  s = t
<1>1. PICK S : s \in Seq(S) /\ t \in Seq(S)
  BY Together
<1>2. QED
  BY <1>1, SeqEqual

LEMMA SeqCat ==
  ASSUME NEW s, NEW t, IsSeq(s), IsSeq(t)
  PROVE  /\ IsSeq(s \o t) /\ Len(s \o t) = Len(s) + Len(t)
         /\ \A i \in 1 .. Len(s) : (s \o t)[i] = s[i]
         /\ \A i \in 1 .. Len(t) : (s \o t)[Len(s) + i] = t[i]
<1>1. PICK S : s \in Seq(S) /\ t \in Seq(S)
  BY Together
<1>2. Len(s) \in Nat /\ Len(t) \in Nat
  BY SeqBasics
<1>3. /\ s \o t \in Seq(S) /\ Len(s \o t) = Len(s) + Len(t)
      /\ \A i \in 1 .. Len(s) + Len(t) : (s \o t)[i] = IF i <= Len(s) THEN s[i] ELSE t[i - Len(s)]
  BY <1>1, ConcatProperties
<1>4. IsSeq(s \o t)
  BY <1>3 DEF IsSeq
<1>5. ASSUME NEW i \in 1 .. Len(s) PROVE (s \o t)[i] = s[i]
  BY <1>2, <1>3
<1>6. ASSUME NEW i \in 1 .. Len(t) PROVE (s \o t)[Len(s) + i] = t[i]
  <2>1. Len(s) + i \in 1 .. Len(s) + Len(t) /\ ~(Len(s) + i <= Len(s)) /\ (Len(s) + i) - Len(s) = i
    BY <1>2
  <2>2. QED
    BY <1>3, <2>1
<1>7. QED
  BY <1>3, <1>4, <1>5, <1>6

LEMMA SeqCut ==
  ASSUME NEW s, IsSeq(s), NEW k \in 0 .. Len(s)
  PROVE  /\ IsSeq(SubSeq(s, k + 1, Len(s))) /\ Len(SubSeq(s, k + 1, Len(s))) = Len(s) - k
         /\ \A i \in 1 .. Len(s) - k : SubSeq(s, k + 1, Len(s))[i] = s[k + i]
         /\ IsSeq(SubSeq(s, 1, k)) /\ Len(SubSeq(s, 1, k)) = k
         /\ \A i \in 1 .. k : SubSeq(s, 1, k)[i] = s[i]
<1>1. PICK S : s \in Seq(S)
  BY DEF IsSeq
<1>2. Len(s) \in Nat /\ \A i \in 1 .. Len(s) : s[i] \in S
  BY <1>1, LenProperties, ElementOfSeq
<1>3. /\ SubSeq(s, k + 1, Len(s)) \in Seq(S)
      /\ Len(SubSeq(s, k + 1, Len(s))) = IF k + 1 <= Len(s) THEN Len(s) - (k + 1) + 1 ELSE 0
      /\ \A i \in 1 .. Len(s) - (k + 1) + 1 : SubSeq(s, k + 1, Len(s))[i] = s[k + 1 + i - 1]
  <2>1. k + 1 \in Int /\ Len(s) \in Int /\ \A i \in k + 1 .. Len(s) : s[i] \in S
    BY <1>2
  <2>2. QED
    BY <2>1, SubSeqProperties
<1>4. /\ SubSeq(s, 1, k) \in Seq(S)
      /\ Len(SubSeq(s, 1, k)) = IF 1 <= k THEN k - 1 + 1 ELSE 0
      /\ \A i \in 1 .. k - 1 + 1 : SubSeq(s, 1, k)[i] = s[1 + i - 1]
  <2>1. 1 \in Int /\ k \in Int /\ \A i \in 1 .. k : s[i] \in S
    BY <1>2
  <2>2. QED
    BY <2>1, SubSeqProperties
<1>5. IsSeq(SubSeq(s, k + 1, Len(s))) /\ IsSeq(SubSeq(s, 1, k))
  BY <1>3, <1>4 DEF IsSeq
<1>6. Len(SubSeq(s, k + 1, Len(s))) = Len(s) - k /\ Len(SubSeq(s, 1, k)) = k
  BY <1>2, <1>3, <1>4
<1>7. ASSUME NEW i \in 1 .. Len(s) - k PROVE SubSeq(s, k + 1, Len(s))[i] = s[k + i]
  <2>1. i \in 1 .. Len(s) - (k + 1) + 1 /\ k + 1 + i - 1 = k + i
    BY <1>2
  <2>2. QED
    BY <1>3, <2>1
<1>8. ASSUME NEW i \in 1 .. k PROVE SubSeq(s, 1, k)[i] = s[i]
  <2>1. i \in 1 .. k - 1 + 1 /\ 1 + i - 1 = i
    OBVIOUS
  <2>2. QED
    BY <1>4, <2>1
<1>9. QED
  BY <1>5, <1>6, <1>7, <1>8

LEMMA SeqAssoc ==
  ASSUME NEW s, NEW t, NEW u, IsSeq(s), IsSeq(t), IsSeq(u)
  PROVE  (s \o t) \o u = s \o (t \o u)
<1> DEFINE st == s \o t
           tu == t \o u
           l == st \o u
           r == s \o tu
<1>1. Len(s) \in Nat /\ Len(t) \in Nat /\ Len(u) \in Nat
  BY SeqBasics
<1>2. /\ IsSeq(st) /\ Len(st) = Len(s) + Len(t)
      /\ \A i \in 1 .. Len(s) : st[i] = s[i]
      /\ \A i \in 1 .. Len(t) : st[Len(s) + i] = t[i]
  BY SeqCat
<1>3. /\ IsSeq(tu) /\ Len(tu) = Len(t) + Len(u)
      /\ \A i \in 1 .. Len(t) : tu[i] = t[i]
      /\ \A i \in 1 .. Len(u) : tu[Len(t) + i] = u[i]
  BY SeqCat
<1> HIDE DEF st, tu
<1>4. /\ IsSeq(l) /\ Len(l) = Len(st) + Len(u)
      /\ \A i \in 1 .. Len(st) : l[i] = st[i]
      /\ \A i \in 1 .. Len(u) : l[Len(st) + i] = u[i]
  <2>1. IsSeq(st)
    BY <1>2
  <2>2. QED
    BY <2>1, SeqCat
<1>5. /\ IsSeq(r) /\ Len(r) = Len(s) + Len(tu)
      /\ \A i \in 1 .. Len(s) : r[i] = s[i]
      /\ \A i \in 1 .. Len(tu) : r[Len(s) + i] = tu[i]
  <2>1. IsSeq(tu)
    BY <1>3
  <2>2. QED
    BY <2>1, SeqCat
<1> HIDE DEF l, r
<1>6. Len(l) = Len(r)
  BY <1>1, <1>2, <1>3, <1>4, <1>5
<1>7. ASSUME NEW i \in 1 .. Len(l) PROVE l[i] = r[i]
  <2>1. CASE i <= Len(s)
    <3>1. i \in 1 .. Len(s) /\ i \in 1 .. Len(st)
      BY <1>1, <1>2, <2>1
    <3>2. QED
      BY <1>2, <1>4, <1>5, <3>1
  <2>2. CASE Len(s) < i /\ i <= Len(s) + Len(t)
    <3>1. PICK j \in 1 .. Len(t) : i = Len(s) + j
      <4>1. i - Len(s) \in 1 .. Len(t) /\ i = Len(s) + (i - Len(s))
        BY <1>1, <2>2
      <4>2. QED
        BY <4>1
    <3>2. i \in 1 .. Len(st) /\ j \in 1 .. Len(tu)
      BY <1>1, <1>2, <1>3, <2>2
    <3>3. QED
      BY <1>2, <1>3, <1>4, <1>5, <3>1, <3>2
  <2>3. CASE Len(s) + Len(t) < i
    <3>1. PICK j \in 1 .. Len(u) : i = Len(st) + j
      <4>1. i - Len(st) \in 1 .. Len(u) /\ i = Len(st) + (i - Len(st))
        BY <1>1, <1>2, <1>4, <2>3
      <4>2. QED
        BY <4>1
    <3>2. Len(t) + j \in 1 .. Len(tu) /\ i = Len(s) + (Len(t) + j)
      BY <1>1, <1>2, <1>3, <3>1
    <3>3. QED
      BY SMTT(30), <1>3, <1>4, <1>5, <3>1, <3>2
  <2>4. QED
    BY <1>1, <2>1, <2>2, <2>3
<1>8. l = r
  BY <1>4, <1>5, <1>6, <1>7, SeqSame
<1>9. QED
  BY <1>8 DEF l, r, st, tu

(* Taking the first k of t behind s.                                       *)
LEMMA SeqMove ==
  ASSUME NEW s, NEW t, IsSeq(s), IsSeq(t), NEW k \in 0 .. Len(t)
  PROVE  (s \o SubSeq(t, 1, k)) \o SubSeq(t, k + 1, Len(t)) = s \o t
<1>1. PICK S : t \in Seq(S)
  BY DEF IsSeq
<1>2. Len(t) \in Nat /\ \A i \in 1 .. Len(t) : t[i] \in S
  BY <1>1, LenProperties, ElementOfSeq
<1>3. SubSeq(t, 1, k) \in Seq(S) /\ SubSeq(t, k + 1, Len(t)) \in Seq(S)
  <2>1. 1 \in Int /\ k \in Int /\ k + 1 \in Int /\ Len(t) \in Int
        /\ (\A i \in 1 .. k : t[i] \in S) /\ \A i \in k + 1 .. Len(t) : t[i] \in S
    BY <1>2
  <2>2. QED
    BY <2>1, SubSeqProperties
<1>4. SubSeq(t, 1, k) \o SubSeq(t, k + 1, Len(t)) = t
  <2>1. 1 \in 1 .. Len(t) + 1 /\ k \in 1 - 1 .. Len(t) /\ Len(t) \in k .. Len(t)
    BY <1>2
  <2>2. SubSeq(t, 1, k) \o SubSeq(t, k + 1, Len(t)) = SubSeq(t, 1, Len(t))
    BY <1>1, <2>1, ConcatAdjacentSubSeq
  <2>3. QED
    BY <1>1, <2>2, SubSeqFull
<1> DEFINE x == SubSeq(t, 1, k)
           y == SubSeq(t, k + 1, Len(t))
<1>5. IsSeq(x) /\ IsSeq(y) /\ x \o y = t
  BY <1>3, <1>4 DEF IsSeq
<1> HIDE DEF x, y
<1>6. (s \o x) \o y = s \o (x \o y)
  <2>1. IsSeq(x) /\ IsSeq(y)
    BY <1>5
  <2>2. QED
    BY SMTT(30), <2>1, SeqAssoc
<1>7. QED
  BY <1>5, <1>6 DEF x, y

(* What lies behind the first two of s \o t when s has them.               *)
LEMMA SeqDrop ==
  ASSUME NEW s, NEW t, IsSeq(s), IsSeq(t), NEW k \in 0 .. Len(s)
  PROVE  SubSeq(s, k + 1, Len(s)) \o t = SubSeq(s \o t, k + 1, Len(s \o t))
<1> DEFINE a == SubSeq(s, k + 1, Len(s))
           b == SubSeq(s \o t, k + 1, Len(s \o t))
<1>1. Len(s) \in Nat /\ Len(t) \in Nat
  BY SeqBasics
<1>2. /\ IsSeq(s \o t) /\ Len(s \o t) = Len(s) + Len(t)
      /\ \A i \in 1 .. Len(s) : (s \o t)[i] = s[i]
      /\ \A i \in 1 .. Len(t) : (s \o t)[Len(s) + i] = t[i]
  BY SeqCat
<1>3. IsSeq(a) /\ Len(a) = Len(s) - k /\ \A i \in 1 .. Len(s) - k : a[i] = s[k + i]
  BY SeqCut
<1>4. /\ IsSeq(b) /\ Len(b) = Len(s) + Len(t) - k
      /\ \A i \in 1 .. Len(s) + Len(t) - k : b[i] = (s \o t)[k + i]
  <2> DEFINE st == s \o t
  <2>1. IsSeq(st) /\ Len(st) = Len(s) + Len(t) /\ k \in 0 .. Len(st)
    BY <1>1, <1>2
  <2> HIDE DEF st
  <2>2. /\ IsSeq(SubSeq(st, k + 1, Len(st))) /\ Len(SubSeq(st, k + 1, Len(st))) = Len(st) - k
        /\ \A i \in 1 .. Len(st) - k : SubSeq(st, k + 1, Len(st))[i] = st[k + i]
    BY <2>1, SeqCut
  <2>3. QED
    BY <2>1, <2>2 DEF st
<1> HIDE DEF a, b
<1>5. /\ IsSeq(a \o t) /\ Len(a \o t) = Len(a) + Len(t)
      /\ \A i \in 1 .. Len(a) : (a \o t)[i] = a[i]
      /\ \A i \in 1 .. Len(t) : (a \o t)[Len(a) + i] = t[i]
  <2>1. IsSeq(a)
    BY <1>3
  <2>2. QED
    BY <2>1, SeqCat
<1>6. Len(a \o t) = Len(b)
  BY <1>1, <1>3, <1>4, <1>5
<1>7. ASSUME NEW i \in 1 .. Len(b) PROVE (a \o t)[i] = b[i]
  <2>1. CASE i <= Len(s) - k
    <3>1. i \in 1 .. Len(s) - k /\ i \in 1 .. Len(a) /\ k + i \in 1 .. Len(s) /\ i \in 1 .. Len(s) + Len(t) - k
      BY <1>1, <1>3, <2>1
    <3>2. QED
      BY <1>2, <1>3, <1>4, <1>5, <3>1
  <2>2. CASE ~(i <= Len(s) - k)
    <3>1. PICK j \in 1 .. Len(t) : i = Len(a) + j /\ k + i = Len(s) + j
      <4>1. i - (Len(s) - k) \in 1 .. Len(t)
        BY <1>1, <1>4, <2>2
      <4>2. i = Len(a) + (i - (Len(s) - k)) /\ k + i = Len(s) + (i - (Len(s) - k))
        BY <1>1, <1>3
      <4>3. QED
        BY <4>1, <4>2
    <3>2. i \in 1 .. Len(s) + Len(t) - k
      BY <1>1, <1>4
    <3>3. QED
      BY <1>2, <1>4, <1>5, <3>1, <3>2
  <2>3. QED
    BY <2>1, <2>2
<1>8. QED
  BY <1>4, <1>5, <1>6, <1>7, SeqSame DEF a, b

LEMMA SeqOne ==
  ASSUME NEW x
  PROVE  IsSeq(<<x>>) /\ Len(<<x>>) = 1 /\ <<x>>[1] = x /\ IsSeq(<<>>) /\ Len(<<>>) = 0
<1>1. <<x>> \in Seq({x}) /\ <<>> \in Seq({x})
  OBVIOUS
<1>2. QED
  BY <1>1 DEF IsSeq

LEMMA SeqAppend ==
  ASSUME NEW s, IsSeq(s), NEW x
  PROVE  Append(s, x) = s \o <<x>>
<1>1. PICK S : s \in Seq(S) /\ <<x>> \in Seq(S)
  BY SeqOne, Together
<1>2. x \in S
  <2>1. Len(<<x>>) = 1 /\ <<x>>[1] = x
    BY SeqOne
  <2>2. 1 \in 1 .. Len(<<x>>)
    BY <2>1
  <2>3. <<x>>[1] \in S
    BY <1>1, <2>2, ElementOfSeq
  <2>4. QED
    BY <2>1, <2>3
<1>3. QED
  BY <1>1, <1>2, AppendIsConcat

LEMMA SeqCount ==
  ASSUME NEW n \in Nat, NEW a \in Nat
  PROVE  /\ IsSeq([j \in 1 .. n |-> a + j]) /\ Len([j \in 1 .. n |-> a + j]) = n
         /\ \A j \in 1 .. n : [i \in 1 .. n |-> a + i][j] = a + j
<1> DEFINE s == [j \in 1 .. n |-> a + j]
<1>1. s \in Seq(Nat) /\ \A j \in 1 .. n : s[j] = a + j
  OBVIOUS
<1>2. Len(s) = n
  OBVIOUS
<1> HIDE DEF s
<1>3. IsSeq(s)
  BY <1>1 DEF IsSeq
<1>4. QED
  BY <1>1, <1>2, <1>3 DEF s

(* The numbers from one on, and the next ones behind them.                 *)
LEMMA SeqGrows ==
  ASSUME NEW a, NEW c, IsSeq(a), IsSeq(c),
         \A j \in 1 .. Len(a) : a[j] = j, \A j \in 1 .. Len(c) : c[j] = Len(a) + j
  PROVE  Len(a \o c) = Len(a) + Len(c) /\ a \o c = [j \in 1 .. Len(a \o c) |-> j]
<1> DEFINE l == a \o c
<1>1. /\ IsSeq(l) /\ Len(l) = Len(a) + Len(c)
      /\ \A i \in 1 .. Len(a) : l[i] = a[i]
      /\ \A i \in 1 .. Len(c) : l[Len(a) + i] = c[i]
  BY SeqCat
<1>2. Len(a) \in Nat /\ Len(c) \in Nat
  BY SeqBasics
<1> HIDE DEF l
<1>3. DOMAIN l = 1 .. Len(l) /\ Len(l) \in Nat
  BY <1>1, SeqBasics
<1>4. ASSUME NEW i \in 1 .. Len(l) PROVE l[i] = i
  <2>1. CASE i <= Len(a)
    BY <1>1, <1>2, <2>1
  <2>2. CASE ~(i <= Len(a))
    <3>1. i - Len(a) \in 1 .. Len(c) /\ Len(a) + (i - Len(a)) = i
      BY <1>1, <1>2, <2>2
    <3>2. l[Len(a) + (i - Len(a))] = Len(a) + (i - Len(a))
      BY <1>1, <3>1
    <3>3. QED
      BY <3>1, <3>2
  <2>3. QED
    BY <2>1, <2>2
<1>5. l = [j \in 1 .. Len(l) |-> j]
  <2>1. \E S : l \in Seq(S)
    BY <1>1 DEF IsSeq
  <2>2. l = [j \in DOMAIN l |-> l[j]]
    BY <2>1
  <2>3. QED
    BY <1>3, <1>4, <2>2
<1>6. QED
  BY <1>1, <1>5 DEF l

LEMMA SeqCells ==
  ASSUME NEW r
  PROVE  /\ IsSeq(Cells(r)) /\ Len(Cells(r)) = 2
         /\ Cells(r)[1] = Cell(r, "head") /\ Cells(r)[2] = Cell(r, "body")
<1> DEFINE h == Cell(r, "head")
           b == Cell(r, "body")
<1> HIDE DEF h, b
<1>1. <<h, b>> \in Seq({h, b})
  OBVIOUS
<1>2. Len(<<h, b>>) = 2 /\ <<h, b>>[1] = h /\ <<h, b>>[2] = b
  OBVIOUS
<1>3. Cells(r) = <<h, b>>
  BY DEF Cells, h, b
<1>4. QED
  BY <1>1, <1>2, <1>3 DEF IsSeq, h, b

-----------------------------------------------------------------------------
(* What is on its way                                                      *)

LEMMA PeerIs ==
  /\ "client" \in Ends /\ "server" \in Ends
  /\ Peer("client") = "server" /\ Peer("server") = "client"
  /\ \A e \in Ends : /\ Peer(e) \in Ends /\ Peer(e) # e /\ Peer(Peer(e)) = e
                     /\ \A f \in Ends : f = e \/ f = Peer(e)
<1>1. Peer("client") = "server" /\ Peer("server") = "client"
  BY DEF Peer, Ends
<1>2. QED
  BY <1>1 DEF Ends

(* What e puts on the wire for a record r, and what its peer takes.        *)
Puts(e, r) ==
  \/ Pipe(e)' = Pipe(e)
  \/ Pipe(e)' = Pipe(e) \o Cells(r)
  \/ Pipe(e)' = Pipe(e) \o <<Cell(r, "head")>>

PutsCut(e, r) ==
  \/ Pipe(e)' = Pipe(e)
  \/ Pipe(e)' = Pipe(e) \o <<Cell(r, "head")>>

TakesUpTo(e, k) == k \in 0 .. Len(Pipe(e)) /\ Pipe(e)' = SubSeq(Pipe(e), k + 1, Len(Pipe(e)))

LEMMA PipeIsSeq ==
  ASSUME WireShaped, NEW e \in Ends
  PROVE  IsSeq(Pipe(e)) /\ Len(Pipe(e)) \in Nat
<1>1. IsSeq(buf[Peer(e)]) /\ IsSeq(chan[Peer(e)])
  BY PeerIs DEF WireShaped
<1>2. IsSeq(Pipe(e))
  BY <1>1, SeqCat DEF Pipe
<1>3. QED
  BY <1>2, SeqBasics

(* More is on the way to the peer of e; e may empty its own buffer.        *)
LEMMA MoreWires ==
  ASSUME WireShaped, NEW e \in Ends, NEW t, IsSeq(t),
         chan' = [chan EXCEPT ![Peer(e)] = chan[Peer(e)] \o t],
         DOMAIN buf' = Ends, IsSeq(buf'[e]), buf'[Peer(e)] = buf[Peer(e)]
  PROVE  WireShaped' /\ Pipe(e)' = Pipe(e) \o t /\ chan'[e] = chan[e]
<1> DEFINE f == Peer(e)
           p == buf[f]
           q == chan[f]
<1>1. f \in Ends /\ f # e /\ Peer(f) = e /\ \A x \in Ends : x = e \/ x = f
  BY PeerIs
<1> HIDE DEF f
<1>2. /\ IsSeq(q) /\ IsSeq(p) /\ IsSeq(chan[e]) /\ DOMAIN chan = Ends
  BY <1>1 DEF WireShaped
<1>3. DOMAIN chan' = Ends /\ chan'[e] = chan[e] /\ chan'[f] = q \o t
  BY <1>1, <1>2 DEF f
<1>4. buf'[f] = p
  BY DEF f
<1> HIDE DEF p, q
<1>5. IsSeq(q \o t) /\ (p \o q) \o t = p \o (q \o t)
  <2>1. IsSeq(p) /\ IsSeq(q) /\ IsSeq(t)
    BY <1>2
  <2>2. QED
    BY <2>1, SeqCat, SeqAssoc
<1>6. IsSeq(buf'[f])
  BY <1>2, <1>4
<1>7. WireShaped'
  BY <1>1, <1>2, <1>3, <1>5, <1>6 DEF WireShaped
<1>8. Pipe(e)' = Pipe(e) \o t
  BY <1>3, <1>4, <1>5 DEF Pipe, f, p, q
<1>9. QED
  BY <1>3, <1>7, <1>8

LEMMA SendWires ==
  ASSUME WireShaped, NEW e \in Ends, NEW r, SendAll(e, r) \/ SendCut(e, r),
         DOMAIN buf' = Ends, IsSeq(buf'[e]), buf'[Peer(e)] = buf[Peer(e)]
  PROVE  /\ WireShaped' /\ Puts(e, r) /\ chan'[e] = chan[e]
         /\ SendCut(e, r) => PutsCut(e, r)
<1> DEFINE f == Peer(e)
           h == <<Cell(r, "head")>>
<1>1. f \in Ends /\ Peer(f) = e /\ f # e /\ \A x \in Ends : x = e \/ x = f
  BY PeerIs
<1>2. IsSeq(chan[f]) /\ IsSeq(Cells(r)) /\ IsSeq(h)
  BY <1>1, SeqCells, SeqOne DEF WireShaped
<1>3. CASE chan' = chan
  <2>1. WireShaped'
    BY <1>1, <1>3 DEF WireShaped
  <2>2. Pipe(e)' = Pipe(e)
    BY <1>3 DEF Pipe
  <2>3. QED
    BY <1>3, <2>1, <2>2 DEF Puts, PutsCut
<1>4. CASE SendAll(e, r) /\ chan' # chan
  <2>1. chan' = [chan EXCEPT ![f] = chan[f] \o Cells(r)]
    BY <1>4 DEF SendAll
  <2>2. WireShaped' /\ Pipe(e)' = Pipe(e) \o Cells(r) /\ chan'[e] = chan[e]
    BY <1>2, <2>1, MoreWires
  <2>3. SendCut(e, r) => Len(chan[f]) + 2 <= Window /\ Len(chan[f]) + 2 > Window
    BY <1>4 DEF SendAll, SendCut
  <2>4. ~SendCut(e, r)
    <3>1. Len(chan[f]) \in Nat
      BY <1>2, SeqBasics
    <3>2. QED
      BY <2>3, <3>1, TlsAssumption DEF TlsAssumption
  <2>5. QED
    BY <2>2, <2>4 DEF Puts
<1>5. CASE SendCut(e, r) /\ chan' # chan
  <2>1. chan' = [chan EXCEPT ![f] = Append(chan[f], Cell(r, "head"))]
    BY <1>5 DEF SendCut
  <2>2. Append(chan[f], Cell(r, "head")) = chan[f] \o h
    BY <1>2, SeqAppend
  <2>3. chan' = [chan EXCEPT ![f] = chan[f] \o h]
    BY <2>1, <2>2
  <2>4. WireShaped' /\ Pipe(e)' = Pipe(e) \o h /\ chan'[e] = chan[e]
    BY <1>2, <2>3, MoreWires
  <2>5. QED
    BY <2>4 DEF Puts, PutsCut
<1>6. QED
  BY <1>3, <1>4, <1>5

LEMMA ReceiveWires ==
  ASSUME WireShaped, NEW e \in Ends, NEW k, Receive(e, k)
  PROVE  WireShaped' /\ \A d \in Ends : Pipe(d)' = Pipe(d)
<1> DEFINE f == Peer(e)
           x == SubSeq(chan[e], 1, k)
           y == SubSeq(chan[e], k + 1, Len(chan[e]))
<1>1. f \in Ends /\ f # e /\ Peer(f) = e /\ Peer(e) = f /\ \A d \in Ends : d = e \/ d = f
  BY PeerIs
<1> HIDE DEF f
<1>2. /\ IsSeq(chan[f]) /\ IsSeq(chan[e]) /\ IsSeq(buf[f]) /\ IsSeq(buf[e])
      /\ DOMAIN chan = Ends /\ DOMAIN buf = Ends
  BY <1>1 DEF WireShaped
<1>3. /\ DOMAIN chan' = Ends /\ DOMAIN buf' = Ends
      /\ buf'[e] = buf[e] \o x /\ chan'[e] = y /\ buf'[f] = buf[f] /\ chan'[f] = chan[f]
  BY <1>1, <1>2 DEF Receive
<1>4. k \in 0 .. Len(chan[e])
  <2>1. Len(chan[e]) \in Nat /\ k \in 1 .. Len(chan[e])
    BY <1>2, SeqBasics DEF Receive
  <2>2. QED
    BY <2>1
<1>5. IsSeq(x) /\ IsSeq(y)
  BY <1>2, <1>4, SeqCut
<1>6. IsSeq(buf[e] \o x)
  <2>1. IsSeq(buf[e]) /\ IsSeq(x)
    BY <1>2, <1>5
  <2> HIDE DEF x
  <2>2. QED
    BY <2>1, SeqCat
<1>7. (buf[e] \o x) \o y = buf[e] \o chan[e]
  <2>1. IsSeq(buf[e]) /\ IsSeq(chan[e])
    BY <1>2
  <2>2. QED
    BY <1>4, <2>1, SeqMove
<1> HIDE DEF x, y
<1>8. WireShaped'
  BY <1>1, <1>2, <1>3, <1>5, <1>6 DEF WireShaped
<1>9. Pipe(f)' = Pipe(f)
  BY <1>1, <1>3, <1>7 DEF Pipe
<1>10. Pipe(e)' = Pipe(e)
  BY <1>1, <1>3 DEF Pipe
<1>11. QED
  BY <1>1, <1>8, <1>9, <1>10

LEMMA DropWires ==
  ASSUME WireShaped, NEW e \in Ends, HasRecord(buf[e]), DropRecord(e), chan' = chan
  PROVE  /\ WireShaped' /\ Pipe(e)' = Pipe(e) /\ TakesUpTo(Peer(e), 2)
         /\ Len(Pipe(Peer(e))) >= 2 /\ Pipe(Peer(e))[1] = buf[e][1] /\ Pipe(Peer(e))[2] = buf[e][2]
<1> DEFINE f == Peer(e)
           b == buf[e]
           c == chan[e]
<1>1. f \in Ends /\ f # e /\ Peer(f) = e /\ Peer(e) = f /\ \A d \in Ends : d = e \/ d = f
  BY PeerIs
<1>2. /\ IsSeq(c) /\ IsSeq(b) /\ IsSeq(buf[f]) /\ IsSeq(chan[f])
      /\ DOMAIN chan = Ends /\ DOMAIN buf = Ends
  BY <1>1 DEF WireShaped
<1> HIDE DEF f
<1>3. DOMAIN buf' = Ends /\ buf'[e] = SubSeq(b, 3, Len(b)) /\ buf'[f] = buf[f]
  BY <1>1, <1>2 DEF DropRecord
<1>4. Len(b) \in Nat /\ Len(b) >= 2 /\ Len(c) \in Nat
  BY <1>2, SeqBasics DEF HasRecord
<1> HIDE DEF b, c
<1>5. 2 \in 0 .. Len(b) /\ 2 + 1 = 3
  BY <1>4
<1>6. IsSeq(SubSeq(b, 3, Len(b)))
  BY <1>2, <1>5, SeqCut
<1>7. SubSeq(b, 3, Len(b)) \o c = SubSeq(b \o c, 3, Len(b \o c))
  <2>1. IsSeq(b) /\ IsSeq(c)
    BY <1>2
  <2>2. SubSeq(b, 2 + 1, Len(b)) \o c = SubSeq(b \o c, 2 + 1, Len(b \o c))
    BY <1>5, <2>1, SeqDrop
  <2>3. QED
    BY <1>5, <2>2
<1>8. Len(b \o c) = Len(b) + Len(c) /\ \A i \in 1 .. Len(b) : (b \o c)[i] = b[i]
  <2>1. IsSeq(b) /\ IsSeq(c)
    BY <1>2
  <2>2. QED
    BY <2>1, SeqCat
<1>9. Pipe(f) = b \o c /\ Pipe(f)' = SubSeq(b, 3, Len(b)) \o c
  BY <1>1, <1>3 DEF Pipe, b, c
<1>10. Len(Pipe(f)) >= 2 /\ 2 \in 0 .. Len(Pipe(f)) /\ 1 \in 1 .. Len(b) /\ 2 \in 1 .. Len(b)
  BY <1>4, <1>8, <1>9
<1>11. TakesUpTo(f, 2) /\ Pipe(f)[1] = b[1] /\ Pipe(f)[2] = b[2]
  <2>1. Pipe(f)' = SubSeq(Pipe(f), 2 + 1, Len(Pipe(f)))
    BY <1>5, <1>7, <1>9
  <2>2. (b \o c)[1] = b[1] /\ (b \o c)[2] = b[2]
    BY <1>8, <1>10
  <2>3. QED
    BY <1>9, <1>10, <2>1, <2>2 DEF TakesUpTo
<1>12. WireShaped'
  BY <1>1, <1>2, <1>3, <1>6 DEF WireShaped, c
<1>13. Pipe(e)' = Pipe(e)
  BY <1>1, <1>3 DEF Pipe
<1>14. QED
  BY <1>10, <1>11, <1>12, <1>13 DEF f, b

LEMMA CarriedAppend ==
  ASSUME NEW q, NEW t, IsSeq(q), IsSeq(t), NEW P, NEW n, NEW total, NEW over,
         Carried(q, P, n, total, over), Carried(t, P, n, total, over),
         Len(t) >= 1 => t[1].part # "body"
  PROVE  Carried(q \o t, P, n, total, over)
<1>1. Len(q) \in Nat /\ Len(t) \in Nat
  BY SeqBasics
<1>2. /\ Len(q \o t) = Len(q) + Len(t)
      /\ \A i \in 1 .. Len(q) : (q \o t)[i] = q[i]
      /\ \A i \in 1 .. Len(t) : (q \o t)[Len(q) + i] = t[i]
  BY SeqCat
<1> DEFINE u == q \o t
<1> HIDE DEF u
<1> SUFFICES ASSUME NEW i \in 1 .. Len(u) - 1,
                    u[i].part = "head", u[i + 1].part = "body", OfSession(u[i].of)
             PROVE  Carries(u[i].of, P, n, total, over)
  BY DEF Carried, u
<1>3. Len(u) = Len(q) + Len(t) /\ (\A j \in 1 .. Len(q) : u[j] = q[j]) /\ \A j \in 1 .. Len(t) : u[Len(q) + j] = t[j]
  BY <1>2 DEF u
<1>4. CASE i < Len(q)
  <2>1. i \in 1 .. Len(q) - 1 /\ i \in 1 .. Len(q) /\ i + 1 \in 1 .. Len(q)
    BY <1>1, <1>4
  <2>2. u[i] = q[i] /\ u[i + 1] = q[i + 1]
    BY <1>3, <2>1
  <2>3. QED
    BY <2>1, <2>2 DEF Carried
<1>5. CASE i = Len(q)
  <2>1. 1 \in 1 .. Len(t) /\ i + 1 = Len(q) + 1 /\ Len(t) >= 1
    BY <1>1, <1>3, <1>5
  <2>2. u[i + 1] = t[1]
    BY <1>3, <2>1
  <2>3. QED
    BY <2>1, <2>2
<1>6. CASE i > Len(q)
  <2>1. PICK j \in 1 .. Len(t) - 1 : i = Len(q) + j
    <3>1. i - Len(q) \in 1 .. Len(t) - 1 /\ i = Len(q) + (i - Len(q))
      BY <1>1, <1>3, <1>6
    <3>2. QED
      BY <3>1
  <2>2. j \in 1 .. Len(t) /\ j + 1 \in 1 .. Len(t) /\ i + 1 = Len(q) + (j + 1)
    BY <1>1, <2>1
  <2>3. u[i] = t[j] /\ u[i + 1] = t[j + 1]
    BY <1>3, <2>1, <2>2
  <2>4. QED
    BY <2>1, <2>3 DEF Carried
<1>7. QED
  BY <1>1, <1>3, <1>4, <1>5, <1>6

(* A record that was cut off carries nothing, whatever it was meant to.    *)
LEMMA CarriedCut ==
  ASSUME WireShaped, NEW e \in Ends, NEW r, PutsCut(e, r), NEW P, NEW n, NEW total, NEW over,
         Carried(Pipe(e), P, n, total, over)
  PROVE  Carried(Pipe(e)', P, n, total, over)
<1>1. IsSeq(Pipe(e))
  BY PipeIsSeq
<1>2. CASE Pipe(e)' = Pipe(e)
  BY <1>2
<1>3. CASE Pipe(e)' = Pipe(e) \o <<Cell(r, "head")>>
  <2> DEFINE t == <<Cell(r, "head")>>
  <2>1. IsSeq(t) /\ Len(t) = 1 /\ t[1] = Cell(r, "head")
    BY SeqOne
  <2> HIDE DEF t
  <2>2. t[1].part # "body"
    BY <2>1 DEF Cell
  <2>3. Carried(t, P, n, total, over)
    BY <2>1 DEF Carried
  <2>4. QED
    BY <1>1, <1>3, <2>1, <2>2, <2>3, CarriedAppend DEF t
<1>4. QED
  BY <1>2, <1>3 DEF PutsCut

LEMMA CarriedPuts ==
  ASSUME WireShaped, NEW e \in Ends, NEW r, Puts(e, r), NEW P, NEW n, NEW total, NEW over,
         Carried(Pipe(e), P, n, total, over),
         OfSession(r) => Carries(r, P, n, total, over)
  PROVE  Carried(Pipe(e)', P, n, total, over)
<1>1. IsSeq(Pipe(e))
  BY PipeIsSeq
<1>2. CASE Pipe(e)' = Pipe(e)
  BY <1>2
<1>3. CASE Pipe(e)' = Pipe(e) \o Cells(r)
  <2> DEFINE t == Cells(r)
  <2>1. /\ IsSeq(t) /\ Len(t) = 2 /\ t[1] = Cell(r, "head") /\ t[2] = Cell(r, "body")
    BY SeqCells
  <2> HIDE DEF t
  <2>2. t[1].part # "body" /\ t[1].of = r
    BY <2>1 DEF Cell
  <2>3. Carried(t, P, n, total, over)
    <3> SUFFICES ASSUME NEW i \in 1 .. Len(t) - 1, OfSession(t[i].of)
                 PROVE  Carries(t[i].of, P, n, total, over)
      BY DEF Carried
    <3>1. i = 1
      BY <2>1
    <3>2. QED
      BY <2>2, <3>1
  <2>4. QED
    BY <1>1, <1>3, <2>1, <2>2, <2>3, CarriedAppend DEF t
<1>4. CASE Pipe(e)' = Pipe(e) \o <<Cell(r, "head")>>
  BY <1>4, CarriedCut DEF PutsCut
<1>5. QED
  BY <1>2, <1>3, <1>4 DEF Puts

LEMMA CarriedTakes ==
  ASSUME NEW q, IsSeq(q), NEW k \in 0 .. Len(q), NEW P, NEW n, NEW total, NEW over,
         Carried(q, P, n, total, over)
  PROVE  Carried(SubSeq(q, k + 1, Len(q)), P, n, total, over)
<1> DEFINE t == SubSeq(q, k + 1, Len(q))
<1>1. Len(q) \in Nat /\ Len(t) = Len(q) - k /\ \A i \in 1 .. Len(q) - k : t[i] = q[k + i]
  BY SeqBasics, SeqCut
<1> HIDE DEF t
<1> SUFFICES ASSUME NEW i \in 1 .. Len(t) - 1,
                    t[i].part = "head", t[i + 1].part = "body", OfSession(t[i].of)
             PROVE  Carries(t[i].of, P, n, total, over)
  BY DEF Carried, t
<1>2. i \in 1 .. Len(q) - k /\ i + 1 \in 1 .. Len(q) - k /\ k + i \in 1 .. Len(q) - 1 /\ k + (i + 1) = (k + i) + 1
  BY <1>1
<1>3. t[i] = q[k + i] /\ t[i + 1] = q[(k + i) + 1]
  BY <1>1, <1>2
<1>4. QED
  BY <1>2, <1>3 DEF Carried

(* More is known of where records begin, and the end may be past.          *)
LEMMA CarriedMore ==
  ASSUME NEW q, NEW P, NEW n \in Nat, NEW total, NEW over, Carried(q, P, n, total, over),
         NEW Q, NEW m \in Nat, n <= m, \A j \in 0 .. n : Q[j] = P[j],
         NEW now, NEW past, over => now = total /\ past
  PROVE  Carried(q, Q, m, now, past)
<1> SUFFICES ASSUME NEW i \in 1 .. Len(q) - 1,
                    q[i].part = "head", q[i + 1].part = "body", OfSession(q[i].of)
             PROVE  Carries(q[i].of, Q, m, now, past)
  BY DEF Carried
<1> DEFINE r == q[i].of
<1>1. Carries(r, P, n, total, over)
  BY DEF Carried
<1> HIDE DEF r
<1>2. r.seq \in 0 .. n - 1 /\ r.seq \in 0 .. m - 1 /\ Q[r.seq] = P[r.seq] /\ Q[r.seq + 1] = P[r.seq + 1]
  <2>1. r.seq \in 0 .. n - 1
    BY <1>1 DEF Carries
  <2>2. r.seq \in 0 .. n /\ r.seq + 1 \in 0 .. n /\ r.seq \in 0 .. m - 1
    BY <2>1
  <2>3. QED
    BY <2>1, <2>2
<1>3. Carries(r, Q, m, now, past)
  BY <1>1, <1>2 DEF Carries
<1>4. QED
  BY <1>3 DEF r

LEMMA CarriedFrom ==
  ASSUME NEW q, NEW P, NEW n \in Nat, NEW total, Carried(q, P, n, total, FALSE),
         NEW Q, NEW m \in Nat, n <= m, \A j \in 0 .. n : Q[j] = P[j], NEW now, NEW past
  PROVE  Carried(q, Q, m, now, past)
<1>1. FALSE => now = total /\ past
  OBVIOUS
<1>2. QED
  BY <1>1, CarriedMore

-----------------------------------------------------------------------------
(* A stream while its ends do not send or take data                        *)

SenderKeeps(e) ==
  /\ said'[e] = said[e] /\ rest'[e] = rest[e]
  /\ \/ tx'[e] = tx[e] /\ (pc'[e] = pc[e] \/ (pc[e] \in Live /\ pc'[e] \in Live))
     \/ pc[e] \in Young /\ pc'[e] \in Young
     \/ pc[e] \in Young /\ pc'[e] \in Live /\ tx'[e].seq = 0

ReaderKeeps(f) ==
  /\ pc'[f] # "closed" => All(f)' = All(f) /\ (ended[f] = "auth" => ended'[f] = "auth")
  /\ ended'[f] = "notify" => ended[f] = "notify"
  /\ \/ rx'[f] = rx[f] /\ (pc'[f] \in Live => pc[f] \in Live)
     \/ pc'[f] \in Young \cup {"closed"} \/ ended'[f] = "auth"
     \/ pc[f] \in Young /\ pc'[f] \in Live /\ rx'[f].seq = 0

Moves(e, r) == Puts(e, r) \/ \E k : TakesUpTo(e, k)

LEMMA CarriedMoves ==
  ASSUME WireShaped, NEW e \in Ends, NEW r, ~OfSession(r), Moves(e, r),
         NEW P, NEW n, NEW total, NEW over, Carried(Pipe(e), P, n, total, over)
  PROVE  Carried(Pipe(e)', P, n, total, over)
<1>1. CASE Puts(e, r)
  BY <1>1, CarriedPuts
<1>2. CASE \E k : TakesUpTo(e, k)
  <2>1. PICK k : k \in 0 .. Len(Pipe(e)) /\ Pipe(e)' = SubSeq(Pipe(e), k + 1, Len(Pipe(e)))
    BY <1>2 DEF TakesUpTo
  <2> DEFINE q == Pipe(e)
  <2>2. IsSeq(q) /\ k \in 0 .. Len(q) /\ Carried(q, P, n, total, over)
    BY <2>1, PipeIsSeq
  <2> HIDE DEF q
  <2>3. Carried(SubSeq(q, k + 1, Len(q)), P, n, total, over)
    BY <2>2, CarriedTakes
  <2>4. QED
    BY <2>1, <2>3 DEF q
<1>3. QED
  BY <1>1, <1>2 DEF Moves

LEMMA NothingYet ==
  ASSUME NEW a
  PROVE  [j \in 1 .. 0 |-> a + j] = <<>> /\ [j \in 1 .. 0 |-> j] = <<>> /\ Len(<<>>) = 0 /\ <<>> \o <<>> = <<>>
  OBVIOUS

LEMMA StreamKept ==
  ASSUME WireShaped, Reading, NEW e \in Ends, Stream(e), NEW r, ~OfSession(r), Moves(e, r),
         SenderKeeps(e), ReaderKeeps(Peer(e))
  PROVE  Stream(e)'
<1> DEFINE f == Peer(e)
<1>1. f \in Ends
  BY PeerIs
<1>2. PICK P \in [Nat -> Nat], n \in Nat : Sent(e, P, n) /\ Heard(f, P, n)
  BY DEF Stream
<1> HIDE DEF f
<1>3. Carried(Pipe(e)', P, n, said[e], pc[e] = "closed")
  BY <1>2, CarriedMoves DEF Sent
<1>4. pc'[e] = "closed" <=> pc[e] = "closed"
  BY DEF SenderKeeps, Young, Live, Shaking
<1>5. Carried(Pipe(e)', P, n, said'[e], pc'[e] = "closed")
  <2>1. said'[e] = said[e]
    BY DEF SenderKeeps
  <2>2. CASE pc[e] = "closed"
    BY <1>3, <1>4, <2>1, <2>2
  <2>3. CASE pc[e] # "closed"
    <3>1. (pc[e] = "closed") = FALSE /\ (pc'[e] = "closed") = FALSE
      BY <1>4, <2>3
    <3>2. QED
      BY <1>3, <2>1, <3>1
  <2>4. QED
    BY <2>2, <2>3
<1>6. P[0] = 0 /\ \A j \in 0 .. n : P[j] <= said'[e]
  BY <1>2 DEF Sent, SenderKeeps
<1>7. pc'[e] \in Young => n = 0
  BY <1>2 DEF Sent, SenderKeeps, Young, Live, Shaking
<1>8. pc'[e] \in Live => /\ n = tx'[e].seq /\ P[n] + Len(rest'[e]) = said'[e]
                         /\ rest'[e] = [j \in 1 .. Len(rest'[e]) |-> P[n] + j]
  <2>1. CASE tx'[e] = tx[e] /\ (pc'[e] = pc[e] \/ (pc[e] \in Live /\ pc'[e] \in Live))
    BY <1>2, <2>1 DEF Sent, SenderKeeps
  <2>2. CASE pc[e] \in Young /\ pc'[e] \in Young
    BY <2>2 DEF Young, Live, Shaking
  <2>3. CASE pc[e] \in Young /\ pc'[e] \in Live /\ tx'[e].seq = 0
    <3>1. n = 0 /\ rest[e] = <<>> /\ said[e] = 0 /\ P[0] = 0
      BY <1>2, <2>3 DEF Sent, Reading
    <3>2. rest'[e] = <<>> /\ said'[e] = 0 /\ Len(rest'[e]) = 0
      BY <3>1, NothingYet DEF SenderKeeps
    <3>3. rest'[e] = [j \in 1 .. Len(rest'[e]) |-> P[n] + j]
      BY <3>2, NothingYet
    <3>4. QED
      BY <2>3, <3>1, <3>2, <3>3
  <2>4. QED
    BY <2>1, <2>2, <2>3 DEF SenderKeeps
<1>9. Sent(e, P, n)'
  BY <1>5, <1>6, <1>7, <1>8 DEF Sent
<1>10. Heard(f, P, n)'
  <2> SUFFICES ASSUME pc'[f] \in Live, ended'[f] # "auth"
               PROVE  rx'[f].seq \in 0 .. n /\ P[rx'[f].seq] = Len(All(f)')
    BY DEF Heard
  <2>1. All(f)' = All(f) /\ (ended[f] = "auth" => ended'[f] = "auth")
    BY DEF ReaderKeeps, f, Live
  <2>2. CASE rx'[f] = rx[f] /\ pc[f] \in Live
    BY <1>2, <2>1, <2>2 DEF ReaderKeeps, Heard, f
  <2>3. CASE pc[f] \in Young /\ rx'[f].seq = 0
    <3>1. All(f) = <<>>
      BY <1>1, <2>3, NothingYet DEF All, Reading
    <3>2. Len(All(f)') = 0
      BY <2>1, <3>1, NothingYet
    <3>3. QED
      BY <1>6, <2>3, <3>2
  <2>4. QED
    BY <2>2, <2>3 DEF ReaderKeeps, Young, Live, Shaking, f
<1>11. QED
  BY <1>9, <1>10 DEF Stream, f

LEMMA ToldKept ==
  ASSUME SessionShaped, NEW f \in Ends, Told(f), All(f)' = All(f),
         said'[Peer(f)] \in Nat, said'[Peer(f)] >= said[Peer(f)],
         pc[Peer(f)] = "closed" => pc'[Peer(f)] = "closed" /\ said'[Peer(f)] = said[Peer(f)],
         ended'[f] = "notify" => ended[f] = "notify"
  PROVE  Told(f)'
<1> DEFINE e == Peer(f)
<1>1. e \in Ends /\ IsSeq(got[f]) /\ IsSeq(pending[f])
  BY PeerIs DEF SessionShaped
<1>2. said[e] \in Nat
  BY <1>1 DEF SessionShaped
<1> HIDE DEF e
<1>3. Len(All(f)) \in Nat
  BY <1>1, SeqCat, SeqBasics DEF All
<1>4. Len(All(f)') <= said'[e]
  BY <1>2, <1>3 DEF Told, e
<1>5. QED
  BY <1>4 DEF Told, e

-----------------------------------------------------------------------------
(* The handshakes                                                          *)

(* The keys an end has where it gets.                                      *)
Placed(e) ==
  /\ pc[e] \in Young \cup {"open"}
  /\ pc[e] \in Shaking \cup {"open"} => IsKey(tx[e]) /\ IsKey(rx[e])
  /\ pc[e] \in Shaking => tx[e].key[1] \in HsLabels /\ rx[e].key[1] \in HsLabels
  /\ pc[e] = "open" => /\ tx[e].key[1] \in AppLabels /\ rx[e].key[1] \in AppLabels
                       /\ tx[e].seq = 0 /\ rx[e].seq = 0

LEMMA HsKeeps ==
  ASSUME SInv, NEW e \in Ends, NEW r, ~OfSession(r),
         WireShaped', EndShaped', Puts(e, r), Moves(Peer(e), r), UNCHANGED <<session, talk>>,
         pc[e] \in Young, Placed(e)',
         \A f \in Ends : f # e => pc'[f] = pc[f] /\ tx'[f] = tx[f] /\ rx'[f] = rx[f]
  PROVE  SInv'
<1> DEFINE g == Peer(e)
<1>1. g \in Ends /\ g # e /\ Peer(g) = e /\ \A d \in Ends : d = e \/ d = g
  BY PeerIs
<1>0. g = Peer(e)
  OBVIOUS
<1> HIDE DEF g
<1>2. SessionShaped'
  BY DEF SInv, Shaped, SessionShaped, session, talk
<1>3. Phased'
  <2>1. CASE pc'[e] = "open"
    BY <1>1, <2>1 DEF SInv, Phased, Placed, Young, Live, Shaking
  <2>2. CASE pc'[e] \in Young
    BY <1>1, <2>2 DEF SInv, Phased, Placed, Young, Live, Shaking
  <2>3. QED
    BY <2>1, <2>2 DEF Placed
<1>4. Reading'
  <2>1. /\ UNCHANGED <<reader, want, pending, closed, ended, eof, rest, said, got>>
    BY DEF session, talk
  <2>2. reader[e] # "recv" /\ pending[e] = <<>> /\ rest[e] = <<>> /\ ~eof[e] /\ got[e] = <<>> /\ said[e] = 0 /\ ended[e] = "none"
    BY DEF SInv, Reading, Young, Shaking
  <2>3. QED
    BY <1>1, <2>1, <2>2 DEF SInv, Reading
<1>5. SenderKeeps(e) /\ ReaderKeeps(e)
  <2>1. CASE pc'[e] = "open"
    BY <2>1 DEF SenderKeeps, ReaderKeeps, Placed, Live, session, talk, All
  <2>2. CASE pc'[e] \in Young
    BY <2>2 DEF SenderKeeps, ReaderKeeps, session, talk, All
  <2>3. QED
    BY <2>1, <2>2 DEF Placed
<1>6. SenderKeeps(g) /\ ReaderKeeps(g)
  BY <1>1 DEF SenderKeeps, ReaderKeeps, session, talk, All
<1>7. Stream(e)'
  <2>1. WireShaped /\ Reading /\ Stream(e) /\ Moves(e, r)
    BY DEF SInv, Shaped, Streams, Moves
  <2>2. QED
    BY <1>0, <1>5, <1>6, <2>1, StreamKept
<1>8. Stream(g)'
  <2>1. WireShaped /\ Reading /\ Stream(g) /\ Moves(g, r)
    BY <1>0, <1>1 DEF SInv, Shaped, Streams
  <2>2. ReaderKeeps(Peer(g))
    BY <1>1, <1>5
  <2>3. QED
    BY <1>1, <1>6, <2>1, <2>2, StreamKept
<1>9. \A f \in Ends : Told(f)'
  <2> SUFFICES ASSUME NEW f \in Ends PROVE Told(f)'
    OBVIOUS
  <2>1. /\ SessionShaped /\ Told(f) /\ All(f)' = All(f) /\ Peer(f) \in Ends /\ said'[Peer(f)] = said[Peer(f)]
        /\ ended'[f] = ended[f] /\ said[Peer(f)] \in Nat
    BY PeerIs DEF SInv, Shaped, Streams, All, session, talk, SessionShaped
  <2>2. pc[Peer(f)] = "closed" => pc'[Peer(f)] = "closed"
    BY <1>1, <2>1 DEF Young, Shaking
  <2>3. QED
    BY <2>1, <2>2, ToldKept
<1>10. QED
  BY <1>1, <1>2, <1>3, <1>4, <1>7, <1>8, <1>9 DEF SInv, Shaped, Streams

LEMMA Labels ==
  ASSUME NEW e \in Ends, NEW suite, NEW over
  PROVE  /\ IsKey(HandshakeKey(e, suite, over)) /\ HandshakeKey(e, suite, over).key[1] \in HsLabels
         /\ IsKey(AppKey(e, suite, over)) /\ AppKey(e, suite, over).key[1] \in AppLabels
         /\ HandshakeKey(e, suite, over).seq = 0 /\ AppKey(e, suite, over).seq = 0
<1>1. ASSUME NEW l PROVE IsKey(Key(l, suite, over)) /\ Key(l, suite, over).key[1] = l /\ Key(l, suite, over).seq = 0
  BY DEF IsKey, Key
<1>2. QED
  BY <1>1 DEF HandshakeKey, AppKey, HsLabels, AppLabels

LEMMA Advanced ==
  ASSUME NEW k, IsKey(k)
  PROVE  IsKey(Advance(k)) /\ Advance(k).key = k.key /\ Advance(k).seq = k.seq + 1
  BY DEF IsKey, Advance

LEMMA NotOfSession ==
  /\ \A c : ~OfSession(Plain("handshake", c)) /\ ~OfSession(Plain("ccs", c))
  /\ \A k, c, inner : k.key[1] \in HsLabels => ~OfSession(Seal(k, inner, c))
  BY DEF OfSession, Plain, Seal, HsLabels, AppLabels

LEMMA SendKeepsWires ==
  ASSUME WireShaped, NEW e \in Ends, NEW r, SendAll(e, r) \/ SendCut(e, r), buf' = buf
  PROVE  WireShaped' /\ Puts(e, r) /\ Moves(Peer(e), r) /\ (SendCut(e, r) => PutsCut(e, r))
<1>1. DOMAIN buf' = Ends /\ IsSeq(buf'[e]) /\ buf'[Peer(e)] = buf[Peer(e)] /\ Peer(Peer(e)) = e
  BY PeerIs DEF WireShaped
<1>2. WireShaped' /\ Puts(e, r) /\ chan'[e] = chan[e] /\ (SendCut(e, r) => PutsCut(e, r))
  BY <1>1, SendWires
<1>3. Pipe(Peer(e))' = Pipe(Peer(e))
  BY <1>1, <1>2 DEF Pipe
<1>4. QED
  BY <1>2, <1>3 DEF Moves, Puts

LEMMA DropKeepsWires ==
  ASSUME WireShaped, NEW e \in Ends, NEW r, HasRecord(buf[e]), DropRecord(e), chan' = chan
  PROVE  WireShaped' /\ Puts(e, r) /\ Moves(Peer(e), r)
<1>1. WireShaped' /\ Pipe(e)' = Pipe(e) /\ TakesUpTo(Peer(e), 2)
  BY DropWires
<1>2. QED
  BY <1>1 DEF Moves, Puts

LEMMA StillWires ==
  ASSUME WireShaped, NEW e \in Ends, NEW r, chan' = chan, buf' = buf
  PROVE  WireShaped' /\ Puts(e, r) /\ Moves(Peer(e), r)
<1>1. \A d \in Ends : Pipe(d)' = Pipe(d)
  BY DEF Pipe
<1>2. Peer(e) \in Ends
  BY PeerIs
<1>3. WireShaped'
  BY DEF WireShaped
<1>4. QED
  BY <1>1, <1>2, <1>3 DEF Moves, Puts

LEMMA ReceiveKeepsWires ==
  ASSUME WireShaped, NEW e \in Ends, NEW r, NEW k, Receive(e, k)
  PROVE  WireShaped' /\ Puts(e, r) /\ Moves(Peer(e), r)
<1>1. WireShaped' /\ \A d \in Ends : Pipe(d)' = Pipe(d)
  BY ReceiveWires
<1>2. Peer(e) \in Ends
  BY PeerIs
<1>3. QED
  BY <1>1, <1>2 DEF Moves, Puts

(* The value of e is x now, the other end's is what it was.                *)
Sets(old, new, e, x) == DOMAIN new = Ends /\ new[e] = x /\ \A f \in Ends : f # e => new[f] = old[f]

LEMMA SetsIs ==
  ASSUME NEW old, NEW new, NEW e \in Ends, DOMAIN old = Ends
  PROVE  /\ new = old => Sets(old, new, e, old[e])
         /\ \A x : new = [old EXCEPT ![e] = x] => Sets(old, new, e, x)
  BY DEF Sets

(* A step of a handshake that leaves the keys alone.                       *)
LEMMA HsWalks ==
  ASSUME SInv, NEW e \in Ends, NEW r, ~OfSession(r),
         WireShaped', Puts(e, r), Moves(Peer(e), r), UNCHANGED <<session, talk, keys>>,
         pc[e] \in Young, NEW w \in Young, Sets(pc, pc', e, w),
         w \in Shaking => pc[e] \in Shaking,
         DOMAIN transcript' = Ends, DOMAIN secret' = Ends
  PROVE  SInv'
<1>1. tx' = tx /\ rx' = rx
  BY DEF keys
<1>2. pc'[e] = w /\ \A f \in Ends : f # e => pc'[f] = pc[f] /\ tx'[f] = tx[f] /\ rx'[f] = rx[f]
  BY <1>1 DEF Sets
<1>3. Placed(e)'
  <2>1. w \in Shaking => IsKey(tx[e]) /\ IsKey(rx[e]) /\ tx[e].key[1] \in HsLabels /\ rx[e].key[1] \in HsLabels
    BY DEF SInv, Phased
  <2>2. w # "open"
    BY DEF Young, Shaking
  <2>3. QED
    BY <1>1, <1>2, <2>1, <2>2 DEF Placed
<1>4. EndShaped'
  BY <1>1 DEF SInv, Shaped, EndShaped, Sets
<1>5. UNCHANGED <<session, talk>>
  OBVIOUS
<1>6. QED
  BY <1>2, <1>3, <1>4, <1>5, HsKeeps

(* A step of a handshake that changes the keys of the end.                 *)
LEMMA HsRekeys ==
  ASSUME SInv, NEW e \in Ends, NEW r, ~OfSession(r),
         WireShaped', Puts(e, r), Moves(Peer(e), r), UNCHANGED <<session, talk>>,
         pc[e] \in Young, NEW w \in Shaking \cup {"open"}, Sets(pc, pc', e, w),
         NEW k, NEW l, Sets(tx, tx', e, k), Sets(rx, rx', e, l),
         IsKey(k), IsKey(l),
         \/ w \in Shaking /\ k.key[1] \in HsLabels /\ l.key[1] \in HsLabels
         \/ w = "open" /\ k.key[1] \in AppLabels /\ l.key[1] \in AppLabels /\ k.seq = 0 /\ l.seq = 0,
         DOMAIN transcript' = Ends, DOMAIN secret' = Ends
  PROVE  SInv'
<1>2. /\ pc'[e] = w /\ tx'[e] = k /\ rx'[e] = l
      /\ \A f \in Ends : f # e => pc'[f] = pc[f] /\ tx'[f] = tx[f] /\ rx'[f] = rx[f]
  BY DEF Sets
<1>3. Placed(e)'
  BY <1>2 DEF Placed, Young, Shaking
<1>4. EndShaped'
  BY DEF EndShaped, Sets
<1>5. QED
  BY <1>2, <1>3, <1>4, HsKeeps

LEMMA HandshakeKeeps ==
  ASSUME SInv, Handshake
  PROVE  SInv'
<1>0. /\ "client" \in Ends /\ "server" \in Ends /\ WireShaped
      /\ DOMAIN pc = Ends /\ DOMAIN tx = Ends /\ DOMAIN rx = Ends
      /\ DOMAIN transcript = Ends /\ DOMAIN secret = Ends
  BY PeerIs DEF SInv, Shaped, EndShaped
<1> DEFINE R == Plain("ccs", None)
<1>r. ~OfSession(R)
  BY NotOfSession
<1> HIDE DEF R
<1>k. ASSUME NEW e \in Ends, pc[e] \in Shaking
      PROVE  IsKey(tx[e]) /\ IsKey(rx[e]) /\ tx[e].key[1] \in HsLabels /\ rx[e].key[1] \in HsLabels
  BY <1>k DEF SInv, Phased
<1>1. CASE ClientHello
  <2>1. PICK r : ~OfSession(r) /\ (SendAll("client", r) \/ SendCut("client", r))
    BY <1>1, NotOfSession DEF ClientHello
  <2>2. PICK w \in {"hello", "failed"} : Goto("client", w)
    BY <1>1 DEF ClientHello
  <2>3. /\ buf' = buf /\ UNCHANGED <<session, talk, keys>> /\ secret' = secret /\ pc["client"] = "start"
        /\ DOMAIN transcript' = Ends
    BY <1>0, <1>1 DEF ClientHello, Log
  <2>4. Sets(pc, pc', "client", w)
    BY <1>0, <2>2, SetsIs DEF Goto
  <2>5. WireShaped' /\ Puts("client", r) /\ Moves(Peer("client"), r)
    BY <1>0, <2>1, <2>3, SendKeepsWires
  <2>6. pc["client"] \in Young /\ w \in Young /\ w \notin Shaking
    BY <2>3 DEF Young, Shaking
  <2>7. QED
    BY <1>0, <2>1, <2>3, <2>4, <2>5, <2>6, HsWalks
<1>2. CASE TakeServerHello
  <2> DEFINE h == Append(transcript["client"], "SH")
             u == Under(buf["client"]).content.over
  <2>1. /\ pc["client"] = "hello" /\ HasRecord(buf["client"]) /\ DropRecord("client") /\ chan' = chan
        /\ UNCHANGED <<session, talk>> /\ secret' = secret /\ DOMAIN transcript' = Ends
        /\ tx' = [tx EXCEPT !["client"] = HandshakeKey("client", u, h)]
        /\ rx' = [rx EXCEPT !["client"] = HandshakeKey(Peer("client"), u, h)]
        /\ Goto("client", "flight")
    BY <1>0, <1>2 DEF TakeServerHello, Arrived, Log, Schedule, wires
  <2> HIDE DEF h, u
  <2>2. /\ Sets(pc, pc', "client", "flight") /\ Sets(tx, tx', "client", HandshakeKey("client", u, h))
        /\ Sets(rx, rx', "client", HandshakeKey(Peer("client"), u, h))
    BY <1>0, <2>1, SetsIs DEF Goto
  <2>3. WireShaped' /\ Puts("client", R) /\ Moves(Peer("client"), R)
    BY <1>0, <2>1, DropKeepsWires
  <2>4. /\ IsKey(HandshakeKey("client", u, h)) /\ HandshakeKey("client", u, h).key[1] \in HsLabels
        /\ IsKey(HandshakeKey(Peer("client"), u, h)) /\ HandshakeKey(Peer("client"), u, h).key[1] \in HsLabels
    BY <1>0, PeerIs, Labels
  <2>5. pc["client"] \in Young /\ "flight" \in Shaking
    BY <2>1 DEF Young, Shaking
  <2>6. QED
    BY <1>0, <1>r, <2>1, <2>2, <2>3, <2>4, <2>5, HsRekeys
<1>3. CASE TakeFlight
  <2>1. /\ pc["client"] = "flight" /\ HasRecord(buf["client"]) /\ DropRecord("client") /\ chan' = chan
        /\ UNCHANGED <<session, talk>> /\ secret' = secret /\ transcript' = transcript /\ tx' = tx /\ pc' = pc
        /\ rx' = [rx EXCEPT !["client"] = Advance(rx["client"])]
    BY <1>0, <1>3 DEF TakeFlight, Arrived, wires
  <2>2. /\ Sets(pc, pc', "client", "flight") /\ Sets(tx, tx', "client", tx["client"])
        /\ Sets(rx, rx', "client", Advance(rx["client"]))
    BY <1>0, <2>1, SetsIs
  <2>3. WireShaped' /\ Puts("client", R) /\ Moves(Peer("client"), R)
    BY <1>0, <2>1, DropKeepsWires
  <2>4. pc["client"] \in Young /\ "flight" \in Shaking
    BY <2>1 DEF Young, Shaking
  <2>5. /\ IsKey(tx["client"]) /\ tx["client"].key[1] \in HsLabels
        /\ IsKey(Advance(rx["client"])) /\ Advance(rx["client"]).key[1] \in HsLabels
    BY <1>0, <1>k, <2>1, <2>4, Advanced
  <2>6. QED
    BY <1>0, <1>r, <2>1, <2>2, <2>3, <2>4, <2>5, HsRekeys
<1>4. CASE TakeMessage
  <2>1. /\ pc["client"] = "flight" /\ buf' = buf /\ chan' = chan /\ UNCHANGED <<session, talk, keys>>
        /\ DOMAIN transcript' = Ends /\ DOMAIN secret' = Ends
        /\ pc' = pc \/ Goto("client", "failed")
    BY <1>0, <1>4 DEF TakeMessage, wires
  <2>2. PICK w \in {"flight", "failed"} : Sets(pc, pc', "client", w)
    <3>1. CASE pc' = pc
      BY <1>0, <2>1, <3>1, SetsIs
    <3>2. CASE Goto("client", "failed")
      BY <1>0, <3>2, SetsIs DEF Goto
    <3>3. QED
      BY <2>1, <3>1, <3>2
  <2>3. WireShaped' /\ Puts("client", R) /\ Moves(Peer("client"), R)
    BY <1>0, <2>1, StillWires
  <2>4. pc["client"] \in Young /\ pc["client"] \in Shaking /\ w \in Young
    BY <2>1 DEF Young, Shaking
  <2>5. QED
    BY <1>0, <1>r, <2>1, <2>2, <2>3, <2>4, HsWalks
<1>5. CASE Reject
  <2>1. /\ pc["client"] = "flight" /\ buf' = buf /\ chan' = chan /\ UNCHANGED <<session, talk, keys>>
        /\ transcript' = transcript /\ secret' = secret /\ Goto("client", "failed")
    BY <1>5 DEF Reject, FlightOver, wires, handshake
  <2>2. Sets(pc, pc', "client", "failed")
    BY <1>0, <2>1, SetsIs DEF Goto
  <2>3. WireShaped' /\ Puts("client", R) /\ Moves(Peer("client"), R)
    BY <1>0, <2>1, StillWires
  <2>4. pc["client"] \in Young /\ "failed" \in Young /\ "failed" \notin Shaking
    BY <2>1 DEF Young, Shaking
  <2>5. QED
    BY <1>0, <1>r, <2>1, <2>2, <2>3, <2>4, HsWalks
<1>6. CASE Decline
  <2>1. /\ pc["client"] = "flight" /\ buf' = buf /\ UNCHANGED <<session, talk>> /\ rx' = rx
        /\ DOMAIN transcript' = Ends /\ secret' = secret
        /\ tx' = [tx EXCEPT !["client"] = Advance(tx["client"])]
    BY <1>0, <1>6 DEF Decline, FlightOver
  <2>2. PICK c : \/ SendAll("client", Seal(tx["client"], "handshake", c))
                 \/ SendCut("client", Seal(tx["client"], "handshake", c))
    BY <1>6 DEF Decline
  <2>w. PICK w \in {"declined", "failed"} : Goto("client", w)
    BY <1>6 DEF Decline
  <2> DEFINE r == Seal(tx["client"], "handshake", c)
  <2>3. /\ IsKey(tx["client"]) /\ tx["client"].key[1] \in HsLabels
        /\ IsKey(rx["client"]) /\ rx["client"].key[1] \in HsLabels
        /\ IsKey(Advance(tx["client"])) /\ Advance(tx["client"]).key[1] \in HsLabels
    BY <1>0, <1>k, <2>1, Advanced DEF Shaking
  <2>4. ~OfSession(r)
    BY <2>3, NotOfSession
  <2>5. WireShaped' /\ Puts("client", r) /\ Moves(Peer("client"), r)
    BY <1>0, <2>1, <2>2, SendKeepsWires
  <2> HIDE DEF r
  <2>6. pc["client"] \in Young
    BY <2>1 DEF Young, Shaking
  <2>7. /\ DOMAIN pc' = Ends /\ pc'["client"] = w /\ DOMAIN tx' = Ends /\ DOMAIN rx' = Ends
        /\ tx'["client"] = Advance(tx["client"]) /\ rx'["client"] = rx["client"]
        /\ \A f \in Ends : f # "client" => pc'[f] = pc[f] /\ tx'[f] = tx[f] /\ rx'[f] = rx[f]
    BY <1>0, <2>1, <2>w DEF Goto
  <2>8. Placed("client")'
    BY <2>3, <2>7 DEF Placed, Young, Shaking
  <2>9. EndShaped'
    <3>1. DOMAIN transcript' = Ends /\ DOMAIN secret' = Ends
      BY <1>0, <2>1
    <3>2. QED
      BY <2>7, <3>1 DEF EndShaped
  <2>10. QED
    BY <1>0, <2>1, <2>4, <2>5, <2>6, <2>7, <2>8, <2>9, HsKeeps
<1>7. CASE ClientFinish
  <2>1. /\ pc["client"] \in {"flight", "declined"} /\ buf' = buf /\ UNCHANGED <<session, talk>>
        /\ transcript' = transcript /\ secret' = secret
    BY <1>7 DEF ClientFinish, FlightOver, handshake
  <2>2. PICK c : \/ SendAll("client", Seal(tx["client"], "handshake", c)) /\ Register("client")
                 \/ SendCut("client", Seal(tx["client"], "handshake", c)) /\ Goto("client", "failed") /\ UNCHANGED keys
    BY <1>7 DEF ClientFinish
  <2> DEFINE r == Seal(tx["client"], "handshake", c)
  <2>3. ~OfSession(r)
    BY <1>0, <1>k, <2>1, NotOfSession DEF Shaking
  <2>4. WireShaped' /\ Puts("client", r) /\ Moves(Peer("client"), r)
    BY <1>0, <2>1, <2>2, SendKeepsWires
  <2> HIDE DEF r
  <2>5. pc["client"] \in Young
    BY <2>1 DEF Young, Shaking
  <2>6. CASE Register("client")
    <3> DEFINE k == AppKey("client", Suite("client"), secret["client"])
               l == AppKey(Peer("client"), Suite("client"), secret["client"])
    <3>1. /\ Sets(pc, pc', "client", "open") /\ Sets(tx, tx', "client", k) /\ Sets(rx, rx', "client", l)
      BY <1>0, <2>6, SetsIs DEF Register, Goto, SessionKeys
    <3>2. /\ IsKey(k) /\ k.key[1] \in AppLabels /\ k.seq = 0 /\ IsKey(l) /\ l.key[1] \in AppLabels /\ l.seq = 0
      BY <1>0, PeerIs, Labels
    <3> HIDE DEF k, l
    <3>3. QED
      BY <1>0, <2>1, <2>3, <2>4, <2>5, <3>1, <3>2, HsRekeys
  <2>7. CASE Goto("client", "failed") /\ UNCHANGED keys
    <3>1. Sets(pc, pc', "client", "failed")
      BY <1>0, <2>7, SetsIs DEF Goto
    <3>2. UNCHANGED <<session, talk, keys>> /\ "failed" \in Young /\ "failed" \notin Shaking
      BY <2>1, <2>7 DEF Young, Shaking
    <3>3. QED
      BY <1>0, <2>1, <2>3, <2>4, <2>5, <3>1, <3>2, HsWalks
  <2>8. QED
    BY <2>2, <2>6, <2>7
<1>8. CASE TakeClientHello
  <2>1. /\ pc["server"] = "hello" /\ HasRecord(buf["server"]) /\ DropRecord("server") /\ chan' = chan
        /\ UNCHANGED <<session, talk, keys>> /\ secret' = secret /\ DOMAIN transcript' = Ends
        /\ Goto("server", "answer")
    BY <1>0, <1>8 DEF TakeClientHello, Arrived, Log, wires
  <2>2. Sets(pc, pc', "server", "answer")
    BY <1>0, <2>1, SetsIs DEF Goto
  <2>3. WireShaped' /\ Puts("server", R) /\ Moves(Peer("server"), R)
    BY <1>0, <2>1, DropKeepsWires
  <2>4. pc["server"] \in Young /\ "answer" \in Young /\ "answer" \notin Shaking
    BY <2>1 DEF Young, Shaking
  <2>5. QED
    BY <1>0, <1>r, <2>1, <2>2, <2>3, <2>4, HsWalks
<1>9. CASE ServerHello
  <2>1. /\ pc["server"] = "answer" /\ buf' = buf /\ UNCHANGED <<session, talk>> /\ secret' = secret
        /\ DOMAIN transcript' = Ends
    BY <1>0, <1>9 DEF ServerHello, Log
  <2>2. PICK r : ~OfSession(r) /\ (SendAll("server", r) \/ SendCut("server", r))
    BY <1>9, NotOfSession DEF ServerHello
  <2>3. \/ Goto("server", "change") /\ Schedule("server", server.suite)
        \/ Goto("server", "failed") /\ UNCHANGED keys
    BY <1>9 DEF ServerHello
  <2>4. WireShaped' /\ Puts("server", r) /\ Moves(Peer("server"), r)
    BY <1>0, <2>1, <2>2, SendKeepsWires
  <2>5. pc["server"] \in Young
    BY <2>1 DEF Young, Shaking
  <2>6. CASE Goto("server", "change") /\ Schedule("server", server.suite)
    <3> DEFINE h == Append(transcript["server"], "SH")
               k == HandshakeKey("server", server.suite, h)
               l == HandshakeKey(Peer("server"), server.suite, h)
    <3>1. Sets(pc, pc', "server", "change") /\ Sets(tx, tx', "server", k) /\ Sets(rx, rx', "server", l)
      BY <1>0, <2>6, SetsIs DEF Goto, Schedule
    <3> HIDE DEF h
    <3>2. IsKey(k) /\ k.key[1] \in HsLabels /\ IsKey(l) /\ l.key[1] \in HsLabels /\ "change" \in Shaking
      BY <1>0, PeerIs, Labels DEF Shaking
    <3> HIDE DEF k, l
    <3>3. QED
      BY <1>0, <2>1, <2>2, <2>4, <2>5, <3>1, <3>2, HsRekeys
  <2>7. CASE Goto("server", "failed") /\ UNCHANGED keys
    <3>1. Sets(pc, pc', "server", "failed")
      BY <1>0, <2>7, SetsIs DEF Goto
    <3>2. UNCHANGED <<session, talk, keys>> /\ "failed" \in Young /\ "failed" \notin Shaking
      BY <2>1, <2>7 DEF Young, Shaking
    <3>3. QED
      BY <1>0, <2>1, <2>2, <2>4, <2>5, <3>1, <3>2, HsWalks
  <2>8. QED
    BY <2>3, <2>6, <2>7
<1>10. CASE SendChange
  <2>1. /\ pc["server"] = "change" /\ buf' = buf /\ UNCHANGED <<session, talk, keys>>
        /\ secret' = secret /\ transcript' = transcript /\ Goto("server", "send")
        /\ SendAll("server", R) \/ SendCut("server", R)
    BY <1>10 DEF SendChange, handshake, R
  <2>2. Sets(pc, pc', "server", "send")
    BY <1>0, <2>1, SetsIs DEF Goto
  <2>3. WireShaped' /\ Puts("server", R) /\ Moves(Peer("server"), R)
    BY <1>0, <2>1, SendKeepsWires
  <2>4. pc["server"] \in Young /\ pc["server"] \in Shaking /\ "send" \in Young
    BY <2>1 DEF Young, Shaking
  <2>5. QED
    BY <1>0, <1>r, <2>1, <2>2, <2>3, <2>4, HsWalks
<1>11. CASE SendFlight
  <2>1. /\ pc["server"] = "send" /\ buf' = buf /\ UNCHANGED <<session, talk>> /\ rx' = rx
        /\ tx' = [tx EXCEPT !["server"] = Advance(tx["server"])]
    BY <1>0, <1>11 DEF SendFlight
  <2>2. /\ DOMAIN transcript' = Ends /\ DOMAIN secret' = Ends
        /\ pc' = pc \/ Goto("server", "finished") \/ Goto("server", "failed")
    BY <1>0, <1>11 DEF SendFlight
  <2>3. PICK c : \/ SendAll("server", Seal(tx["server"], "handshake", c))
                 \/ SendCut("server", Seal(tx["server"], "handshake", c))
    BY <1>11 DEF SendFlight
  <2> DEFINE r == Seal(tx["server"], "handshake", c)
  <2>4. /\ IsKey(tx["server"]) /\ tx["server"].key[1] \in HsLabels
        /\ IsKey(rx["server"]) /\ rx["server"].key[1] \in HsLabels
        /\ IsKey(Advance(tx["server"])) /\ Advance(tx["server"]).key[1] \in HsLabels
    BY <1>0, <1>k, <2>1, Advanced DEF Shaking
  <2>5. ~OfSession(r)
    BY <2>4, NotOfSession
  <2>6. WireShaped' /\ Puts("server", r) /\ Moves(Peer("server"), r)
    BY <1>0, <2>1, <2>3, SendKeepsWires
  <2> HIDE DEF r
  <2>7. pc["server"] \in Young
    BY <2>1 DEF Young, Shaking
  <2>8. /\ DOMAIN pc' = Ends /\ pc'["server"] \in {"send", "finished", "failed"} /\ DOMAIN tx' = Ends /\ DOMAIN rx' = Ends
        /\ tx'["server"] = Advance(tx["server"]) /\ rx'["server"] = rx["server"]
        /\ \A f \in Ends : f # "server" => pc'[f] = pc[f] /\ tx'[f] = tx[f] /\ rx'[f] = rx[f]
    BY <1>0, <2>1, <2>2 DEF Goto
  <2>9. Placed("server")' /\ EndShaped'
    BY <2>2, <2>4, <2>8 DEF Placed, EndShaped, Young, Shaking
  <2>10. QED
    BY <1>0, <2>1, <2>5, <2>6, <2>7, <2>8, <2>9, HsKeeps
<1>12. CASE TakeClientFinished
  <2>1. /\ pc["server"] = "finished" /\ HasRecord(buf["server"]) /\ DropRecord("server") /\ chan' = chan
        /\ UNCHANGED <<session, talk>> /\ secret' = secret /\ DOMAIN transcript' = Ends
    BY <1>0, <1>12 DEF TakeClientFinished, Arrived, Log, wires
  <2>2. \/ Register("server")
        \/ rx' = [rx EXCEPT !["server"] = Advance(rx["server"])] /\ UNCHANGED <<tx, pc>>
        \/ Goto("server", "failed") /\ UNCHANGED keys
    BY <1>0, <1>12 DEF TakeClientFinished
  <2>3. WireShaped' /\ Puts("server", R) /\ Moves(Peer("server"), R)
    BY <1>0, <2>1, DropKeepsWires
  <2>4. pc["server"] \in Young /\ pc["server"] \in Shaking
    BY <2>1 DEF Young, Shaking
  <2>5. CASE Register("server")
    <3> DEFINE k == AppKey("server", Suite("server"), secret["server"])
               l == AppKey(Peer("server"), Suite("server"), secret["server"])
    <3>1. /\ Sets(pc, pc', "server", "open") /\ Sets(tx, tx', "server", k) /\ Sets(rx, rx', "server", l)
      BY <1>0, <2>5, SetsIs DEF Register, Goto, SessionKeys
    <3>2. /\ IsKey(k) /\ k.key[1] \in AppLabels /\ k.seq = 0 /\ IsKey(l) /\ l.key[1] \in AppLabels /\ l.seq = 0
      BY <1>0, PeerIs, Labels
    <3> HIDE DEF k, l
    <3>3. QED
      BY <1>0, <1>r, <2>1, <2>3, <2>4, <3>1, <3>2, HsRekeys
  <2>6. CASE rx' = [rx EXCEPT !["server"] = Advance(rx["server"])] /\ UNCHANGED <<tx, pc>>
    <3>1. /\ Sets(pc, pc', "server", "finished") /\ Sets(tx, tx', "server", tx["server"])
          /\ Sets(rx, rx', "server", Advance(rx["server"]))
      BY <1>0, <2>1, <2>6, SetsIs
    <3>2. /\ IsKey(tx["server"]) /\ tx["server"].key[1] \in HsLabels /\ "finished" \in Shaking
          /\ IsKey(Advance(rx["server"])) /\ Advance(rx["server"]).key[1] \in HsLabels
      BY <1>0, <1>k, <2>4, Advanced DEF Shaking
    <3>3. QED
      BY <1>0, <1>r, <2>1, <2>3, <2>4, <3>1, <3>2, HsRekeys
  <2>7. CASE Goto("server", "failed") /\ UNCHANGED keys
    <3>1. Sets(pc, pc', "server", "failed")
      BY <1>0, <2>7, SetsIs DEF Goto
    <3>2. UNCHANGED <<session, talk, keys>> /\ "failed" \in Young /\ "failed" \notin Shaking
      BY <2>1, <2>7 DEF Young, Shaking
    <3>3. QED
      BY <1>0, <1>r, <2>1, <2>3, <2>4, <3>1, <3>2, HsWalks
  <2>8. QED
    BY <2>2, <2>5, <2>6, <2>7
<1>w. ASSUME NEW e \in Ends, Awaits(e) PROVE pc[e] \in Young
  BY <1>w DEF Awaits, Young, Shaking
<1>13. ASSUME NEW e \in Ends, SkipChange(e) PROVE SInv'
  <2>1. /\ pc[e] \in Young /\ HasRecord(buf[e]) /\ DropRecord(e) /\ chan' = chan /\ pc' = pc
        /\ UNCHANGED <<session, talk, keys>> /\ secret' = secret /\ transcript' = transcript
    BY <1>13, <1>w DEF SkipChange, wires, handshake
  <2>2. Sets(pc, pc', e, pc[e])
    BY <1>0, <2>1, SetsIs
  <2>3. WireShaped' /\ Puts(e, R) /\ Moves(Peer(e), R)
    BY <1>0, <2>1, DropKeepsWires
  <2>4. QED
    BY <1>0, <1>r, <2>1, <2>2, <2>3, HsWalks
<1>14. ASSUME NEW e \in Ends, GiveUp(e) PROVE SInv'
  <2>1. /\ pc[e] \in Young /\ chan' = chan /\ Goto(e, "failed") /\ UNCHANGED <<session, talk, keys>>
        /\ secret' = secret /\ transcript' = transcript
        /\ buf' = buf \/ (HasRecord(buf[e]) /\ DropRecord(e))
    BY <1>14, <1>w DEF GiveUp, wires, handshake, TimedOut
  <2>2. Sets(pc, pc', e, "failed") /\ "failed" \in Young /\ "failed" \notin Shaking
    BY <1>0, <2>1, SetsIs DEF Goto, Young, Shaking
  <2>3. WireShaped' /\ Puts(e, R) /\ Moves(Peer(e), R)
    BY <1>0, <2>1, DropKeepsWires, StillWires
  <2>4. QED
    BY <1>0, <1>r, <2>1, <2>2, <2>3, HsWalks
<1>15. ASSUME NEW e \in Ends, NEW k, Fill(e, k) PROVE SInv'
  <2>1. /\ pc[e] \in Young /\ Receive(e, k) /\ pc' = pc
        /\ UNCHANGED <<session, talk, keys>> /\ secret' = secret /\ transcript' = transcript
    BY <1>15, <1>w DEF Fill, handshake
  <2>2. Sets(pc, pc', e, pc[e])
    BY <1>0, <2>1, SetsIs
  <2>3. WireShaped' /\ Puts(e, R) /\ Moves(Peer(e), R)
    BY <1>0, <2>1, ReceiveKeepsWires
  <2>4. QED
    BY <1>0, <1>r, <2>1, <2>2, <2>3, HsWalks
<1>16. QED
  BY <1>1, <1>2, <1>3, <1>4, <1>5, <1>6, <1>7, <1>8, <1>9, <1>10, <1>11, <1>12, <1>13, <1>14, <1>15 DEF Handshake

-----------------------------------------------------------------------------
(* The sessions                                                            *)

LEMMA StreamsKept ==
  ASSUME SInv, NEW r, ~OfSession(r),
         \A d \in Ends : SenderKeeps(d) /\ ReaderKeeps(d) /\ Moves(d, r) /\ All(d)' = All(d)
  PROVE  Streams'
<1>1. WireShaped /\ Reading /\ SessionShaped
  BY DEF SInv, Shaped
<1>2. ASSUME NEW d \in Ends PROVE Stream(d)'
  <2>1. Stream(d) /\ SenderKeeps(d) /\ ReaderKeeps(Peer(d)) /\ Moves(d, r)
    BY PeerIs DEF SInv, Streams
  <2>2. QED
    BY <1>1, <2>1, StreamKept
<1>3. ASSUME NEW f \in Ends PROVE Told(f)'
  <2> DEFINE g == Peer(f)
  <2>1. g \in Ends
    BY PeerIs
  <2>2. /\ Told(f) /\ All(f)' = All(f) /\ said'[g] = said[g] /\ said[g] \in Nat
        /\ ended'[f] = "notify" => ended[f] = "notify"
    BY <1>1, <2>1 DEF SInv, Streams, SenderKeeps, ReaderKeeps, SessionShaped
  <2>3. pc[g] = "closed" => pc'[g] = "closed"
    BY <2>1 DEF SenderKeeps, Young, Live, Shaking
  <2>4. QED
    BY <1>1, <2>2, <2>3, ToldKept
<1>4. QED
  BY <1>2, <1>3 DEF Streams

(* The other end of the step does nothing.                                 *)
Rests(f) ==
  /\ All(f)' = All(f) /\ ended'[f] = ended[f] /\ tx'[f] = tx[f] /\ rx'[f] = rx[f]
  /\ pc'[f] = pc[f] /\ said'[f] = said[f] /\ rest'[f] = rest[f]

(* The record r carries the data from p up to x.                           *)
Fills(r, p, x, total, over) ==
  /\ r.inner = "app" =>
       /\ Len(r.content) \in Nat
       /\ r.content = [j \in 1 .. Len(r.content) |-> p + j]
       /\ x = p + Len(r.content)
  /\ r.inner # "app" => x = p
  /\ r.inner = "alert" => p = total /\ over

(* e seals its n-th record: the next one begins at x.                      *)
LEMMA StreamSealed ==
  ASSUME WireShaped, NEW e \in Ends, pc[e] \in Live, pc'[e] \in Live \cup {"closed"},
         NEW P \in [Nat -> Nat], NEW n \in Nat, Sent(e, P, n), Heard(Peer(e), P, n),
         NEW r, r.seq = n, NEW x \in Nat, x <= said[e], said'[e] = said[e], Rests(Peer(e)),
         pc'[e] \in Live => /\ tx'[e].seq = n + 1 /\ x + Len(rest'[e]) = said[e]
                            /\ rest'[e] = [j \in 1 .. Len(rest'[e]) |-> x + j],
         \/ PutsCut(e, r)
         \/ Puts(e, r) /\ Fills(r, P[n], x, said[e], pc'[e] = "closed")
  PROVE  Stream(e)'
<1> DEFINE Q == [P EXCEPT ![n + 1] = x]
           m == n + 1
           over == pc'[e] = "closed"
<1>1. Q \in [Nat -> Nat] /\ m \in Nat /\ Q[m] = x /\ \A j \in 0 .. n : Q[j] = P[j]
  <2>1. m \in Nat /\ \A j \in 0 .. n : j \in Nat /\ j # m
    OBVIOUS
  <2> HIDE DEF m
  <2>2. Q = [P EXCEPT ![m] = x]
    BY DEF m
  <2> HIDE DEF Q
  <2>3. QED
    BY <2>1, <2>2
<1>2. n <= m /\ n \in 0 .. m - 1 /\ n \in 0 .. n /\ \A j \in 0 .. m : j \in 0 .. n \/ j = m
  OBVIOUS
<1>0. m = n + 1
  OBVIOUS
<1> HIDE DEF Q, m
<1>3. pc[e] # "closed" /\ ~(pc[e] = "closed")
  BY DEF Live
<1>4. Carried(Pipe(e), Q, m, said[e], over)
  <2>1. Carried(Pipe(e), P, n, said[e], pc[e] = "closed")
    BY DEF Sent
  <2> DEFINE q == Pipe(e)
             s == said[e]
  <2>2. Carried(q, P, n, s, FALSE)
    <3>1. (pc[e] = "closed") = FALSE
      BY <1>3
    <3>2. QED
      BY <2>1, <3>1
  <2> HIDE DEF over, q, s
  <2>3. Carried(q, Q, m, s, over)
    BY <1>1, <1>2, <2>2, CarriedFrom
  <2>4. QED
    BY <2>3 DEF q, s
<1>5. Carried(Pipe(e)', Q, m, said[e], over)
  <2>1. CASE PutsCut(e, r)
    BY <1>4, <2>1, CarriedCut
  <2>2. CASE ~PutsCut(e, r)
    <3>1. Q[r.seq] = P[n] /\ Q[r.seq + 1] = x /\ r.seq \in 0 .. m - 1
      BY <1>0, <1>1, <1>2
    <3>2. Carries(r, Q, m, said[e], over)
      BY <2>2, <3>1 DEF Carries, Fills
    <3> HIDE DEF over
    <3>3. QED
      BY <1>4, <2>2, <3>2, CarriedPuts
  <2>3. QED
    BY <2>1, <2>2
<1>6. Q[0] = 0 /\ \A j \in 0 .. m : Q[j] <= said'[e]
  <2>1. 0 \in 0 .. n
    OBVIOUS
  <2>2. QED
    BY <1>1, <1>2, <2>1 DEF Sent
<1>7. pc'[e] \notin Young
  BY DEF Young, Shaking, Live
<1>8. pc'[e] \in Live => /\ m = tx'[e].seq /\ Q[m] + Len(rest'[e]) = said'[e]
                         /\ rest'[e] = [j \in 1 .. Len(rest'[e]) |-> Q[m] + j]
  BY <1>0, <1>1
<1>9. Sent(e, Q, m)'
  BY <1>5, <1>6, <1>7, <1>8 DEF Sent
<1>10. Heard(Peer(e), Q, m)'
  <2> SUFFICES ASSUME pc'[Peer(e)] \in Live, ended'[Peer(e)] # "auth"
               PROVE  rx'[Peer(e)].seq \in 0 .. m /\ Q[rx'[Peer(e)].seq] = Len(All(Peer(e))')
    BY DEF Heard
  <2>1. rx[Peer(e)].seq \in 0 .. n /\ P[rx[Peer(e)].seq] = Len(All(Peer(e)))
    BY DEF Rests, Heard
  <2>2. \A j \in 0 .. n : j \in 0 .. m /\ Q[j] = P[j]
    BY <1>0, <1>1
  <2>4. rx[Peer(e)].seq \in 0 .. m /\ Q[rx[Peer(e)].seq] = P[rx[Peer(e)].seq]
    BY <2>1, <2>2
  <2>5. QED
    BY <2>1, <2>4 DEF Rests
<1>11. QED
  BY <1>1, <1>9, <1>10 DEF Stream

LEMMA AllGrows ==
  ASSUME NEW f, NEW c, IsSeq(got[f]), IsSeq(pending[f]), IsSeq(c),
         got'[f] = got[f], pending'[f] = pending[f] \o c
  PROVE  All(f)' = All(f) \o c
<1>1. PICK x, y : x = got[f] /\ y = pending[f]
  OBVIOUS
<1>2. IsSeq(x) /\ IsSeq(y) /\ IsSeq(c)
  BY <1>1
<1>3. (x \o y) \o c = x \o (y \o c)
  BY <1>2, SeqAssoc
<1>4. QED
  BY <1>1, <1>3 DEF All

LEMMA MovedAll ==
  ASSUME NEW e, IsSeq(got[e]), IsSeq(pending[e]), NEW n \in 0 .. Len(pending[e]),
         got'[e] = got[e] \o SubSeq(pending[e], 1, n),
         pending'[e] = SubSeq(pending[e], n + 1, Len(pending[e]))
  PROVE  All(e)' = All(e)
<1>1. PICK x, y : x = got[e] /\ y = pending[e]
  OBVIOUS
<1>2. IsSeq(x) /\ IsSeq(y) /\ n \in 0 .. Len(y)
  BY <1>1
<1>3. (x \o SubSeq(y, 1, n)) \o SubSeq(y, n + 1, Len(y)) = x \o y
  BY <1>2, SeqMove
<1>4. QED
  BY <1>1, <1>3 DEF All

(* f takes a record of its session that opens.                             *)
LEMMA StreamTaken ==
  ASSUME SInv, NEW f \in Ends, NEW g \in Ends, g = Peer(f), TakeRecord(f),
         Under(buf[f]).type = "data", Opens(rx[f], buf[f])
  PROVE  Stream(g)' /\ Told(f)' /\ IsSeq(pending'[f])
<1> DEFINE r == Under(buf[f])
<1>1. /\ reader[f] = "recv" /\ pc[f] = "open" /\ ~closed[f] /\ ended[f] = "none" /\ pc' = pc
      /\ said' = said /\ rest' = rest /\ tx' = tx /\ got' = got
      /\ chan' = chan /\ HasRecord(buf[f]) /\ DropRecord(f)
  BY DEF TakeRecord, InLoop, Ready, SInv, Reading, wires, talk
<1>2. /\ IsKey(rx[f]) /\ rx[f].key[1] \in AppLabels /\ DOMAIN rx = Ends /\ DOMAIN pending = Ends /\ DOMAIN ended = Ends
      /\ IsSeq(got[f]) /\ IsSeq(pending[f])
  BY <1>1 DEF SInv, Phased, Live, Shaped, EndShaped, SessionShaped
<1>3. OfSession(r) /\ r.seq = rx[f].seq /\ buf[f][1].part = "head" /\ buf[f][2].part = "body" /\ buf[f][1].of = r
  BY <1>2 DEF Opens, OfSession, Whole, Under
<1>4. rx'[f] = Advance(rx[f]) /\ rx'[f].seq = r.seq + 1
  BY <1>2, <1>3, Advanced DEF TakeRecord
<1> HIDE DEF r
<1>p. Peer(g) = f
  BY PeerIs
<1>5. PICK P \in [Nat -> Nat], n \in Nat : Sent(g, P, n) /\ Heard(f, P, n)
  BY <1>p DEF SInv, Streams, Stream
<1>6. P[r.seq] = Len(All(f))
  BY <1>1, <1>3, <1>5 DEF Heard, Live
<1>7. /\ TakesUpTo(g, 2) /\ Len(Pipe(g)) >= 2 /\ Pipe(g)[1] = buf[f][1] /\ Pipe(g)[2] = buf[f][2]
      /\ IsSeq(Pipe(g)) /\ Len(Pipe(g)) \in Nat
  BY <1>1, DropWires, PipeIsSeq DEF SInv, Shaped
<1>8. Carries(r, P, n, said[g], pc[g] = "closed")
  <2>1. 1 \in 1 .. Len(Pipe(g)) - 1 /\ 1 + 1 = 2
    BY <1>7
  <2> DEFINE q == Pipe(g)
  <2>2. Carried(q, P, n, said[g], pc[g] = "closed")
    BY <1>5 DEF Sent
  <2>3. q[1].part = "head" /\ q[2].part = "body" /\ q[1].of = r /\ 1 \in 1 .. Len(q) - 1
    BY <1>3, <1>7, <2>1
  <2> HIDE DEF q
  <2>4. QED
    BY <1>3, <2>1, <2>2, <2>3 DEF Carried
<1>9. Sent(g, P, n)'
  <2> DEFINE q == Pipe(g)
  <2>1. Carried(q, P, n, said[g], pc[g] = "closed") /\ IsSeq(q) /\ 2 \in 0 .. Len(q)
        /\ q' = SubSeq(q, 2 + 1, Len(q))
    BY <1>5, <1>7 DEF Sent, TakesUpTo
  <2> HIDE DEF q
  <2>2. Carried(SubSeq(q, 2 + 1, Len(q)), P, n, said[g], pc[g] = "closed")
    BY <2>1, CarriedTakes
  <2>3. Carried(Pipe(g)', P, n, said[g], pc[g] = "closed")
    BY <2>1, <2>2 DEF q
  <2>4. QED
    BY <1>1, <1>5, <2>3 DEF Sent
<1>10. r.seq \in 0 .. n - 1 /\ r.seq + 1 \in 0 .. n /\ P[r.seq + 1] <= said[g] /\ P[r.seq + 1] \in Nat
  <2>1. r.seq \in 0 .. n - 1
    BY <1>8 DEF Carries
  <2>2. r.seq + 1 \in 0 .. n /\ r.seq + 1 \in Nat
    BY <1>5, <2>1
  <2>3. P[r.seq + 1] <= said[g] /\ P[r.seq + 1] \in Nat
    <3>1. \A j \in 0 .. n : P[j] <= said[g]
      BY <1>5 DEF Sent
    <3>2. QED
      BY <1>5, <2>2, <3>1
  <2>4. QED
    BY <2>1, <2>2, <2>3
<1>11. Told(f) /\ IsSeq(All(f)) /\ Len(All(f)) \in Nat
  <2>1. IsSeq(All(f))
    BY <1>2, SeqCat DEF All
  <2>2. QED
    BY <2>1, SeqBasics DEF SInv, Streams
<1>12. CASE r.inner = "app"
  <2> DEFINE c == r.content
             a == All(f)
  <2>1. pending' = [pending EXCEPT ![f] = pending[f] \o c] /\ ended' = ended
    BY <1>12 DEF TakeRecord, r
  <2>2. Len(c) \in Nat /\ c = [j \in 1 .. Len(c) |-> P[r.seq] + j] /\ P[r.seq + 1] = P[r.seq] + Len(c)
    BY <1>8, <1>12 DEF Carries
  <2>3. IsSeq(c) /\ \A j \in 1 .. Len(c) : c[j] = Len(a) + j
    <3>1. P[r.seq] \in Nat
      BY <1>6, <1>11
    <3> DEFINE k == Len(c)
               b == P[r.seq]
    <3>2. k \in Nat /\ b \in Nat /\ c = [j \in 1 .. k |-> b + j] /\ b = Len(a)
      BY <1>6, <2>2, <3>1
    <3> HIDE DEF k, b, c
    <3>3. IsSeq(c) /\ \A j \in 1 .. k : c[j] = b + j
      BY <3>2, SeqCount
    <3>4. QED
      BY <3>2, <3>3 DEF k
  <2>4. All(f)' = a \o c
    <3>1. pending'[f] = pending[f] \o c /\ got'[f] = got[f]
      BY <1>1, <1>2, <2>1
    <3>2. IsSeq(got[f]) /\ IsSeq(pending[f]) /\ IsSeq(c)
      BY <1>2, <2>3
    <3> HIDE DEF c
    <3>3. QED
      BY <3>1, <3>2, AllGrows
  <2>5. IsSeq(a) /\ Len(a) \in Nat /\ (\A j \in 1 .. Len(a) : a[j] = j) /\ Len(c) \in Nat
    <3>1. IsSeq(a) /\ Len(a) \in Nat /\ a = [j \in 1 .. Len(a) |-> j] /\ Len(c) \in Nat
      BY <1>11, <2>2 DEF Told
    <3> HIDE DEF a
    <3>2. QED
      BY <3>1
  <2>6. P[r.seq + 1] = Len(a) + Len(c)
    BY <1>6, <2>2
  <2> HIDE DEF c, a
  <2>7. Len(a \o c) = Len(a) + Len(c) /\ a \o c = [j \in 1 .. Len(a \o c) |-> j]
    BY <2>3, <2>5, SeqGrows
  <2>8. Told(f)'
    <3>1. Len(All(f)') <= said'[Peer(f)]
      BY <1>1, <1>10, <2>4, <2>6, <2>7
    <3>2. ended'[f] # "notify"
      BY <1>1, <2>1
    <3>3. QED
      BY <2>4, <2>7, <3>1, <3>2 DEF Told
  <2>9. Heard(f, P, n)'
    BY <1>4, <1>10, <2>4, <2>6, <2>7 DEF Heard
  <2>10. IsSeq(pending'[f])
    <3> HIDE DEF c
    <3>1. IsSeq(pending[f] \o c)
      BY <1>2, <2>3, SeqCat
    <3>2. QED
      BY <1>2, <2>1, <3>1
  <2>11. QED
    BY <1>p, <1>9, <2>8, <2>9, <2>10 DEF Stream
<1>13. CASE r.inner # "app"
  <2>1. pending' = pending
    BY <1>13 DEF TakeRecord, r
  <2>2. All(f)' = All(f) /\ P[r.seq + 1] = P[r.seq]
    BY <1>1, <1>8, <1>13, <2>1 DEF All, Carries
  <2>3. Heard(f, P, n)'
    BY <1>4, <1>6, <1>10, <2>2 DEF Heard
  <2>4. ended'[f] = "notify" => r.inner = "alert"
    BY <1>1, <1>2, <1>13 DEF TakeRecord, End, r
  <2>5. r.inner = "alert" => pc[g] = "closed" /\ Len(All(f)) = said[g]
    BY <1>6, <1>8 DEF Carries
  <2>6. Told(f)'
    BY <1>1, <1>11, <2>2, <2>4, <2>5 DEF Told
  <2>7. QED
    BY <1>p, <1>2, <1>9, <2>1, <2>3, <2>6 DEF Stream
<1>14. QED
  BY <1>12, <1>13

LEMMA Domains ==
  ASSUME SInv
  PROVE  /\ WireShaped /\ Reading /\ SessionShaped
         /\ DOMAIN pc = Ends /\ DOMAIN tx = Ends /\ DOMAIN rx = Ends
         /\ DOMAIN transcript = Ends /\ DOMAIN secret = Ends
         /\ DOMAIN reader = Ends /\ DOMAIN want = Ends /\ DOMAIN pending = Ends
         /\ DOMAIN closed = Ends /\ DOMAIN ended = Ends /\ DOMAIN eof = Ends
         /\ DOMAIN rest = Ends /\ DOMAIN said = Ends /\ DOMAIN got = Ends
         /\ \A e \in Ends : IsSeq(pending[e]) /\ IsSeq(got[e]) /\ IsSeq(rest[e]) /\ said[e] \in Nat
  BY DEF SInv, Shaped, EndShaped, SessionShaped

(* Data goes to a session: it waits in rest.                               *)
LEMMA CallSendKeeps ==
  ASSUME SInv, NEW e \in Ends, NEW n \in Nat, CallSend(e, n)
  PROVE  SInv'
<1> DEFINE g == Peer(e)
           R == Plain("ccs", None)
           b == said[e]
           new == [i \in 1 .. n |-> b + i]
<1>1. g \in Ends /\ g # e /\ Peer(g) = e /\ \A x \in Ends : x = e \/ x = g
  BY PeerIs
<1>2. /\ pc[e] = "open" /\ rest[e] = <<>>
      /\ rest' = [rest EXCEPT ![e] = new] /\ said' = [said EXCEPT ![e] = b + n]
      /\ chan' = chan /\ buf' = buf /\ pc' = pc /\ tx' = tx /\ rx' = rx /\ got' = got
      /\ transcript' = transcript /\ secret' = secret /\ UNCHANGED session
  BY DEF CallSend, wires, handshake, keys
<1>0. g = Peer(e) /\ ~OfSession(R)
  BY NotOfSession
<1> HIDE DEF g, R
<1>3. b \in Nat
  BY Domains
<1>4. IsSeq(new) /\ Len(new) = n
  <2> HIDE DEF b
  <2>1. QED
    BY <1>3, SeqCount
<1>5. rest'[e] = new /\ rest'[g] = rest[g] /\ said'[e] = b + n /\ said'[g] = said[g]
      /\ DOMAIN rest' = Ends /\ DOMAIN said' = Ends
  BY <1>1, <1>2, Domains
<1> HIDE DEF new
<1>6. Shaped'
  <2>1. WireShaped' /\ EndShaped'
    BY <1>2, Domains DEF WireShaped, EndShaped
  <2>2. \A d \in Ends : IsSeq(rest'[d]) /\ said'[d] \in Nat
    BY <1>1, <1>3, <1>4, <1>5, Domains
  <2>3. SessionShaped'
    BY <1>2, <1>5, <2>2, Domains DEF SessionShaped, session
  <2>4. QED
    BY <2>1, <2>3 DEF Shaped
<1>7. Phased'
  BY <1>2 DEF SInv, Phased
<1>8. Reading'
  <2>1. pc[e] \notin Young
    BY <1>2 DEF Young, Shaking
  <2>2. QED
    BY <1>1, <1>2, <1>5, <2>1, Domains DEF Reading, session
<1>9. Stream(e)'
  <2>1. PICK P \in [Nat -> Nat], m \in Nat : Sent(e, P, m) /\ Heard(g, P, m)
    BY <1>0 DEF SInv, Streams, Stream
  <2>2. P[m] = b
    <3>1. P[m] + Len(rest[e]) = said[e] /\ Len(rest[e]) = 0
      BY <1>2, <2>1, NothingYet DEF Sent, Live
    <3>2. P[m] \in Nat
      BY <2>1
    <3>3. QED
      BY SMTT(30), <3>1, <3>2
  <2>3. Carried(Pipe(e)', P, m, said'[e], pc'[e] = "closed")
    <3>1. (pc[e] = "closed") = FALSE /\ (pc'[e] = "closed") = FALSE /\ Pipe(e)' = Pipe(e)
      BY <1>2 DEF Pipe
    <3> DEFINE q == Pipe(e)
               s == said[e]
               now == said'[e]
    <3>0. Carried(Pipe(e), P, m, said[e], pc[e] = "closed")
      BY <2>1 DEF Sent
    <3>2. Carried(q, P, m, s, FALSE)
      BY <3>0, <3>1
    <3>4. m \in Nat /\ m <= m
      BY <2>1
    <3> HIDE DEF q, s, now
    <3>3. Carried(q, P, m, now, FALSE)
      BY <3>2, <3>4, CarriedFrom
    <3>5. QED
      BY <3>1, <3>3 DEF q, now
  <2>4. P[0] = 0 /\ \A j \in 0 .. m : P[j] <= said'[e]
    <3>1. ASSUME NEW j \in 0 .. m PROVE P[j] <= b + n
      <4>1. P[j] <= b
        <5>1. \A i \in 0 .. m : P[i] <= said[e]
          BY <2>1 DEF Sent
        <5>2. QED
          BY <5>1
      <4>2. P[j] \in Nat
        <5>1. j \in Nat
          OBVIOUS
        <5>2. QED
          BY <2>1, <5>1
      <4>3. QED
        BY <1>3, <4>1, <4>2
    <3>2. QED
      BY <1>5, <2>1, <3>1 DEF Sent
  <2>5. m = tx'[e].seq /\ P[m] + Len(rest'[e]) = said'[e] /\ rest'[e] = [j \in 1 .. Len(rest'[e]) |-> P[m] + j]
    BY <1>2, <1>4, <1>5, <2>1, <2>2 DEF Sent, Live, new
  <2>6. Sent(e, P, m)'
    BY <1>2, <2>3, <2>4, <2>5 DEF Sent, Young, Shaking
  <2>7. Heard(g, P, m)'
    BY <1>2, <2>1 DEF Heard, All, session
  <2>8. QED
    BY <1>0, <2>1, <2>6, <2>7 DEF Stream
<1>10. Stream(g)'
  <2>1. WireShaped /\ Reading /\ Stream(g)
    BY <1>1 DEF SInv, Shaped, Streams
  <2>2. SenderKeeps(g) /\ ReaderKeeps(e)
    BY <1>2, <1>5 DEF SenderKeeps, ReaderKeeps, All, session
  <2>3. Moves(g, R)
    BY <1>2 DEF Moves, Puts, Pipe
  <2>4. QED
    BY <1>0, <1>1, <2>1, <2>2, <2>3, StreamKept
<1>11. Told(e)' /\ Told(g)'
  <2>1. SessionShaped /\ Told(e) /\ Told(g) /\ All(e)' = All(e) /\ All(g)' = All(g)
    BY <1>1, <1>2 DEF SInv, Shaped, Streams, All, session
  <2>2. ended' = ended /\ said'[g] \in Nat /\ said'[g] >= said[g] /\ said'[e] \in Nat /\ said'[e] >= said[e]
    BY <1>1, <1>2, <1>3, <1>5, Domains DEF session
  <2>3. pc[e] # "closed" /\ pc'[g] = pc[g]
    BY <1>2
  <2>4. Told(e)'
    BY <1>0, <1>5, <2>1, <2>2, <2>3, ToldKept
  <2>5. Told(g)'
    BY <1>1, <2>1, <2>2, <2>3, ToldKept
  <2>6. QED
    BY <2>4, <2>5
<1>12. QED
  BY <1>1, <1>6, <1>7, <1>8, <1>9, <1>10, <1>11 DEF SInv, Streams

(* A record is sealed while the session stays open.                        *)
LEMMA SealKeeps ==
  ASSUME SInv, NEW e \in Ends, pc[e] = "open", NEW r, SendAll(e, r) \/ SendCut(e, r),
         buf' = buf, pc' = pc, rx' = rx, said' = said, got' = got,
         transcript' = transcript, secret' = secret, UNCHANGED session,
         tx' = [tx EXCEPT ![e] = Advance(tx[e])],
         NEW P \in [Nat -> Nat], NEW n \in Nat, Sent(e, P, n), Heard(Peer(e), P, n), r.seq = n,
         NEW x \in Nat, NEW k \in Nat, x + k = said[e],
         Sets(rest, rest', e, [j \in 1 .. k |-> x + j]),
         SendCut(e, r) \/ Fills(r, P[n], x, said[e], pc'[e] = "closed")
  PROVE  SInv'
<1> DEFINE g == Peer(e)
           R == Plain("ccs", None)
           new == [j \in 1 .. k |-> x + j]
<1>1. g \in Ends /\ g # e /\ Peer(g) = e /\ \A d \in Ends : d = e \/ d = g
  BY PeerIs
<1>0. g = Peer(e) /\ ~OfSession(R)
  BY NotOfSession
<1> HIDE DEF g, R
<1>2. IsSeq(new) /\ Len(new) = k
  BY SeqCount
<1>3. rest'[e] = new /\ rest'[g] = rest[g] /\ DOMAIN rest' = Ends
  BY <1>1 DEF Sets
<1>n. new = [j \in 1 .. k |-> x + j]
  OBVIOUS
<1> HIDE DEF new
<1>4. IsKey(tx[e]) /\ tx[e].key[1] \in AppLabels /\ n = tx[e].seq
  BY DEF SInv, Phased, Live, Sent
<1>5. /\ tx'[e] = Advance(tx[e]) /\ tx'[g] = tx[g] /\ DOMAIN tx' = Ends
      /\ IsKey(tx'[e]) /\ tx'[e].key = tx[e].key /\ tx'[e].seq = n + 1
  BY <1>1, <1>4, Domains, Advanced
<1>6. WireShaped' /\ Puts(e, r) /\ Pipe(g)' = Pipe(g) /\ (SendCut(e, r) => PutsCut(e, r))
  <2>1. DOMAIN buf' = Ends /\ IsSeq(buf'[e]) /\ buf'[Peer(e)] = buf[Peer(e)] /\ WireShaped
    BY Domains DEF WireShaped
  <2>2. WireShaped' /\ Puts(e, r) /\ chan'[e] = chan[e] /\ (SendCut(e, r) => PutsCut(e, r))
    BY <2>1, SendWires
  <2>3. Pipe(g)' = Pipe(g)
    BY <1>1, <2>2 DEF Pipe
  <2>4. QED
    BY <2>2, <2>3
<1>7. Shaped'
  <2>1. EndShaped'
    BY <1>5, Domains DEF EndShaped
  <2>2. \A d \in Ends : IsSeq(rest'[d])
    BY <1>1, <1>2, <1>3, Domains
  <2>3. SessionShaped'
    BY <1>3, <2>2, Domains DEF SessionShaped, session
  <2>4. QED
    BY <1>6, <2>1, <2>3 DEF Shaped
<1>8. Phased'
  <2>1. pc[e] \notin Shaking /\ pc[e] \in Live
    BY DEF Shaking, Live
  <2>2. QED
    BY <1>1, <1>4, <1>5, <2>1 DEF SInv, Phased
<1>9. Reading'
  <2>1. pc[e] \notin Young
    BY DEF Young, Shaking
  <2>2. rest'[g] = rest[g] /\ said' = said /\ got' = got /\ pending' = pending /\ eof' = eof /\ ended' = ended
        /\ closed' = closed /\ reader' = reader /\ want' = want /\ pc' = pc /\ Reading
    BY <1>3, Domains DEF session
  <2>3. \A d \in Ends : rest'[d] # <<>> => pc[d] = "open"
    <3>1. pc[e] = "open"
      OBVIOUS
    <3>2. rest[g] # <<>> => pc[g] = "open"
      BY <1>1, <2>2 DEF Reading
    <3>3. QED
      BY <1>1, <2>2, <3>1, <3>2
  <2>4. \A d \in Ends : pc[d] \in Young => rest'[d] = <<>>
    <3>1. pc[g] \in Young => rest[g] = <<>>
      BY <1>1, <2>2 DEF Reading
    <3>2. QED
      BY <1>1, <2>1, <2>2, <3>1
  <2>5. QED
    BY <2>2, <2>3, <2>4 DEF Reading
<1>10. Stream(e)'
  <2>1. Rests(Peer(e))
    BY <1>0, <1>3, <1>5 DEF Rests, All, session
  <2>2. pc[e] \in Live /\ pc'[e] \in Live \cup {"closed"} /\ x <= said[e] /\ WireShaped
    BY Domains DEF Live
  <2>3. tx'[e].seq = n + 1 /\ x + Len(rest'[e]) = said[e] /\ rest'[e] = [j \in 1 .. Len(rest'[e]) |-> x + j]
    BY <1>2, <1>3, <1>5, <1>n
  <2>4. CASE SendCut(e, r)
    BY <1>6, <2>1, <2>2, <2>3, <2>4, StreamSealed
  <2>5. CASE Fills(r, P[n], x, said[e], pc'[e] = "closed")
    BY <1>6, <2>1, <2>2, <2>3, <2>5, StreamSealed
  <2>6. QED
    BY <2>4, <2>5
<1>11. Stream(g)'
  <2>1. WireShaped /\ Reading /\ Stream(g)
    BY <1>1 DEF SInv, Shaped, Streams
  <2>2. SenderKeeps(g) /\ ReaderKeeps(e)
    BY <1>3, <1>5 DEF SenderKeeps, ReaderKeeps, All, session, Live
  <2>3. Moves(g, R)
    BY <1>6 DEF Moves, Puts
  <2>4. QED
    BY <1>0, <1>1, <2>1, <2>2, <2>3, StreamKept
<1>12. \A f \in Ends : Told(f)'
  BY DEF SInv, Streams, Told, All, session
<1>13. QED
  BY <1>1, <1>7, <1>8, <1>9, <1>10, <1>11, <1>12 DEF SInv, Streams

LEMMA SeqCountCut ==
  ASSUME NEW n \in Nat, NEW a \in Nat, NEW k \in 0 .. n, NEW s, s = [j \in 1 .. n |-> a + j]
  PROVE  /\ Len(s) = n /\ SubSeq(s, 1, k) = [j \in 1 .. k |-> a + j]
         /\ SubSeq(s, k + 1, Len(s)) = [j \in 1 .. n - k |-> (a + k) + j]
<1>1. IsSeq(s) /\ Len(s) = n /\ \A j \in 1 .. n : s[j] = a + j
  BY SeqCount
<1> DEFINE u == SubSeq(s, 1, k)
           v == SubSeq(s, k + 1, Len(s))
           x == [j \in 1 .. k |-> a + j]
           y == [j \in 1 .. n - k |-> (a + k) + j]
<1>2. k \in Nat /\ n - k \in Nat /\ a + k \in Nat /\ k \in 0 .. Len(s)
  BY <1>1
<1>3. IsSeq(x) /\ Len(x) = k /\ \A j \in 1 .. k : x[j] = a + j
  BY <1>2, SeqCount
<1>4. IsSeq(y) /\ Len(y) = n - k /\ \A j \in 1 .. n - k : y[j] = (a + k) + j
  <2> DEFINE m == n - k
             b == a + k
  <2>1. m \in Nat /\ b \in Nat
    BY <1>2
  <2>2. y = [j \in 1 .. m |-> b + j]
    OBVIOUS
  <2> HIDE DEF m, b, y
  <2>3. IsSeq(y) /\ Len(y) = m /\ \A j \in 1 .. m : y[j] = b + j
    BY <2>1, <2>2, SeqCount
  <2>4. QED
    BY <2>3 DEF m, b
<1>5. /\ IsSeq(v) /\ Len(v) = Len(s) - k /\ (\A i \in 1 .. Len(s) - k : v[i] = s[k + i])
      /\ IsSeq(u) /\ Len(u) = k /\ \A i \in 1 .. k : u[i] = s[i]
  BY <1>1, <1>2, SeqCut
<1> HIDE DEF u, v, x, y
<1>6. u = x
  <2>1. ASSUME NEW i \in 1 .. k PROVE u[i] = x[i]
    <3>1. i \in 1 .. n
      BY <1>2
    <3>2. s[i] = a + i /\ u[i] = s[i] /\ x[i] = a + i
      BY <1>1, <1>3, <1>5, <3>1
    <3>3. QED
      BY <3>2
  <2>2. QED
    BY <1>3, <1>5, <2>1, SeqSame
<1>7. v = y
  <2>1. ASSUME NEW i \in 1 .. n - k PROVE v[i] = y[i]
    <3>1. k + i \in 1 .. n /\ a + (k + i) = (a + k) + i /\ i \in 1 .. Len(s) - k
      BY <1>1, <1>2
    <3>2. QED
      BY <1>1, <1>4, <1>5, <3>1
  <2>2. Len(v) = Len(y) /\ \A i \in 1 .. Len(v) : v[i] = y[i]
    BY <1>1, <1>4, <1>5, <2>1
  <2>3. QED
    BY <1>4, <1>5, <2>2, SeqSame
<1>8. QED
  BY <1>1, <1>6, <1>7 DEF u, v, x, y

LEMMA SendPieceKeeps ==
  ASSUME SInv, NEW e \in Ends, SendPiece(e)
  PROVE  SInv'
<1> DEFINE L == Len(rest[e])
           k == IF L < MaxPlain THEN L ELSE MaxPlain
           c == SubSeq(rest[e], 1, k)
           r == Seal(tx[e], "app", c)
<1>1. /\ pc[e] = "open" /\ rest[e] # <<>> /\ buf' = buf /\ pc' = pc /\ rx' = rx /\ said' = said /\ got' = got
      /\ transcript' = transcript /\ secret' = secret /\ UNCHANGED session
      /\ tx' = [tx EXCEPT ![e] = Advance(tx[e])]
  BY DEF SendPiece, AfterCut, handshake
<1>2. \/ SendAll(e, r) /\ rest' = [rest EXCEPT ![e] = SubSeq(rest[e], k + 1, L)]
      \/ SendCut(e, r) /\ rest' = [rest EXCEPT ![e] = <<>>]
  BY DEF SendPiece
<1>3. PICK P \in [Nat -> Nat], n \in Nat : Sent(e, P, n) /\ Heard(Peer(e), P, n)
  BY DEF SInv, Streams, Stream
<1>4. n = tx[e].seq /\ P[n] + L = said[e] /\ rest[e] = [j \in 1 .. L |-> P[n] + j]
  BY <1>1, <1>3 DEF Sent, Live
<1>5. P[n] \in Nat /\ L \in Nat /\ L > 0 /\ said[e] \in Nat
  <2>1. IsSeq(rest[e]) /\ said[e] \in Nat
    BY Domains
  <2>2. L \in Nat /\ L # 0
    BY <1>1, <2>1, SeqBasics
  <2>3. QED
    BY <1>3, <2>1, <2>2
<1>6. k \in 0 .. L /\ k \in Nat /\ L - k \in Nat
  <2> HIDE DEF L
  <2>1. MaxPlain \in Nat
    BY TlsAssumption DEF TlsAssumption
  <2>2. QED
    BY <1>5, <2>1
<1> DEFINE p == P[n]
<1> HIDE DEF k, p
<1>7. c = [j \in 1 .. k |-> p + j] /\ SubSeq(rest[e], k + 1, L) = [j \in 1 .. L - k |-> (p + k) + j]
  <2> DEFINE s == rest[e]
             m == L
  <2>1. m \in Nat /\ p \in Nat /\ k \in 0 .. m /\ s = [j \in 1 .. m |-> p + j]
    BY <1>4, <1>5, <1>6 DEF p
  <2>2. Len(s) = m
    OBVIOUS
  <2> HIDE DEF s, m
  <2>3. SubSeq(s, 1, k) = [j \in 1 .. k |-> p + j] /\ SubSeq(s, k + 1, Len(s)) = [j \in 1 .. m - k |-> (p + k) + j]
    BY SMTT(30), <2>1, SeqCountCut
  <2>4. QED
    BY <2>2, <2>3 DEF s, m
<1>8. r.inner = "app" /\ r.content = c /\ r.seq = n
  BY <1>4 DEF Seal
<1>9. Len(c) = k
  <2>1. k \in Nat /\ p \in Nat
    BY <1>5, <1>6 DEF p
  <2>2. Len([j \in 1 .. k |-> p + j]) = k
    BY <2>1, SeqCount
  <2>3. QED
    BY <1>7, <2>2
<1> HIDE DEF r, c
<1>10. CASE SendAll(e, r) /\ rest' = [rest EXCEPT ![e] = SubSeq(rest[e], k + 1, L)]
  <2> DEFINE x == p + k
             m == L - k
  <2>1. x \in Nat /\ m \in Nat /\ x + m = said[e]
    <3> HIDE DEF L
    <3>1. p \in Nat /\ p + L = said[e] /\ L \in Nat
      BY <1>4, <1>5 DEF p
    <3>2. QED
      BY <1>6, <3>1
  <2>2. Fills(r, P[n], x, said[e], pc'[e] = "closed")
    BY <1>6, <1>7, <1>8, <1>9 DEF Fills, p
  <2>3. Sets(rest, rest', e, [j \in 1 .. m |-> x + j])
    BY <1>7, <1>10, SetsIs, Domains
  <2> HIDE DEF x, m
  <2>4. QED
    BY <1>1, <1>3, <1>8, <1>10, <2>1, <2>2, <2>3, SealKeeps
<1>11. CASE SendCut(e, r) /\ rest' = [rest EXCEPT ![e] = <<>>]
  <2> DEFINE x == said[e]
  <2>1. x \in Nat /\ 0 \in Nat /\ x + 0 = said[e]
    BY <1>5
  <2>2. Sets(rest, rest', e, [j \in 1 .. 0 |-> x + j])
    BY <1>11, NothingYet, SetsIs, Domains
  <2> HIDE DEF x
  <2>3. QED
    BY <1>1, <1>3, <1>8, <1>11, <2>1, <2>2, SealKeeps
<1>12. QED
  BY <1>2, <1>10, <1>11

LEMMA AfterHandshakeKeeps ==
  ASSUME SInv, AfterHandshake
  PROVE  SInv'
<1> DEFINE e == "server"
           r == Seal(tx[e], "handshake", server.after)
<1>1. /\ e \in Ends /\ pc[e] = "open" /\ rest[e] = <<>> /\ buf' = buf /\ pc' = pc /\ rx' = rx
      /\ said' = said /\ got' = got /\ rest' = rest
      /\ transcript' = transcript /\ secret' = secret /\ UNCHANGED session
      /\ tx' = [tx EXCEPT ![e] = Advance(tx[e])] /\ SendAll(e, r)
  BY PeerIs DEF AfterHandshake, talk
<1>2. PICK P \in [Nat -> Nat], n \in Nat : Sent(e, P, n) /\ Heard(Peer(e), P, n)
  BY <1>1 DEF SInv, Streams, Stream
<1>3. r.inner = "handshake" /\ r.seq = tx[e].seq
  BY DEF Seal
<1> HIDE DEF e, r
<1>4. n = tx[e].seq /\ P[n] + Len(rest[e]) = said[e]
  BY <1>1, <1>2 DEF Sent, Live
<1>5. P[n] \in Nat /\ Len(rest[e]) = 0
  BY <1>1, <1>2, NothingYet
<1> DEFINE x == P[n]
<1>6. x \in Nat /\ 0 \in Nat /\ x + 0 = said[e]
  BY <1>4, <1>5
<1>7. Fills(r, P[n], x, said[e], pc'[e] = "closed")
  BY <1>3 DEF Fills
<1>8. Sets(rest, rest', e, [j \in 1 .. 0 |-> x + j])
  <2>1. Sets(rest, rest', e, <<>>)
    BY <1>1, SetsIs, Domains
  <2>2. QED
    BY <2>1, NothingYet
<1>9. r.seq = n
  BY <1>3, <1>4
<1> HIDE DEF x
<1>10. QED
  BY <1>1, <1>2, <1>6, <1>7, <1>8, <1>9, SealKeeps

(* No record of data goes out or is opened.                                *)
LEMMA QuietKeeps ==
  ASSUME SInv, NEW r, ~OfSession(r), WireShaped', \A d \in Ends : Moves(d, r),
         pc' = pc, tx' = tx, transcript' = transcript, secret' = secret, rest' = rest, said' = said,
         DOMAIN rx' = Ends, SessionShaped', Reading',
         \A d \in Ends :
           /\ \/ rx'[d] = rx[d]
              \/ IsKey(rx'[d]) /\ rx'[d].key = rx[d].key /\ ended'[d] = "auth"
           /\ All(d)' = All(d)
           /\ ended[d] = "auth" => ended'[d] = "auth"
           /\ ended'[d] = "notify" => ended[d] = "notify"
  PROVE  SInv'
<1>1. Shaped'
  BY Domains DEF Shaped, EndShaped
<1>2. Phased'
  BY DEF SInv, Phased
<1>3. ASSUME NEW d \in Ends PROVE SenderKeeps(d) /\ ReaderKeeps(d) /\ Moves(d, r) /\ All(d)' = All(d)
  BY DEF SenderKeeps, ReaderKeeps
<1>4. Streams'
  BY <1>3, StreamsKept
<1>5. QED
  BY <1>1, <1>2, <1>4 DEF SInv

LEMMA CallRecvKeeps ==
  ASSUME SInv, NEW e \in Ends, NEW n \in Nat \ {0}, CallRecv(e, n)
  PROVE  SInv'
<1> DEFINE R == Plain("ccs", None)
<1>1. /\ pc[e] = "open" /\ chan' = chan /\ buf' = buf /\ UNCHANGED <<pc, tx, rx, transcript, secret, rest, said, got>>
      /\ pending' = pending /\ closed' = closed /\ ended' = ended /\ eof' = eof
      /\ reader' = [reader EXCEPT ![e] = "recv"] /\ want' = [want EXCEPT ![e] = n]
  BY DEF CallRecv, wires, handshake, keys, talk
<1>2. ~OfSession(R)
  BY NotOfSession
<1> HIDE DEF R
<1>3. WireShaped' /\ \A d \in Ends : Moves(d, R)
  BY <1>1, Domains DEF WireShaped, Moves, Puts, Pipe
<1>4. SessionShaped'
  BY <1>1, Domains DEF SessionShaped
<1>5. Reading'
  BY <1>1, Domains DEF Reading
<1>6. DOMAIN rx' = Ends /\ \A d \in Ends : rx'[d] = rx[d] /\ All(d)' = All(d) /\ ended'[d] = ended[d]
  BY <1>1, Domains DEF All
<1>7. QED
  BY <1>1, <1>2, <1>3, <1>4, <1>5, <1>6, QuietKeeps

LEMMA ReadMoreKeeps ==
  ASSUME SInv, NEW e \in Ends, NEW k, ReadMore(e, k)
  PROVE  SInv'
<1> DEFINE R == Plain("ccs", None)
<1>1. /\ Receive(e, k) /\ UNCHANGED <<pc, tx, rx, transcript, secret, rest, said, got>>
      /\ pending' = pending /\ closed' = closed /\ ended' = ended /\ eof' = eof /\ reader' = reader /\ want' = want
  BY DEF ReadMore, handshake, keys, session, talk
<1>2. ~OfSession(R)
  BY NotOfSession
<1> HIDE DEF R
<1>3. WireShaped' /\ \A d \in Ends : Moves(d, R)
  <2>1. WireShaped' /\ \A d \in Ends : Pipe(d)' = Pipe(d)
    BY <1>1, Domains, ReceiveWires
  <2>2. QED
    BY <2>1 DEF Moves, Puts
<1>4. SessionShaped' /\ Reading'
  BY <1>1, Domains DEF SessionShaped, Reading
<1>5. DOMAIN rx' = Ends /\ \A d \in Ends : rx'[d] = rx[d] /\ All(d)' = All(d) /\ ended'[d] = ended[d]
  BY <1>1, Domains DEF All
<1>6. QED
  BY <1>1, <1>2, <1>3, <1>4, <1>5, QuietKeeps

LEMMA EmptyReadKeeps ==
  ASSUME SInv, NEW e \in Ends, Dry(e), EmptyRead(e), chan' = chan
  PROVE  SInv'
<1> DEFINE R == Plain("ccs", None)
<1>1. /\ buf' = buf /\ UNCHANGED <<pc, tx, rx, transcript, secret, rest, said, got, pending>>
      /\ closed' = [closed EXCEPT ![e] = TRUE] /\ ended' = [ended EXCEPT ![e] = "eof"]
      /\ reader' = [reader EXCEPT ![e] = "idle"] /\ want' = [want EXCEPT ![e] = 0]
      /\ eof' = [eof EXCEPT ![e] = TRUE]
  BY DEF EmptyRead, Closes, End, handshake, keys, talk
<1>2. ~OfSession(R)
  BY NotOfSession
<1> HIDE DEF R
<1>3. WireShaped' /\ \A d \in Ends : Moves(d, R)
  BY <1>1, Domains DEF WireShaped, Moves, Puts, Pipe
<1>4. SessionShaped'
  BY <1>1, Domains DEF SessionShaped
<1>5. reader[e] = "recv" /\ pc[e] = "open" /\ ended[e] = "none" /\ pending[e] = <<>>
  BY Domains DEF EmptyRead, InLoop, Ready, Dry, Reading
<1>6. Reading'
  <2>1. pc[e] \notin Young
    BY <1>5 DEF Young, Shaking
  <2>2. QED
    BY <1>1, <1>5, <2>1, Domains DEF Reading
<1>7. DOMAIN rx' = Ends /\ \A d \in Ends : rx'[d] = rx[d] /\ All(d)' = All(d)
  BY <1>1, Domains DEF All
<1>8. \A d \in Ends : (ended[d] = "auth" => ended'[d] = "auth") /\ (ended'[d] = "notify" => ended[d] = "notify")
  BY <1>1, <1>5, Domains
<1>9. QED
  BY <1>1, <1>2, <1>3, <1>4, <1>6, <1>7, <1>8, QuietKeeps

LEMMA TakeRecordKeeps ==
  ASSUME SInv, NEW e \in Ends, TakeRecord(e)
  PROVE  SInv'
<1> DEFINE R == Plain("ccs", None)
           g == Peer(e)
<1>1. /\ chan' = chan /\ HasRecord(buf[e]) /\ DropRecord(e)
      /\ UNCHANGED <<pc, tx, transcript, secret, rest, said, got, reader, want, eof>>
      /\ reader[e] = "recv" /\ ~closed[e]
  BY DEF TakeRecord, InLoop, Ready, wires, handshake, talk
<1>2. pc[e] = "open" /\ ended[e] = "none" /\ pc[e] \notin Young /\ IsKey(rx[e]) /\ rx[e].key[1] \in AppLabels
  BY <1>1, Domains DEF Reading, Young, Shaking, SInv, Phased, Live
<1>3. g \in Ends /\ g # e /\ Peer(g) = e /\ \A d \in Ends : d = e \/ d = g
  BY PeerIs
<1>0. ~OfSession(R) /\ g = Peer(e)
  BY NotOfSession
<1> HIDE DEF R, g
<1>4. WireShaped' /\ \A d \in Ends : Moves(d, R)
  <2>1. WireShaped' /\ Puts(e, R) /\ Moves(Peer(e), R)
    BY <1>1, Domains, DropKeepsWires
  <2>2. QED
    BY <1>0, <1>3, <2>1 DEF Moves
<1>5. DOMAIN rx' = Ends /\ rx'[g] = rx[g] /\ rx'[e] = IF Under(buf[e]).type = "data" THEN Advance(rx[e]) ELSE rx[e]
  BY <1>3, Domains DEF TakeRecord
<1>6. IsKey(rx'[e]) /\ rx'[e].key = rx[e].key
  BY <1>2, <1>5, Advanced
<1>7. CASE ~(Under(buf[e]).type = "data" /\ Opens(rx[e], buf[e]))
  <2>1. \/ Under(buf[e]).type # "data" /\ UNCHANGED <<pending, closed, ended>>
        \/ UNCHANGED pending /\ closed' = [closed EXCEPT ![e] = TRUE] /\ ended' = [ended EXCEPT ![e] = "auth"]
    BY <1>7 DEF TakeRecord, End
  <2>2. /\ pending' = pending /\ DOMAIN ended' = Ends /\ DOMAIN closed' = Ends /\ ended'[g] = ended[g] /\ closed'[g] = closed[g]
        /\ \/ rx'[e] = rx[e] /\ ended'[e] = ended[e] /\ closed'[e] = closed[e]
           \/ ended'[e] = "auth" /\ closed'[e]
    BY <1>3, <1>5, <2>1, Domains
  <2>3. SessionShaped'
    BY <1>1, <2>2, Domains DEF SessionShaped
  <2>4. Reading'
    BY <1>1, <1>2, <1>3, <2>2, Domains DEF Reading
  <2>5. \A d \in Ends : All(d)' = All(d)
    BY <1>1, <2>2 DEF All
  <2>6. \A d \in Ends :
          /\ rx'[d] = rx[d] \/ (IsKey(rx'[d]) /\ rx'[d].key = rx[d].key /\ ended'[d] = "auth")
          /\ ended[d] = "auth" => ended'[d] = "auth"
          /\ ended'[d] = "notify" => ended[d] = "notify"
    BY <1>2, <1>3, <1>5, <1>6, <2>2
  <2>7. QED
    BY <1>0, <1>1, <1>4, <1>5, <2>3, <2>4, <2>5, <2>6, QuietKeeps
<1>8. CASE Under(buf[e]).type = "data" /\ Opens(rx[e], buf[e])
  <2> DEFINE r == Under(buf[e])
  <2>1. Stream(g)' /\ Told(e)' /\ IsSeq(pending'[e])
    BY <1>0, <1>3, <1>8, StreamTaken
  <2>2. \/ pending' = [pending EXCEPT ![e] = pending[e] \o r.content] /\ UNCHANGED <<closed, ended>>
        \/ pending' = pending /\ UNCHANGED <<closed, ended>>
        \/ pending' = pending /\ closed' = [closed EXCEPT ![e] = TRUE]
           /\ \E how \in {"notify", "update"} : ended' = [ended EXCEPT ![e] = how]
    BY <1>8 DEF TakeRecord, End
  <2>3. /\ DOMAIN pending' = Ends /\ DOMAIN ended' = Ends /\ DOMAIN closed' = Ends
        /\ pending'[g] = pending[g] /\ ended'[g] = ended[g] /\ closed'[g] = closed[g]
        /\ \/ closed'[e] = closed[e] /\ ended'[e] = ended[e]
           \/ closed'[e] /\ pending'[e] = pending[e]
        /\ ended'[e] # "none" => closed'[e]
    BY <1>2, <1>3, <2>2, Domains
  <2>5. Shaped'
    <3>1. SessionShaped'
      BY <1>1, <1>3, <2>1, <2>3, Domains DEF SessionShaped
    <3>2. EndShaped'
      BY <1>1, <1>5, Domains DEF EndShaped
    <3>3. QED
      BY <1>4, <3>1, <3>2 DEF Shaped
  <2>6. Phased'
    BY <1>1, <1>3, <1>5, <1>6 DEF SInv, Phased
  <2>7. ~eof[e]
    BY <1>1, <1>2, Domains DEF Reading
  <2>8. Reading'
    BY <1>1, <1>2, <1>3, <2>3, <2>7, Domains DEF Reading
  <2>9. Stream(e)'
    <3>1. WireShaped /\ Reading /\ Stream(e) /\ Moves(e, R) /\ SenderKeeps(e)
      BY <1>1, <1>4, Domains DEF SInv, Streams, SenderKeeps
    <3>2. ReaderKeeps(g)
      BY <1>1, <1>5, <2>3 DEF ReaderKeeps, All
    <3>3. QED
      BY <1>0, <3>1, <3>2, StreamKept
  <2>10. Told(g)'
    BY <1>1, <1>3, <2>3 DEF SInv, Streams, Told, All
  <2>11. QED
    BY <1>3, <2>1, <2>5, <2>6, <2>8, <2>9, <2>10 DEF SInv, Streams
<1>9. QED
  BY <1>7, <1>8

(* What recv() moves out of pending.                                       *)
LEMMA Moved ==
  ASSUME SInv, NEW e \in Ends, Return(e)
  PROVE  /\ IsSeq(got'[e]) /\ IsSeq(pending'[e]) /\ All(e)' = All(e)
         /\ DOMAIN got' = Ends /\ DOMAIN pending' = Ends
         /\ eof[e] => got'[e] = got[e]
         /\ eof'[e] => pending'[e] = <<>> /\ closed[e]
<1> DEFINE p == pending[e]
           n == IF Len(p) < want[e] THEN Len(p) ELSE want[e]
<1>1. /\ IsSeq(p) /\ IsSeq(got[e]) /\ Len(p) \in Nat /\ want[e] \in Nat \ {0} /\ pc[e] = "open"
      /\ DOMAIN got = Ends /\ DOMAIN pending = Ends /\ DOMAIN eof = Ends
  BY Domains, SeqBasics DEF Return, Reading
<1>2. /\ got' = [got EXCEPT ![e] = got[e] \o SubSeq(p, 1, n)]
      /\ pending' = [pending EXCEPT ![e] = SubSeq(p, n + 1, Len(p))]
      /\ eof' = [eof EXCEPT ![e] = eof[e] \/ n = 0]
      /\ Ready(e)
  BY DEF Return, Remainder
<1>3. n \in 0 .. Len(p) /\ (n = 0 => Len(p) = 0)
  <2> HIDE DEF p
  <2>1. QED
    BY <1>1
<1>4. /\ got'[e] = got[e] \o SubSeq(p, 1, n) /\ pending'[e] = SubSeq(p, n + 1, Len(p))
      /\ DOMAIN got' = Ends /\ DOMAIN pending' = Ends /\ (eof'[e] => eof[e] \/ n = 0)
  BY <1>1, <1>2
<1> HIDE DEF n
<1>5. /\ IsSeq(SubSeq(p, 1, n)) /\ Len(SubSeq(p, 1, n)) = n
      /\ IsSeq(SubSeq(p, n + 1, Len(p))) /\ Len(SubSeq(p, n + 1, Len(p))) = Len(p) - n
  <2> HIDE DEF p
  <2>1. QED
    BY <1>1, <1>3, SeqCut
<1>6. All(e)' = All(e)
  BY <1>1, <1>3, <1>4, MovedAll
<1>7. IsSeq(got'[e]) /\ IsSeq(pending'[e])
  <2> HIDE DEF p
  <2>1. IsSeq(got[e]) /\ IsSeq(SubSeq(p, 1, n))
    BY <1>1, <1>5
  <2>2. IsSeq(got[e] \o SubSeq(p, 1, n))
    BY <2>1, SeqCat
  <2>3. QED
    BY <1>4, <1>5, <2>2
<1>8. ASSUME Len(p) = 0 PROVE n = 0 /\ SubSeq(p, 1, n) = <<>> /\ SubSeq(p, n + 1, Len(p)) = <<>>
  <2> HIDE DEF p
  <2>1. n = 0
    BY <1>3, <1>8
  <2>2. QED
    BY <1>5, <1>8, <2>1, SeqBasics
<1>9. eof[e] => Len(p) = 0 /\ closed[e]
  BY <1>1, Domains, NothingYet DEF Reading
<1>10. eof[e] => got'[e] = got[e]
  <2> SUFFICES ASSUME eof[e] PROVE got'[e] = got[e]
    OBVIOUS
  <2>1. got'[e] = got[e] \o <<>>
    BY <1>4, <1>8, <1>9
  <2>2. got[e] \o <<>> = got[e]
    BY <1>1, ConcatEmptySeq DEF IsSeq
  <2>3. QED
    BY <2>1, <2>2
<1>11. eof'[e] => pending'[e] = <<>> /\ closed[e]
  <2> SUFFICES ASSUME eof'[e] PROVE pending'[e] = <<>> /\ closed[e]
    OBVIOUS
  <2>1. Len(p) = 0
    BY <1>3, <1>4, <1>9
  <2>2. p = <<>>
    BY <1>1, <2>1, SeqBasics
  <2>3. closed[e]
    BY <1>2, <2>2 DEF Ready
  <2>4. QED
    BY <1>4, <1>8, <2>1, <2>3
<1>12. QED
  BY <1>4, <1>6, <1>7, <1>10, <1>11

LEMMA ReturnKeeps ==
  ASSUME SInv, NEW e \in Ends, Return(e)
  PROVE  SInv'
<1> DEFINE R == Plain("ccs", None)
           g == Peer(e)
<1>1. /\ chan' = chan /\ buf' = buf /\ UNCHANGED <<pc, tx, rx, transcript, secret, rest, said, closed, ended>>
      /\ reader' = [reader EXCEPT ![e] = "idle"] /\ want' = [want EXCEPT ![e] = 0]
      /\ reader[e] = "recv"
  BY DEF Return, wires, handshake, keys
<1>2. g \in Ends /\ g # e /\ Peer(g) = e /\ \A d \in Ends : d = e \/ d = g
  BY PeerIs
<1>0. ~OfSession(R)
  BY NotOfSession
<1> HIDE DEF R, g
<1>3. WireShaped' /\ \A d \in Ends : Moves(d, R)
  BY <1>1, Domains DEF WireShaped, Moves, Puts, Pipe
<1>4. /\ IsSeq(got'[e]) /\ IsSeq(pending'[e]) /\ All(e)' = All(e)
      /\ DOMAIN got' = Ends /\ DOMAIN pending' = Ends /\ (eof'[e] => pending'[e] = <<>> /\ closed[e])
  BY Moved
<1>5. got'[g] = got[g] /\ pending'[g] = pending[g] /\ eof'[g] = eof[g] /\ DOMAIN eof' = Ends
      /\ reader'[g] = reader[g] /\ want'[g] = want[g] /\ reader'[e] = "idle"
  BY <1>1, <1>2, Domains DEF Return
<1>6. SessionShaped'
  BY <1>1, <1>2, <1>4, <1>5, Domains DEF SessionShaped
<1>7. Reading'
  <2>1. pc[e] \notin Young
    BY <1>1, Domains DEF Reading, Young, Shaking
  <2>2. QED
    BY <1>1, <1>2, <1>4, <1>5, <2>1, Domains DEF Reading
<1>8. DOMAIN rx' = Ends /\ \A d \in Ends : rx'[d] = rx[d] /\ All(d)' = All(d) /\ ended'[d] = ended[d]
  BY <1>1, <1>2, <1>4, <1>5, Domains DEF All
<1>9. QED
  BY <1>0, <1>1, <1>3, <1>6, <1>7, <1>8, QuietKeeps

(* A socket is shut down, or nothing happens.                              *)
LEMMA DownKeeps ==
  ASSUME SInv, UNCHANGED <<server, chan, faulty, pc, buf, handshake, keys, mutex, session, talk>>
  PROVE  SInv'
<1> DEFINE R == Plain("ccs", None)
<1>1. UNCHANGED <<chan, buf, pc, tx, rx, transcript, secret, rest, said, got, reader, want, pending, closed, ended, eof>>
  BY DEF handshake, keys, session, talk
<1>2. ~OfSession(R)
  BY NotOfSession
<1> HIDE DEF R
<1>3. WireShaped' /\ \A d \in Ends : Moves(d, R)
  BY <1>1, Domains DEF WireShaped, Moves, Puts, Pipe
<1>4. SessionShaped' /\ Reading'
  BY <1>1, Domains DEF SessionShaped, Reading
<1>5. DOMAIN rx' = Ends /\ \A d \in Ends : rx'[d] = rx[d] /\ All(d)' = All(d) /\ ended'[d] = ended[d]
  BY <1>1, Domains DEF All
<1>6. QED
  BY <1>1, <1>2, <1>3, <1>4, <1>5, QuietKeeps

LEMMA CallCloseKeeps ==
  ASSUME SInv, NEW e \in Ends, CallClose(e)
  PROVE  SInv'
<1> DEFINE R == Plain("ccs", None)
<1>1. /\ pc[e] = "open" /\ reader[e] = "idle" /\ rest[e] = <<>> /\ pc' = [pc EXCEPT ![e] = "closing"]
      /\ UNCHANGED <<chan, buf, tx, rx, transcript, secret, rest, said, got, reader, want, pending, closed, ended, eof>>
  BY DEF CallClose, Goto, wires, handshake, keys, session, talk
<1>2. ~OfSession(R)
  BY NotOfSession
<1> HIDE DEF R
<1>3. Shaped' /\ \A d \in Ends : Moves(d, R)
  BY <1>1, Domains DEF Shaped, WireShaped, EndShaped, SessionShaped, Moves, Puts, Pipe
<1>4. pc'[e] = "closing" /\ \A d \in Ends : pc'[d] = pc[d] \/ d = e
  BY <1>1, Domains
<1>5. pc[e] \in Live /\ pc'[e] \in Live /\ pc'[e] \notin Young /\ pc'[e] \notin Shaking
  BY <1>1, <1>4 DEF Live, Young, Shaking
<1>6. Phased'
  BY <1>1, <1>4, <1>5 DEF SInv, Phased
<1>7. Reading'
  BY <1>1, <1>4, <1>5, Domains DEF Reading
<1>8. \A d \in Ends : SenderKeeps(d) /\ ReaderKeeps(d) /\ Moves(d, R) /\ All(d)' = All(d)
  BY <1>1, <1>3, <1>4, <1>5 DEF SenderKeeps, ReaderKeeps, All
<1>9. Streams'
  BY <1>2, <1>8, StreamsKept
<1>10. QED
  BY <1>3, <1>6, <1>7, <1>9 DEF SInv

(* close() drops what its end has read.                                    *)
LEMMA DropsAll ==
  ASSUME WireShaped, NEW e \in Ends, buf'[e] = <<>>, chan'[e] = chan[e]
  PROVE  TakesUpTo(Peer(e), Len(buf[e]))
<1>0. Peer(Peer(e)) = e
  BY PeerIs
<1>1. PICK s, t : s = buf[e] /\ t = chan[e]
  OBVIOUS
<1>2. IsSeq(s) /\ IsSeq(t)
  BY <1>1 DEF WireShaped
<1>3. Len(s) \in Nat /\ Len(s) \in 0 .. Len(s)
  BY <1>2, SeqBasics
<1>4. SubSeq(s, Len(s) + 1, Len(s)) \o t = SubSeq(s \o t, Len(s) + 1, Len(s \o t))
  BY <1>2, <1>3, SeqDrop
<1>5. SubSeq(s, Len(s) + 1, Len(s)) = <<>>
  <2>1. IsSeq(SubSeq(s, Len(s) + 1, Len(s))) /\ Len(SubSeq(s, Len(s) + 1, Len(s))) = Len(s) - Len(s)
    BY <1>2, <1>3, SeqCut
  <2>2. Len(s) - Len(s) = 0
    BY <1>3
  <2>3. QED
    BY <2>1, <2>2, SeqBasics
<1>6. Pipe(Peer(e))' = <<>> \o t /\ Pipe(Peer(e)) = s \o t
  BY <1>0, <1>1 DEF Pipe
<1>7. Len(s \o t) = Len(s) + Len(t) /\ Len(t) \in Nat
  BY <1>2, SeqCat, SeqBasics
<1>8. Len(s) \in 0 .. Len(s \o t)
  BY <1>3, <1>7
<1>9. QED
  BY <1>1, <1>4, <1>5, <1>6, <1>8 DEF TakesUpTo

LEMMA CloseKeeps ==
  ASSUME SInv, NEW e \in Ends, Close(e)
  PROVE  SInv'
<1> DEFINE R == Plain("ccs", None)
           g == Peer(e)
           r == Seal(tx[e], "alert", "close_notify")
<1>1. /\ pc[e] = "closing" /\ pc' = [pc EXCEPT ![e] = "closed"]
      /\ (closed[e] /\ chan' = chan) \/ SendAll(e, r) \/ SendCut(e, r)
      /\ tx' = [tx EXCEPT ![e] = None] /\ rx' = [rx EXCEPT ![e] = None]
      /\ buf' = [buf EXCEPT ![e] = <<>>] /\ pending' = [pending EXCEPT ![e] = <<>>]
      /\ closed' = [closed EXCEPT ![e] = FALSE] /\ ended' = [ended EXCEPT ![e] = "none"]
      /\ UNCHANGED <<transcript, secret, rest, said, got, reader, want, eof>>
  BY DEF Close, Goto, wires, handshake, talk
<1>2. g \in Ends /\ g # e /\ Peer(g) = e /\ \A d \in Ends : d = e \/ d = g
  BY PeerIs
<1>0. ~OfSession(R) /\ g = Peer(e)
  BY NotOfSession
<1>s. r.seq = tx[e].seq /\ r.inner = "alert"
  BY DEF Seal
<1> HIDE DEF R, g, r
<1>3. /\ pc'[e] = "closed" /\ buf'[e] = <<>> /\ pending'[e] = <<>> /\ ~closed'[e] /\ ended'[e] = "none"
      /\ pc'[g] = pc[g] /\ tx'[g] = tx[g] /\ rx'[g] = rx[g] /\ buf'[g] = buf[g] /\ pending'[g] = pending[g]
      /\ closed'[g] = closed[g] /\ ended'[g] = ended[g]
      /\ DOMAIN buf' = Ends /\ DOMAIN pending' = Ends /\ DOMAIN closed' = Ends /\ DOMAIN ended' = Ends
      /\ DOMAIN pc' = Ends /\ DOMAIN tx' = Ends /\ DOMAIN rx' = Ends
  BY <1>1, <1>2, Domains DEF WireShaped
<1>e. IsSeq(<<>>)
  BY SeqOne
<1>4. rest[e] = <<>> /\ pc[e] \in Live
  BY <1>1, Domains DEF Reading, Live
<1>5. WireShaped' /\ chan'[e] = chan[e] /\ (PutsCut(e, r) \/ Puts(e, r))
  <2>1. CASE chan' = chan
    <3>1. Pipe(e)' = Pipe(e)
      BY <1>0, <1>3, <2>1 DEF Pipe
    <3>2. QED
      BY <1>2, <1>3, <1>e, <2>1, <3>1, Domains DEF WireShaped, PutsCut
  <2>2. CASE SendAll(e, r) \/ SendCut(e, r)
    BY <1>0, <1>3, <1>e, <2>2, Domains, SendWires
  <2>3. QED
    BY <1>1, <2>1, <2>2
<1>6. Shaped'
  <2>1. SessionShaped'
    BY <1>1, <1>2, <1>3, <1>e, Domains DEF SessionShaped
  <2>2. EndShaped'
    BY <1>1, <1>3, Domains DEF EndShaped
  <2>3. QED
    BY <1>5, <2>1, <2>2 DEF Shaped
<1>7. pc'[e] \notin Young /\ pc'[e] \notin Shaking /\ pc'[e] \notin Live
  BY <1>3 DEF Young, Shaking, Live
<1>8. Phased'
  BY <1>2, <1>3, <1>7 DEF SInv, Phased
<1>9. Reading'
  <2>1. reader[e] # "recv"
    BY <1>1, Domains DEF Reading
  <2>2. QED
    BY <1>1, <1>2, <1>3, <1>4, <1>7, <2>1, Domains DEF Reading
<1>10. Stream(e)'
  <2>1. PICK P \in [Nat -> Nat], n \in Nat : Sent(e, P, n) /\ Heard(Peer(e), P, n)
    BY DEF SInv, Streams, Stream
  <2>2. n = tx[e].seq /\ P[n] = said[e] /\ P[n] \in Nat
    <3>1. n = tx[e].seq /\ P[n] + Len(rest[e]) = said[e] /\ Len(rest[e]) = 0
      BY <1>4, <2>1, NothingYet DEF Sent
    <3>2. P[n] \in Nat
      BY <2>1
    <3>3. QED
      BY <3>1, <3>2
  <2>3. Rests(Peer(e))
    BY <1>0, <1>1, <1>3 DEF Rests, All
  <2>4. Fills(r, P[n], P[n], said[e], pc'[e] = "closed")
    BY <1>s, <1>3, <2>2 DEF Fills
  <2>5. r.seq = n /\ P[n] <= said[e] /\ said'[e] = said[e] /\ pc'[e] \in Live \cup {"closed"} /\ WireShaped
    BY <1>s, <1>1, <1>3, <2>2, Domains
  <2> DEFINE x == P[n]
  <2>6. x \in Nat /\ x <= said[e] /\ Fills(r, P[n], x, said[e], pc'[e] = "closed")
    BY <2>2, <2>4, <2>5
  <2> HIDE DEF x
  <2>7. QED
    BY <1>4, <1>5, <1>7, <2>1, <2>3, <2>5, <2>6, StreamSealed
<1>11. Stream(g)'
  <2>1. TakesUpTo(g, Len(buf[e]))
    BY <1>0, <1>3, <1>5, Domains, DropsAll
  <2>2. WireShaped /\ Reading /\ Stream(g) /\ Moves(g, R)
    BY <1>2, <2>1, Domains DEF SInv, Streams, Moves
  <2>3. SenderKeeps(g) /\ ReaderKeeps(Peer(g))
    BY <1>1, <1>2, <1>3 DEF SenderKeeps, ReaderKeeps
  <2>4. QED
    BY <1>0, <1>2, <2>2, <2>3, StreamKept
<1>12. Told(e)'
  <2>1. PICK s, t : s = got[e] /\ t = pending[e]
    OBVIOUS
  <2>2. IsSeq(s) /\ IsSeq(t)
    BY <2>1, Domains
  <2>3. /\ Len(s \o t) = Len(s) + Len(t) /\ Len(s) \in Nat /\ Len(t) \in Nat
        /\ \A i \in 1 .. Len(s) : (s \o t)[i] = s[i]
    BY <2>2, SeqCat, SeqBasics
  <2>4. s \o t = [j \in 1 .. Len(s \o t) |-> j] /\ Len(s \o t) <= said[g] /\ said[g] \in Nat
    BY <1>0, <1>2, <2>1, Domains DEF SInv, Streams, Told, All
  <2>5. s = [j \in 1 .. Len(s) |-> j]
    <3>1. DOMAIN s = 1 .. Len(s) /\ s = [j \in DOMAIN s |-> s[j]]
      BY <2>2, SeqBasics DEF IsSeq
    <3>2. ASSUME NEW i \in 1 .. Len(s) PROVE s[i] = i
      <4>1. i \in 1 .. Len(s \o t)
        BY <2>3
      <4>2. QED
        BY <2>3, <2>4, <4>1
    <3>3. QED
      BY <3>1, <3>2
  <2>6. All(e)' = s
    <3>1. All(e)' = s \o <<>>
      BY <1>1, <1>3, <2>1 DEF All
    <3>2. s \o <<>> = s
      BY <2>2, ConcatEmptySeq DEF IsSeq
    <3>3. QED
      BY <3>1, <3>2
  <2>7. Len(s) <= said[g]
    BY <2>3, <2>4
  <2>8. QED
    BY <1>0, <1>1, <1>3, <2>5, <2>6, <2>7 DEF Told
<1>13. Told(g)'
  <2>1. SessionShaped /\ Told(g) /\ All(g)' = All(g) /\ said'[e] = said[e] /\ said[e] \in Nat
    BY <1>1, <1>2, <1>3, Domains DEF SInv, Streams, All
  <2>2. pc[e] # "closed" /\ said'[e] >= said[e]
    BY <1>1, <2>1
  <2>3. QED
    BY <1>2, <1>3, <2>1, <2>2, ToldKept
<1>14. QED
  BY <1>2, <1>6, <1>8, <1>9, <1>10, <1>11, <1>12, <1>13 DEF SInv, Streams

-----------------------------------------------------------------------------
(* Every step, and what follows                                            *)

LEMMA SInvInit ==
  ASSUME Init
  PROVE  SInv
<1>1. /\ chan = [e \in Ends |-> <<>>] /\ buf = [e \in Ends |-> <<>>]
      /\ pc = [e \in Ends |-> IF e = "client" THEN "start" ELSE "hello"]
      /\ DOMAIN tx = Ends /\ DOMAIN rx = Ends /\ DOMAIN transcript = Ends /\ DOMAIN secret = Ends
      /\ reader = [e \in Ends |-> "idle"] /\ want = [e \in Ends |-> 0]
      /\ pending = [e \in Ends |-> <<>>] /\ closed = [e \in Ends |-> FALSE]
      /\ ended = [e \in Ends |-> "none"] /\ eof = [e \in Ends |-> FALSE]
      /\ rest = [e \in Ends |-> <<>>] /\ said = [e \in Ends |-> 0] /\ got = [e \in Ends |-> <<>>]
  BY DEF Init
<1>2. IsSeq(<<>>) /\ 0 \in Nat
  BY SeqOne
<1>3. Shaped
  BY <1>1, <1>2 DEF Shaped, WireShaped, EndShaped, SessionShaped
<1>4. \A e \in Ends : pc[e] \in Young /\ pc[e] \notin Shaking /\ pc[e] \notin Live /\ pc[e] # "closed"
  BY <1>1 DEF Young, Shaking, Live
<1>5. Phased /\ Reading
  BY <1>1, <1>4 DEF Phased, Reading
<1>6. ASSUME NEW e \in Ends PROVE Stream(e) /\ Told(e)
  <2> DEFINE P == [j \in Nat |-> 0]
  <2>1. Peer(e) \in Ends
    BY PeerIs
  <2>2. P \in [Nat -> Nat] /\ P[0] = 0 /\ \A j \in 0 .. 0 : P[j] <= 0
    OBVIOUS
  <2>3. Pipe(e) = <<>> /\ All(e) = <<>> /\ said[e] = 0 /\ said[Peer(e)] = 0 /\ ended[e] = "none"
    BY <1>1, <2>1, NothingYet DEF Pipe, All
  <2>4. Carried(<<>>, P, 0, said[e], pc[e] = "closed")
    BY NothingYet DEF Carried
  <2> HIDE DEF P
  <2>5. Sent(e, P, 0) /\ Heard(Peer(e), P, 0)
    BY <1>4, <2>1, <2>2, <2>3, <2>4 DEF Sent, Heard
  <2>6. Told(e)
    BY <2>3, NothingYet DEF Told
  <2>7. QED
    BY <2>2, <2>5, <2>6 DEF Stream
<1>7. QED
  BY <1>3, <1>5, <1>6 DEF SInv, Streams

LEMMA SInvNext ==
  ASSUME SInv, [Next]_vars
  PROVE  SInv'
<1>1. CASE Handshake
  BY <1>1, HandshakeKeeps
<1>2. CASE AfterHandshake
  BY <1>2, AfterHandshakeKeeps
<1>3. ASSUME NEW e \in Ends, Calls(e) PROVE SInv'
  <2>1. CASE SendPiece(e)
    BY <2>1, SendPieceKeeps
  <2>2. CASE CutOff(e)
    BY <2>2, EmptyReadKeeps DEF CutOff, Ended, wires
  <2>3. CASE TakeRecord(e)
    BY <2>3, TakeRecordKeeps
  <2>4. CASE Return(e)
    BY <2>4, ReturnKeeps
  <2>5. CASE Close(e)
    BY <2>5, CloseKeeps
  <2>6. ASSUME NEW k, ReadMore(e, k) PROVE SInv'
    BY <2>6, ReadMoreKeeps
  <2>7. QED
    BY <1>3, <2>1, <2>2, <2>3, <2>4, <2>5, <2>6 DEF Calls
<1>4. ASSUME NEW e \in Ends, Program(e) PROVE SInv'
  <2>1. ASSUME NEW n \in Payloads, CallSend(e, n) PROVE SInv'
    <3>1. n \in Nat
      BY TlsAssumption DEF TlsAssumption
    <3>2. QED
      BY <2>1, <3>1, CallSendKeeps
  <2>2. ASSUME NEW n \in Bufsizes, CallRecv(e, n) PROVE SInv'
    <3>1. n \in Nat \ {0}
      BY TlsAssumption DEF TlsAssumption
    <3>2. QED
      BY <2>2, <3>1, CallRecvKeeps
  <2>3. CASE ShutDown(e)
    BY <2>3, DownKeeps DEF ShutDown
  <2>4. CASE CallClose(e)
    BY <2>4, CallCloseKeeps
  <2>5. CASE RecvGaveUp(e)
    BY <2>5, EmptyReadKeeps DEF RecvGaveUp, TimedOut
  <2>6. QED
    BY <1>4, <2>1, <2>2, <2>3, <2>4, <2>5 DEF Program
<1>5. ASSUME NEW e \in Ends, CloseSocket(e) PROVE SInv'
  BY <1>5, DownKeeps DEF CloseSocket
<1>6. CASE UNCHANGED vars
  BY <1>6, DownKeeps DEF vars, wires
<1>7. QED
  BY <1>1, <1>2, <1>3, <1>4, <1>5, <1>6 DEF Next

LEMMA SInvariance == Spec => []SInv
<1>1. Init => SInv
  BY SInvInit
<1>2. SInv /\ [Next]_vars => SInv'
  BY SInvNext
<1>3. QED
  BY <1>1, <1>2, PTL DEF Spec

(* What recv() returned, and holds, is what the peer passed to send(), in  *)
(* order and without a gap, for any lengths, any cut of the wire into      *)
(* reads, and after any sends that failed (tls.cpp:1231-1340).             *)
THEOREM DataIsGenuine == Spec => []Genuine
<1>1. SInv => Genuine
  <2> SUFFICES ASSUME SInv, NEW e \in Ends
               PROVE  Len(All(e)) <= said[Peer(e)] /\ \A i \in DOMAIN All(e) : All(e)[i] = i
    BY DEF Genuine, All
  <2>1. All(e) = [j \in 1 .. Len(All(e)) |-> j] /\ Len(All(e)) <= said[Peer(e)]
    BY DEF SInv, Streams, Told
  <2>2. QED
    BY <2>1
<1>2. QED
  BY <1>1, SInvariance, PTL

(* A close_notify is accepted only behind everything the peer passed to    *)
(* send(): the records before it were taken, or it does not authenticate   *)
(* (tls.cpp:244).                                                          *)
THEOREM OrderlyEndsAreComplete == Spec => []OrderlyEndIsComplete
<1>1. SInv => OrderlyEndIsComplete
  BY DEF SInv, Streams, Told, All, OrderlyEndIsComplete
<1>2. QED
  BY <1>1, SInvariance, PTL

(* After "" no call of recv() returns data: nothing was pending when the   *)
(* session was closed, and nothing joins it then (tls.cpp:1294).           *)
THEOREM EofStaysFinal == Spec => EofIsFinal
<1> DEFINE Final == \A e \in Ends : eof[e] => got'[e] = got[e]
<1>1. ASSUME SInv, [Next]_vars PROVE [Final]_vars
  <2> SUFFICES ASSUME NEW e \in Ends, eof[e], Next PROVE got'[e] = got[e]
    BY <1>1
  <2>1. CASE Handshake
    BY <2>1 DEF Handshake, ClientHello, TakeServerHello, TakeFlight, TakeMessage, Reject, Decline, ClientFinish,
                TakeClientHello, ServerHello, SendChange, SendFlight, TakeClientFinished, SkipChange, GiveUp, Fill, talk
  <2>2. CASE AfterHandshake
    BY <2>2 DEF AfterHandshake, talk
  <2>3. ASSUME NEW d \in Ends, Return(d) PROVE got'[e] = got[e]
    <3>1. CASE d = e
      BY <1>1, <2>3, <3>1, Moved
    <3>2. CASE d # e
      BY <1>1, <2>3, <3>2, Domains DEF Return
    <3>3. QED
      BY <3>1, <3>2
  <2>4. ASSUME NEW d \in Ends, Calls(d) \/ Program(d) \/ CloseSocket(d), ~Return(d) PROVE got'[e] = got[e]
    BY <2>4 DEF Calls, Program, SendPiece, CutOff, RecvGaveUp, EmptyRead, TakeRecord, Close, ReadMore,
                CallSend, CallRecv, ShutDown, CallClose, CloseSocket, talk
  <2>5. QED
    BY <2>1, <2>2, <2>3, <2>4 DEF Next
<1>2. QED
  BY <1>1, SInvariance, PTL DEF Spec, EofIsFinal
=============================================================================
