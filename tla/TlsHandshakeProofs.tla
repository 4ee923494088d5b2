-------------------------- MODULE TlsHandshakeProofs --------------------------
(* Theorems about the handshakes of Tls for any servers that go by the     *)
(* protocol: without a fault no handshake fails, both ends use the same    *)
(* keys, and the reader's record number is behind by what is on the way.   *)
(*                                                                         *)
(* The argument: the server alone determines every record of a handshake   *)
(* (Opening).  Faults or not, a record under a handshake key is the one    *)
(* with its number, so what an end has hashed follows from its place       *)
(* (ClientAt, ServerAt).  Without faults the cells on their way are those  *)
(* of the records after the last one taken and up to the last one sent     *)
(* (Lane), so an end that waits finds the record it waits for.             *)
EXTENDS TlsProofs, FiniteSetTheorems

-----------------------------------------------------------------------------
(* The handshake with a server s                                           *)

Hellos      == <<"CH", "SH">>
HsKey(s, e) == HandshakeKey(e, s.suite, Hellos).key

(* The transcript through the k-th message of the flight.                  *)
Tale(s, k) == Hellos \o SubSeq(s.messages, 1, k)
Full(s)    == Tale(s, Len(s.messages))

DataKey(s, e) == AppKey(e, s.suite, Full(s)).key

Named(s, k, name) == \E i \in 1 .. k : s.messages[i] = name
Asking(s)   == Named(s, Len(s.messages), "Req")
Proven(s)   == s.trusted /\ Named(s, Len(s.messages), "CV")
Answered(s) == IF Asking(s) THEN Reply(Full(s)) ELSE Full(s)

(* The i-th message, and the halves of messages from one record boundary   *)
(* to another.                                                             *)
Part(s, n) == IF n = 0 THEN 0 ELSE s.upto[n]

Note(s, i) ==
  CASE s.messages[i] = "CV"  -> Message("CV", Tale(s, i - 1))
    [] s.messages[i] = "Fin" -> FinishedOf("server", s.suite, Hellos, Tale(s, i - 1))
    [] OTHER                 -> Message(s.messages[i], <<>>)

Notes(s, from, to) == [j \in 1 .. to - from |-> Note(s, (from + j + 1) \div 2)]

(* How many records an end sends before its first data, and the i-th.      *)
Openings(s, e) == IF e = "server" THEN Len(s.upto) + 2 ELSE IF Asking(s) THEN 3 ELSE 2

HsRecord(s, e, n, content) == Seal([key |-> HsKey(s, e), seq |-> n], "handshake", content)

ClientOpening(s, i) ==
  IF i = 1 THEN Plain("handshake", Message("CH", Offered))
  ELSE HsRecord(s, "client", i - 2,
         Halves(IF i < Openings(s, "client") THEN Message("Cert", <<>>)
                ELSE FinishedOf("client", s.suite, Hellos, Answered(s))))

ServerOpening(s, i) ==
  IF i = 1 THEN Plain("handshake", Message("SH", s.suite))
  ELSE IF i = 2 THEN Plain("ccs", None)
  ELSE HsRecord(s, "server", i - 3, Notes(s, Part(s, i - 3), Part(s, i - 2)))

Opening(s, e, i) == IF e = "client" THEN ClientOpening(s, i) ELSE ServerOpening(s, i)

-----------------------------------------------------------------------------
(* Where an end is, faults or not                                          *)

ClientPlaces == {"start", "hello", "flight", "declined", "failed", "closed"} \cup Live
ServerPlaces == {"hello", "answer", "change", "send", "finished", "failed", "closed"} \cup Live

(* The client has taken k messages and holds the halves behind them.       *)
Grasped(s, k) ==
  /\ transcript["client"] = Tale(s, k)
  /\ 2 * k <= Part(s, rx["client"].seq)
  /\ pieces = Notes(s, 2 * k, Part(s, rx["client"].seq))
  /\ k > 0 /\ s.messages[k] = "Cert" => seen.cert = Tale(s, k)
  /\ seen.asked <=> Named(s, k, "Req")
  /\ seen.proven <=> Named(s, k, "CV")
  /\ seen.finished <=> k = Len(s.messages)
  /\ k = Len(s.messages) => secret["client"] = Full(s)

InFlightOf(s) ==
  /\ tx["client"] = [key |-> HsKey(s, "client"), seq |-> 0]
  /\ rx["client"].key = HsKey(s, "server") /\ rx["client"].seq \in 0 .. Len(s.upto)
  /\ \E k \in 0 .. Len(s.messages) : Grasped(s, k)

ClientAt(s) ==
  /\ pc["client"] \in ClientPlaces
  /\ pc["client"] = "start" => transcript["client"] = <<>>
  /\ pc["client"] = "hello" => transcript["client"] = <<"CH">>
  /\ pc["client"] \in {"start", "hello"} => pieces = <<>> /\ ~seen.finished /\ ~seen.asked /\ ~seen.proven
  /\ pc["client"] = "flight" => InFlightOf(s)
  /\ pc["client"] = "declined" => /\ Asking(s) /\ tx["client"] = [key |-> HsKey(s, "client"), seq |-> 1]
                                  /\ transcript["client"] = Answered(s)
  /\ pc["client"] \in {"declined"} \cup Live => secret["client"] = Full(s) /\ Proven(s)
  /\ pc["client"] \in Live => tx["client"].key = DataKey(s, "client") /\ rx["client"].key = DataKey(s, "server")

(* The server in its flight, and waiting for what the client answers.      *)
Sending(s) ==
  /\ tx["server"] = [key |-> HsKey(s, "server"), seq |-> next - 1]
  /\ rx["server"] = [key |-> HsKey(s, "client"), seq |-> 0]
  /\ next \in 1 .. Len(s.upto) /\ transcript["server"] = Tale(s, Part(s, next - 1) \div 2)

Waiting(s) ==
  /\ tx["server"].key = HsKey(s, "server") /\ rx["server"].key = HsKey(s, "client")
  /\ \/ rx["server"].seq = 0 /\ transcript["server"] = Full(s)
     \/ Asking(s) /\ rx["server"].seq = 1 /\ transcript["server"] = Answered(s)

ServerAt(s) ==
  /\ pc["server"] \in ServerPlaces
  /\ pc["server"] = "hello" => transcript["server"] = <<>>
  /\ pc["server"] = "answer" => transcript["server"] = <<"CH">>
  /\ pc["server"] \in {"hello", "answer", "change"} => next = 1
  /\ pc["server"] \in {"change", "send"} => Sending(s)
  /\ pc["server"] = "finished" => Waiting(s)
  /\ pc["server"] \in {"finished"} \cup Live => secret["server"] = Full(s)
  /\ pc["server"] \in Live => tx["server"].key = DataKey(s, "server") /\ rx["server"].key = DataKey(s, "client")

(* What is on its way: in the clear the hello, under a handshake key the   *)
(* record with its number.                                                 *)
FirstSealed(e) == IF e = "client" THEN 2 ELSE 3

LoadOk(s, e, r) ==
  /\ r.type = "handshake" => r = Opening(s, e, 1)
  /\ r.type = "data" /\ r.key = HsKey(s, e) =>
       \E i \in FirstSealed(e) .. Openings(s, e) : r = Opening(s, e, i)

LaneOk(s, e, q) == \A i \in 1 .. Len(q) : LoadOk(s, e, q[i].of)

Laden(s) == \A e \in Ends : LaneOk(s, e, Pipe(e))

Local(s) == ClientAt(s) /\ ServerAt(s) /\ Laden(s)

-----------------------------------------------------------------------------
(* Where the records are, without faults                                   *)

IsNth(s, e, r, i) ==
  IF i <= Openings(s, e) THEN r = Opening(s, e, i)
  ELSE r.type = "data" /\ r.key = DataKey(s, e) /\ r.seq = i - Openings(s, e) - 1

Lined(s, e, q, a, b) ==
  /\ a <= b /\ Len(q) = 2 * (b - a)
  /\ \A i \in 1 .. b - a : /\ q[2 * i - 1].part = "head" /\ q[2 * i].part = "body"
                           /\ IsNth(s, e, q[2 * i - 1].of, a + i)

(* The last record that e, at the place p of the code, has sent, and the   *)
(* last one that it has taken; n is next and k its key.                    *)
HasSent(s, e, p, n, k, b) ==
  /\ p \in {"start", "answer"} => b = 0
  /\ p = "hello" => b = IF e = "client" THEN 1 ELSE 0
  /\ p \in {"flight", "change"} => b = 1
  /\ p = "declined" => b = 2
  /\ p = "send" => b = n + 1
  /\ p = "finished" => b = Openings(s, e)
  /\ p \in Live => b = Openings(s, e) + k.seq
  /\ p = "closed" => b >= Openings(s, e)

HasTaken(s, e, p, k, a) ==
  /\ p \in {"start", "hello"} => a = 0
  /\ p = "flight" => a = k.seq + 2 \/ (k.seq = 0 /\ a = 1)
  /\ p = "declined" => a = Openings(s, Peer(e))
  /\ p \in {"answer", "change", "send"} => a = 1
  /\ p = "finished" => a = k.seq + 1
  /\ p \in Live => a = Openings(s, Peer(e)) + k.seq

Lane(s, e) ==
  pc[Peer(e)] # "closed" =>
    \E a, b \in Nat : /\ Lined(s, e, Pipe(e), a, b) /\ HasSent(s, e, pc[e], next, tx[e], b)
                      /\ HasTaken(s, Peer(e), pc[Peer(e)], rx[Peer(e)], a)

(* Nothing has failed, and the server talks to the client it has taken a   *)
(* Finished from.                                                          *)
Settled == Live \cup {"closed"}

Unhurt ==
  /\ pc["server"] \in Settled => pc["client"] \in Settled
  /\ \A e \in Ends : pc[e] # "failed" /\ (down[e] => pc[e] \in Settled) /\ ended[e] # "auth"

Lockstep(s) == Unhurt /\ \A e \in Ends : Lane(s, e)

(* What the kernel and the buffers hold, and who has the mutex.            *)
Roomy == \A e \in Ends : Len(chan[e]) <= Window /\ Len(buf[e]) <= Window + 1
Owned == mutex \in Ends \cup {None} /\ (mutex # None => pc[mutex] = "closing")

Noted == seen = [cert |-> seen.cert, proven |-> seen.proven, asked |-> seen.asked, finished |-> seen.finished]

Holds(s) ==
  /\ server = s /\ DOMAIN down = Ends /\ Roomy /\ Owned /\ Noted /\ Local(s)
  /\ ~faulty /\ Proven(s) => Lockstep(s)

HInv == \E s \in Servers : Holds(s)

-----------------------------------------------------------------------------
(* Flights                                                                 *)

LEMMA FlightIs ==
  ASSUME NEW s \in Servers
  PROVE  /\ s.messages \in Seq(STRING) /\ Len(s.messages) \in Nat \ {0}
         /\ s.upto \in Seq(Nat \ {0}) /\ Len(s.upto) \in Nat \ {0} /\ s.suite \in Offered
         /\ \A i \in 1 .. Len(s.messages) :
              /\ s.messages[i] = "Fin" <=> i = Len(s.messages)
              /\ s.messages[i] = "CV" => i > 1 /\ s.messages[i - 1] = "Cert"
         /\ \A e : Openings(s, e) \in Nat \ {0, 1}
         /\ Openings(s, "client") = (IF Asking(s) THEN 3 ELSE 2) /\ Openings(s, "server") = Len(s.upto) + 2
<1>1. WellFormed(s)
  BY ServersAssumption
<1>2. /\ s.messages \in Seq(STRING) /\ s.messages # <<>> /\ s.upto \in Seq(Nat \ {0}) /\ s.upto # <<>>
      /\ s.suite \in Offered
  BY <1>1 DEF WellFormed
<1>3. Len(s.messages) \in Nat \ {0} /\ DOMAIN s.messages = 1 .. Len(s.messages)
  BY <1>2
<1>4. Len(s.upto) \in Nat \ {0}
  BY <1>2
<1>5. \A i \in 1 .. Len(s.messages) :
        /\ s.messages[i] = "Fin" <=> i = Len(s.messages)
        /\ s.messages[i] = "CV" => i > 1 /\ s.messages[i - 1] = "Cert"
  BY <1>1, <1>3 DEF WellFormed
<1>6. /\ \A e : Openings(s, e) \in Nat \ {0, 1}
      /\ Openings(s, "client") = (IF Asking(s) THEN 3 ELSE 2) /\ Openings(s, "server") = Len(s.upto) + 2
  BY <1>4 DEF Openings
<1>7. QED
  BY <1>2, <1>3, <1>4, <1>5, <1>6

LEMMA PartIs ==
  ASSUME NEW s \in Servers
  PROVE  /\ Part(s, 0) = 0 /\ Part(s, Len(s.upto)) = 2 * Len(s.messages)
         /\ \A n \in 0 .. Len(s.upto) : Part(s, n) \in Nat /\ Part(s, n) <= 2 * Len(s.messages)
         /\ \A n \in 1 .. Len(s.upto) : Part(s, n - 1) < Part(s, n)
<1> DEFINE N == Len(s.upto)
           u == s.upto
           M == 2 * Len(s.messages)
<1>1. WellFormed(s) /\ u \in Seq(Nat \ {0}) /\ N \in Nat \ {0} /\ DOMAIN u = 1 .. N /\ M \in Nat
  BY FlightIs, ServersAssumption
<1>2. u[N] = M /\ \A i, j \in 1 .. N : i < j => u[i] < u[j]
  BY <1>1 DEF WellFormed
<1>3. \A n \in 1 .. N : u[n] \in Nat \ {0} /\ Part(s, n) = u[n]
  BY <1>1 DEF Part
<1>4. Part(s, 0) = 0
  BY DEF Part
<1> HIDE DEF N, u, M
<1>5. ASSUME NEW n \in 1 .. N PROVE u[n] <= M
  <2>1. N \in 1 .. N
    BY <1>1
  <2>2. CASE n = N
    BY <1>1, <1>2, <2>2
  <2>3. CASE n # N
    <3>1. n < N
      BY <1>1, <2>3
    <3>2. u[n] < u[N] /\ u[n] \in Nat
      BY <1>2, <1>3, <2>1, <3>1
    <3>3. QED
      BY <1>1, <1>2, <3>2
  <2>4. QED
    BY <2>2, <2>3
<1>6. ASSUME NEW n \in 1 .. N PROVE Part(s, n - 1) < Part(s, n)
  <2>1. CASE n = 1
    BY <1>3, <1>4, <2>1
  <2>2. CASE n # 1
    <3>1. n - 1 \in 1 .. N /\ n - 1 < n
      BY <1>1, <2>2
    <3>2. u[n - 1] < u[n]
      BY <1>2, <3>1
    <3>3. QED
      BY <1>3, <3>1, <3>2
  <2>3. QED
    BY <2>1, <2>2
<1>7. ASSUME NEW n \in 0 .. N PROVE Part(s, n) \in Nat /\ Part(s, n) <= M
  <2>1. CASE n = 0
    BY <1>1, <1>4, <2>1
  <2>2. CASE n # 0
    <3>1. n \in 1 .. N
      BY <1>1, <2>2
    <3>2. QED
      BY <1>3, <1>5, <3>1
  <2>3. QED
    BY <2>1, <2>2
<1>8. Part(s, N) = M
  BY <1>1, <1>2, <1>3
<1>9. QED
  BY <1>4, <1>6, <1>7, <1>8 DEF N, M

LEMMA TaleIs ==
  ASSUME NEW s \in Servers, NEW k \in 0 .. Len(s.messages)
  PROVE  /\ IsSeq(Tale(s, k)) /\ Len(Tale(s, k)) = k + 2
         /\ SubSeq(Tale(s, k), 1, 2) = Hellos
         /\ k < Len(s.messages) => Append(Tale(s, k), s.messages[k + 1]) = Tale(s, k + 1)
<1> DEFINE m == s.messages
           M == Len(m)
           x == SubSeq(m, 1, k)
<1>1. IsSeq(m) /\ m \in Seq(STRING) /\ M \in Nat
  <2>1. m \in Seq(STRING) /\ M \in Nat
    BY FlightIs
  <2>2. QED
    BY <2>1 DEF IsSeq
<1>2. IsSeq(x) /\ Len(x) = k
  BY <1>1, SeqCut
<1>3. Tale(s, k) = Hellos \o x
  BY DEF Tale
<1>4. IsSeq(Hellos) /\ Len(Hellos) = 2
  <2> DEFINE S == {"CH", "SH"}
  <2>1. Hellos \in Seq(S) /\ Len(Hellos) = 2
    BY DEF Hellos
  <2>2. QED
    BY <2>1 DEF IsSeq
<1>5. IsSeq(Tale(s, k)) /\ Len(Tale(s, k)) = k + 2 /\ \A i \in 1 .. 2 : Tale(s, k)[i] = Hellos[i]
  <2> HIDE DEF x
  <2>1. /\ IsSeq(Hellos \o x) /\ Len(Hellos \o x) = Len(Hellos) + Len(x)
        /\ \A i \in 1 .. Len(Hellos) : (Hellos \o x)[i] = Hellos[i]
    <3>1. IsSeq(Hellos) /\ IsSeq(x)
      BY <1>2, <1>4
    <3>2. QED
      BY <3>1, SeqCat
  <2>2. QED
    BY <1>2, <1>3, <1>4, <2>1
<1>6. SubSeq(Tale(s, k), 1, 2) = Hellos
  <2> DEFINE T == Tale(s, k)
             t == SubSeq(T, 1, 2)
  <2>1. IsSeq(T) /\ 2 \in 0 .. Len(T) /\ \A i \in 1 .. 2 : T[i] = Hellos[i]
    BY <1>5
  <2> HIDE DEF T
  <2>2. IsSeq(t) /\ Len(t) = 2 /\ \A i \in 1 .. 2 : t[i] = T[i]
    BY <2>1, SeqCut
  <2>3. \A i \in 1 .. Len(t) : t[i] = Hellos[i]
    BY <2>1, <2>2
  <2> HIDE DEF t
  <2>4. t = Hellos
    BY <1>4, <2>2, <2>3, SeqSame
  <2>5. QED
    BY <2>4 DEF t, T
<1>7. ASSUME k < M PROVE Append(Tale(s, k), m[k + 1]) = Tale(s, k + 1)
  <2> DEFINE y == SubSeq(m, 1, k + 1)
             z == m[k + 1]
  <2>1. y = Append(x, z)
    BY <1>1, <1>7
  <2>2. Tale(s, k + 1) = Hellos \o y
    BY DEF Tale
  <2> HIDE DEF x, y, z
  <2>3. IsSeq(<<z>>) /\ IsSeq(Hellos \o x)
    <3>1. IsSeq(Hellos) /\ IsSeq(x)
      BY <1>2, <1>4
    <3>2. QED
      BY <3>1, SeqOne, SeqCat
  <2>4. Append(Hellos \o x, z) = (Hellos \o x) \o <<z>> /\ Append(x, z) = x \o <<z>>
    BY <1>2, <2>3, SeqAppend
  <2>5. (Hellos \o x) \o <<z>> = Hellos \o (x \o <<z>>)
    <3>1. IsSeq(Hellos) /\ IsSeq(x) /\ IsSeq(<<z>>)
      BY <1>2, <1>4, <2>3
    <3>2. QED
      BY <3>1, SeqAssoc
  <2>6. QED
    BY <1>3, <2>1, <2>2, <2>4, <2>5 DEF z
<1>8. QED
  BY <1>5, <1>6, <1>7

LEMMA NotesAre ==
  ASSUME NEW s, NEW a \in Nat, NEW b \in Nat, a <= b
  PROVE  /\ IsSeq(Notes(s, a, b)) /\ Len(Notes(s, a, b)) = b - a
         /\ \A j \in 1 .. b - a : Notes(s, a, b)[j] = Note(s, (a + j + 1) \div 2)
<1> DEFINE f(j) == Note(s, (a + j + 1) \div 2)
           n == b - a
           q == [j \in 1 .. n |-> f(j)]
           S == {f(j) : j \in 1 .. n}
<1>1. Notes(s, a, b) = q
  BY DEF Notes
<1>2. n \in Nat
  OBVIOUS
<1> HIDE DEF f, n
<1>3. \A j \in 1 .. n : f(j) \in S
  OBVIOUS
<1>4. q \in [1 .. n -> S]
  BY <1>3
<1> HIDE DEF S
<1>5. q \in Seq(S) /\ Len(q) = n
  BY <1>2, <1>4
<1>6. \A j \in 1 .. n : q[j] = f(j)
  OBVIOUS
<1>7. QED
  BY <1>1, <1>5, <1>6 DEF IsSeq, f, n

LEMMA NotesJoin ==
  ASSUME NEW s, NEW a \in Nat, NEW b \in Nat, NEW c \in Nat, a <= b, b <= c
  PROVE  Notes(s, a, b) \o Notes(s, b, c) = Notes(s, a, c)
<1> DEFINE x == Notes(s, a, b)
           y == Notes(s, b, c)
           z == Notes(s, a, c)
           f(i) == Note(s, (i + 1) \div 2)
<1>1. /\ IsSeq(x) /\ Len(x) = b - a /\ IsSeq(y) /\ Len(y) = c - b /\ IsSeq(z) /\ Len(z) = c - a
      /\ \A j \in 1 .. b - a : x[j] = f(a + j)
      /\ \A j \in 1 .. c - b : y[j] = f(b + j)
      /\ \A j \in 1 .. c - a : z[j] = f(a + j)
  BY NotesAre
<1> HIDE DEF x, y, z, f
<1>2. /\ IsSeq(x \o y) /\ Len(x \o y) = Len(x) + Len(y)
      /\ \A i \in 1 .. Len(x) : (x \o y)[i] = x[i]
      /\ \A i \in 1 .. Len(y) : (x \o y)[Len(x) + i] = y[i]
  <2>1. IsSeq(x) /\ IsSeq(y)
    BY <1>1
  <2>2. QED
    BY <2>1, SeqCat
<1>3. ASSUME NEW i \in 1 .. c - a PROVE (x \o y)[i] = z[i]
  <2>1. CASE i <= b - a
    <3>1. i \in 1 .. b - a
      BY <2>1
    <3>2. QED
      BY <1>1, <1>2, <3>1
  <2>2. CASE ~(i <= b - a)
    <3>1. PICK j \in 1 .. c - b : i = (b - a) + j
      <4>1. i - (b - a) \in 1 .. c - b /\ i = (b - a) + (i - (b - a))
        BY <2>2
      <4>2. QED
        BY <4>1
    <3>2. (x \o y)[i] = y[j]
      BY <1>1, <1>2, <3>1
    <3>3. y[j] = f(b + j) /\ z[i] = f(a + i)
      BY <1>1, <3>1
    <3>4. a + i = b + j
      BY <3>1
    <3>5. QED
      BY <3>2, <3>3, <3>4
  <2>3. QED
    BY <2>1, <2>2
<1>4. Len(x \o y) = Len(z) /\ Len(x \o y) = c - a
  BY <1>1, <1>2
<1>5. x \o y = z
  BY <1>1, <1>2, <1>3, <1>4, SeqSame
<1>6. QED
  BY <1>5 DEF x, y, z

LEMMA NotesTaken ==
  ASSUME NEW s, NEW k \in Nat, NEW b \in Nat, 2 * k + 2 <= b
  PROVE  LET q == Notes(s, 2 * k, b)
         IN  Len(q) >= 2 /\ Head(q) = Note(s, k + 1) /\ SubSeq(q, 3, Len(q)) = Notes(s, 2 * (k + 1), b)
<1> DEFINE a == 2 * k
           d == 2 * (k + 1)
           q == Notes(s, a, b)
           r == Notes(s, d, b)
           t == SubSeq(q, 3, Len(q))
           f(i) == Note(s, (i + 1) \div 2)
<1>1. a \in Nat /\ d \in Nat /\ d = a + 2 /\ d <= b /\ a <= b
  OBVIOUS
<1>2. (a + 1 + 1) \div 2 = k + 1
  OBVIOUS
<1> HIDE DEF a, d
<1>3. /\ IsSeq(q) /\ Len(q) = b - a /\ IsSeq(r) /\ Len(r) = b - d
      /\ \A j \in 1 .. b - a : q[j] = f(a + j)
      /\ \A j \in 1 .. b - d : r[j] = f(d + j)
  BY <1>1, NotesAre
<1>4. q[1] = Note(s, k + 1)
  <2>1. 1 \in 1 .. b - a
    BY <1>1
  <2>2. q[1] = f(a + 1)
    BY <1>3, <2>1
  <2>3. QED
    BY <1>2, <2>2
<1> HIDE DEF q, r, f
<1>5. Len(q) >= 2 /\ 2 \in 0 .. Len(q) /\ Len(q) - 2 = b - d
  BY <1>1, <1>3
<1>6. IsSeq(t) /\ Len(t) = b - d /\ \A i \in 1 .. b - d : t[i] = q[2 + i]
  <2>1. /\ IsSeq(SubSeq(q, 2 + 1, Len(q))) /\ Len(SubSeq(q, 2 + 1, Len(q))) = Len(q) - 2
        /\ \A i \in 1 .. Len(q) - 2 : SubSeq(q, 2 + 1, Len(q))[i] = q[2 + i]
    BY <1>3, <1>5, SeqCut
  <2>2. 2 + 1 = 3
    OBVIOUS
  <2>3. QED
    BY <1>5, <2>1, <2>2
<1> HIDE DEF t
<1>7. ASSUME NEW i \in 1 .. b - d PROVE t[i] = r[i]
  <2>1. 2 + i \in 1 .. b - a /\ a + (2 + i) = d + i
    BY <1>1
  <2>2. QED
    BY <1>3, <1>6, <2>1
<1>8. t = r
  BY <1>3, <1>6, <1>7, SeqSame
<1>9. Head(q) = q[1]
  <2>1. PICK S : q \in Seq(S)
    BY <1>3 DEF IsSeq
  <2>2. QED
    BY <2>1
<1>10. QED
  BY <1>4, <1>5, <1>8, <1>9 DEF q, r, t, a, d

(* The transcripts of a finished handshake.                                *)
LEMMA FullIs ==
  ASSUME NEW s \in Servers
  PROVE  /\ IsSeq(Full(s)) /\ Len(Full(s)) > 2 /\ SubSeq(Full(s), 1, 2) = Hellos
         /\ SubSeq(Answered(s), 1, 2) = Hellos
         /\ Asking(s) => Answered(s) = Append(Full(s), "Cert") /\ Len(Answered(s)) > Len(Full(s))
         /\ ~Asking(s) => Answered(s) = Full(s)
<1> DEFINE F == Full(s)
           A == Append(F, "Cert")
<1>1. Len(s.messages) \in Nat \ {0} /\ Len(s.messages) \in 0 .. Len(s.messages)
  BY FlightIs
<1>2. IsSeq(F) /\ Len(F) = Len(s.messages) + 2 /\ SubSeq(F, 1, 2) = Hellos
  BY <1>1, TaleIs DEF Full
<1> HIDE DEF F
<1>3. IsSeq(<<"Cert">>) /\ Len(<<"Cert">>) = 1
  BY SeqOne
<1>4. A = F \o <<"Cert">>
  BY <1>2, SeqAppend
<1>5. IsSeq(A) /\ Len(A) = Len(F) + 1 /\ \A i \in 1 .. Len(F) : A[i] = F[i]
  <2> DEFINE c == <<"Cert">>
  <2> HIDE DEF c
  <2>1. IsSeq(F \o c) /\ Len(F \o c) = Len(F) + Len(c) /\ \A i \in 1 .. Len(F) : (F \o c)[i] = F[i]
    BY <1>2, <1>3, SeqCat DEF c
  <2>2. QED
    BY <1>3, <1>4, <2>1 DEF c
<1> HIDE DEF A
<1>6. SubSeq(A, 1, 2) = SubSeq(F, 1, 2)
  <2> DEFINE x == SubSeq(A, 1, 2)
             y == SubSeq(F, 1, 2)
  <2>1. 2 \in 0 .. Len(A) /\ 2 \in 0 .. Len(F)
    BY <1>1, <1>2, <1>5
  <2>2. /\ IsSeq(x) /\ Len(x) = 2 /\ \A i \in 1 .. 2 : x[i] = A[i]
        /\ IsSeq(y) /\ Len(y) = 2 /\ \A i \in 1 .. 2 : y[i] = F[i]
    BY <1>2, <1>5, <2>1, SeqCut
  <2> HIDE DEF x, y
  <2>3. \A i \in 1 .. 2 : i \in 1 .. Len(F)
    BY <2>1
  <2>4. \A i \in 1 .. Len(x) : x[i] = y[i]
    BY <1>5, <2>2, <2>3
  <2>5. x = y
    BY <2>2, <2>4, SeqSame
  <2>6. QED
    BY <2>5 DEF x, y
<1>7. Asking(s) => Answered(s) = A
  BY DEF Answered, Reply, A, F
<1>8. ~Asking(s) => Answered(s) = F
  BY DEF Answered, F
<1>9. Len(F) > 2 /\ Len(A) > Len(F)
  BY <1>1, <1>2, <1>5
<1>10. QED
  BY <1>2, <1>6, <1>7, <1>8, <1>9 DEF A, F

-----------------------------------------------------------------------------
(* What a step does to the cells on their way                              *)

LEMMA LaneOkMoves ==
  ASSUME WireShaped, NEW s, NEW e \in Ends, NEW r, Moves(e, r), LoadOk(s, e, r), LaneOk(s, e, Pipe(e))
  PROVE  LaneOk(s, e, Pipe(e)')
<1> DEFINE q == Pipe(e)
<1>1. IsSeq(q) /\ Len(q) \in Nat /\ LaneOk(s, e, q)
  BY PipeIsSeq
<1>2. CASE Pipe(e)' = q
  BY <1>1, <1>2
<1>3. ASSUME NEW t, IsSeq(t), \A i \in 1 .. Len(t) : t[i].of = r, Pipe(e)' = q \o t
      PROVE  LaneOk(s, e, Pipe(e)')
  <2> HIDE DEF q
  <2>1. IsSeq(q) /\ IsSeq(t) /\ Len(t) \in Nat
    BY <1>1, <1>3, SeqBasics
  <2>2. /\ Len(q \o t) = Len(q) + Len(t)
        /\ \A i \in 1 .. Len(q) : (q \o t)[i] = q[i]
        /\ \A i \in 1 .. Len(t) : (q \o t)[Len(q) + i] = t[i]
    BY <2>1, SeqCat
  <2>3. ASSUME NEW i \in 1 .. Len(q \o t) PROVE LoadOk(s, e, (q \o t)[i].of)
    <3>1. CASE i <= Len(q)
      <4>1. i \in 1 .. Len(q)
        BY <1>1, <3>1
      <4>2. QED
        BY <1>1, <2>2, <4>1 DEF LaneOk
    <3>2. CASE ~(i <= Len(q))
      <4>1. PICK j \in 1 .. Len(t) : i = Len(q) + j
        <5>1. i - Len(q) \in 1 .. Len(t) /\ i = Len(q) + (i - Len(q))
          BY <1>1, <2>1, <2>2, <3>2
        <5>2. QED
          BY <5>1
      <4>2. (q \o t)[i].of = r
        BY <1>3, <2>2, <4>1
      <4>3. QED
        BY <4>2
    <3>3. QED
      BY <3>1, <3>2
  <2>4. QED
    BY <1>3, <2>3 DEF LaneOk
<1>4. CASE Pipe(e)' = q \o Cells(r)
  <2> DEFINE t == Cells(r)
  <2>1. IsSeq(t) /\ Len(t) = 2 /\ t[1] = Cell(r, "head") /\ t[2] = Cell(r, "body")
    BY SeqCells
  <2> HIDE DEF t
  <2>2. Cell(r, "head").of = r /\ Cell(r, "body").of = r
    BY DEF Cell
  <2>3. \A i \in 1 .. Len(t) : t[i].of = r
    BY <2>1, <2>2
  <2>4. QED
    BY <1>3, <1>4, <2>1, <2>3 DEF t
<1>5. CASE Pipe(e)' = q \o <<Cell(r, "head")>>
  <2> DEFINE t == <<Cell(r, "head")>>
  <2>1. IsSeq(t) /\ Len(t) = 1 /\ t[1].of = r
    BY SeqOne DEF Cell
  <2> HIDE DEF t
  <2>2. \A i \in 1 .. Len(t) : t[i].of = r
    BY <2>1
  <2>3. QED
    BY <1>3, <1>5, <2>1, <2>2 DEF t
<1>6. ASSUME NEW k, TakesUpTo(e, k) PROVE LaneOk(s, e, Pipe(e)')
  <2> DEFINE t == SubSeq(q, k + 1, Len(q))
  <2>1. k \in 0 .. Len(q) /\ Pipe(e)' = t
    BY <1>6 DEF TakesUpTo
  <2> HIDE DEF q
  <2>2. Len(t) = Len(q) - k /\ \A i \in 1 .. Len(q) - k : t[i] = q[k + i]
    BY <1>1, <2>1, SeqCut
  <2> HIDE DEF t
  <2>3. ASSUME NEW i \in 1 .. Len(t) PROVE LoadOk(s, e, t[i].of)
    <3>1. k + i \in 1 .. Len(q) /\ i \in 1 .. Len(q) - k
      BY <1>1, <2>1, <2>2
    <3>2. QED
      BY <1>1, <2>2, <3>1 DEF LaneOk
  <2>4. QED
    BY <2>1, <2>3 DEF LaneOk
<1>7. QED
  BY <1>2, <1>4, <1>5, <1>6 DEF Moves, Puts

(* Both directions, when e has done something.                             *)
Steady(e) == Pipe(e)' = Pipe(e) /\ Pipe(Peer(e))' = Pipe(Peer(e))
Puts2(e, r) == Pipe(e)' = Pipe(e) \o Cells(r) /\ Pipe(Peer(e))' = Pipe(Peer(e))
Takes2(e)   == Pipe(e)' = Pipe(e) /\ TakesUpTo(Peer(e), 2)

Stands(s) == WireShaped /\ Roomy /\ Laden(s)

LEMMA StillStands ==
  ASSUME NEW s, Stands(s), NEW e \in Ends, chan' = chan, buf' = buf
  PROVE  Roomy' /\ Laden(s)' /\ Steady(e)
<1>1. \A d \in Ends : Pipe(d)' = Pipe(d)
  BY DEF Pipe
<1>2. Peer(e) \in Ends
  BY PeerIs
<1>3. QED
  BY <1>1, <1>2 DEF Stands, Roomy, Laden, Steady

LEMMA ReceiveStands ==
  ASSUME NEW s, Stands(s), NEW e \in Ends, NEW k, Receive(e, k)
  PROVE  Roomy' /\ Laden(s)' /\ Steady(e)
<1> DEFINE b == buf[e]
           c == chan[e]
           x == SubSeq(c, 1, k)
           y == SubSeq(c, k + 1, Len(c))
<1>1. WireShaped
  BY DEF Stands
<1>2. \A d \in Ends : Pipe(d)' = Pipe(d)
  BY <1>1, ReceiveWires
<1>3. Peer(e) \in Ends
  BY PeerIs
<1>4. Laden(s)' /\ Steady(e)
  BY <1>2, <1>3 DEF Stands, Laden, Steady
<1>5. IsSeq(b) /\ IsSeq(c) /\ Len(b) \in Nat /\ Len(c) \in Nat /\ Len(c) <= Window /\ Window \in Nat
  BY <1>1, SeqBasics, TlsAssumption DEF WireShaped, Stands, Roomy, TlsAssumption
<1>6. Len(b) < 2 /\ k \in 1 .. Len(c) /\ k \in 0 .. Len(c)
  BY <1>5 DEF Receive, HasRecord
<1>7. /\ \A d \in Ends : d # e => buf'[d] = buf[d] /\ chan'[d] = chan[d]
      /\ buf'[e] = b \o x /\ chan'[e] = y
  BY <1>1 DEF Receive, WireShaped
<1> HIDE DEF b, c
<1>8. IsSeq(x) /\ Len(x) = k /\ Len(y) = Len(c) - k
  BY <1>5, <1>6, SeqCut
<1> HIDE DEF x, y
<1>9. Len(b \o x) = Len(b) + k
  <2>1. IsSeq(b) /\ IsSeq(x)
    BY <1>5, <1>8
  <2>2. Len(b \o x) = Len(b) + Len(x)
    BY <2>1, SeqCat
  <2>3. QED
    BY <1>8, <2>2
<1>10. Len(b) + k <= Window + 1 /\ Len(c) - k <= Window
  BY <1>5, <1>6
<1>11. Roomy'
  <2> SUFFICES ASSUME NEW d \in Ends PROVE Len(chan'[d]) <= Window /\ Len(buf'[d]) <= Window + 1
    BY DEF Roomy
  <2>1. CASE d = e
    BY <1>7, <1>8, <1>9, <1>10, <2>1
  <2>2. CASE d # e
    BY <1>7, <2>2 DEF Stands, Roomy
  <2>3. QED
    BY <2>1, <2>2
<1>12. QED
  BY <1>4, <1>11

LEMMA DropStands ==
  ASSUME NEW s, Stands(s), NEW e \in Ends, HasRecord(buf[e]), DropRecord(e), chan' = chan
  PROVE  /\ Roomy' /\ Laden(s)' /\ Takes2(e) /\ LoadOk(s, Peer(e), Under(buf[e]))
         /\ Pipe(Peer(e))[1] = buf[e][1] /\ Pipe(Peer(e))[2] = buf[e][2]
<1> DEFINE f == Peer(e)
           b == buf[e]
<1>1. f \in Ends /\ f # e /\ Peer(f) = e /\ \A d \in Ends : d = e \/ d = f
  BY PeerIs
<1>2. WireShaped /\ LaneOk(s, e, Pipe(e)) /\ LaneOk(s, f, Pipe(f))
  BY <1>1 DEF Stands, Laden
<1>3. /\ Pipe(e)' = Pipe(e) /\ TakesUpTo(f, 2)
      /\ Len(Pipe(f)) >= 2 /\ Pipe(f)[1] = b[1] /\ Pipe(f)[2] = b[2]
  BY <1>2, DropWires
<1>0. f = Peer(e)
  OBVIOUS
<1>4. IsSeq(b) /\ Len(b) \in Nat /\ Len(b) >= 2 /\ Len(b) <= Window + 1 /\ Window \in Nat
  BY <1>2, SeqBasics, TlsAssumption DEF WireShaped, Stands, Roomy, TlsAssumption, HasRecord
<1>5. buf'[e] = SubSeq(b, 3, Len(b)) /\ \A d \in Ends : d # e => buf'[d] = buf[d]
  BY <1>2 DEF DropRecord, WireShaped
<1> HIDE DEF f, b
<1>6. Len(SubSeq(b, 3, Len(b))) = Len(b) - 2
  <2>1. 2 \in 0 .. Len(b)
    BY <1>4
  <2>2. Len(SubSeq(b, 2 + 1, Len(b))) = Len(b) - 2
    BY <1>4, <2>1, SeqCut
  <2>3. 2 + 1 = 3
    OBVIOUS
  <2>4. QED
    BY <2>2, <2>3
<1>7. Len(b) - 2 <= Window + 1
  BY <1>4
<1>8. Roomy'
  <2> SUFFICES ASSUME NEW d \in Ends PROVE Len(chan'[d]) <= Window /\ Len(buf'[d]) <= Window + 1
    BY DEF Roomy
  <2>1. CASE d = e
    BY <1>5, <1>6, <1>7, <2>1 DEF Stands, Roomy
  <2>2. CASE d # e
    BY <1>5, <2>2 DEF Stands, Roomy
  <2>3. QED
    BY <2>1, <2>2
<1>9. LoadOk(s, f, b[1].of)
  <2>1. 1 \in 1 .. Len(Pipe(f))
    <3>1. Len(Pipe(f)) \in Nat
      BY <1>1, <1>2, PipeIsSeq
    <3>2. QED
      BY <1>3, <3>1
  <2>2. QED
    BY <1>2, <1>3, <2>1 DEF LaneOk
<1>10. LaneOk(s, f, Pipe(f)')
  <2>1. Moves(f, b[1].of)
    BY <1>3 DEF Moves
  <2>2. QED
    BY <1>1, <1>2, <1>9, <2>1, LaneOkMoves
<1>11. Laden(s)'
  <2> SUFFICES ASSUME NEW d \in Ends PROVE LaneOk(s, d, Pipe(d)')
    BY DEF Laden
  <2>1. QED
    BY <1>1, <1>2, <1>3, <1>10
<1>12. QED
  BY <1>0, <1>3, <1>8, <1>9, <1>11 DEF Takes2, Under, b

(* A send; the sender may drop its own buffer.                             *)
LEMMA SendPuts ==
  ASSUME NEW s, Stands(s), NEW e \in Ends, NEW r, LoadOk(s, e, r), SendAll(e, r) \/ SendCut(e, r),
         DOMAIN buf' = Ends, IsSeq(buf'[e]), Len(buf'[e]) <= Window + 1, buf'[Peer(e)] = buf[Peer(e)]
  PROVE  /\ Roomy' /\ LaneOk(s, e, Pipe(e)') /\ chan'[e] = chan[e] /\ down' = down /\ (faulty => faulty')
         /\ ~faulty' => Pipe(e)' = Pipe(e) \o Cells(r) /\ SendAll(e, r)
<1> DEFINE f == Peer(e)
           c == chan[f]
           h == <<Cell(r, "head")>>
<1>1. f \in Ends /\ f # e /\ Peer(f) = e /\ \A d \in Ends : d = e \/ d = f
  BY PeerIs
<1>2. WireShaped /\ LaneOk(s, e, Pipe(e)) /\ LaneOk(s, f, Pipe(f))
  BY <1>1 DEF Stands, Laden
<1>3. DOMAIN buf' = Ends /\ IsSeq(buf'[e]) /\ buf'[f] = buf[f] /\ Len(buf'[e]) <= Window + 1
  OBVIOUS
<1>4. WireShaped' /\ Puts(e, r) /\ chan'[e] = chan[e]
  BY <1>2, <1>3, SendWires
<1>6. LaneOk(s, e, Pipe(e)')
  BY <1>2, <1>4, LaneOkMoves DEF Moves
<1>8. IsSeq(c) /\ Len(c) \in Nat /\ Len(c) <= Window /\ Window \in Nat /\ DOMAIN chan = Ends
  BY <1>1, <1>2, SeqBasics, TlsAssumption DEF WireShaped, Stands, Roomy, TlsAssumption
<1>9. \/ chan' = chan
      \/ Len(c) + 2 <= Window /\ chan' = [chan EXCEPT ![f] = c \o Cells(r)]
      \/ Len(c) < Window /\ chan' = [chan EXCEPT ![f] = Append(c, Cell(r, "head"))]
  BY DEF SendAll, SendCut
<1>0. f = Peer(e) /\ c = chan[f]
  OBVIOUS
<1>a. down' = down /\ (faulty => faulty') /\ (~faulty' => SendAll(e, r))
  BY DEF SendAll, SendCut
<1>b. SendAll(e, r) => chan' = [chan EXCEPT ![f] = c \o Cells(r)]
  BY DEF SendAll
<1> HIDE DEF f, c
<1>10. Len(c \o Cells(r)) = Len(c) + 2 /\ Append(c, Cell(r, "head")) = c \o h
  <2>1. IsSeq(c) /\ IsSeq(Cells(r)) /\ Len(Cells(r)) = 2
    BY <1>8, SeqCells
  <2>2. Len(c \o Cells(r)) = Len(c) + Len(Cells(r))
    BY <2>1, SeqCat
  <2>3. QED
    BY <2>1, <2>2, SeqAppend
<1>11. Len(c \o h) = Len(c) + 1
  <2>1. IsSeq(c) /\ IsSeq(h) /\ Len(h) = 1
    BY <1>8, SeqOne
  <2> HIDE DEF h
  <2>2. Len(c \o h) = Len(c) + Len(h)
    BY <2>1, SeqCat
  <2>3. QED
    BY <2>1, <2>2
<1> HIDE DEF h
<1>12. Len(chan'[f]) <= Window /\ chan'[e] = chan[e]
  <2>1. CASE chan' = chan
    BY <1>0, <1>8, <2>1
  <2>2. CASE Len(c) + 2 <= Window /\ chan' = [chan EXCEPT ![f] = c \o Cells(r)]
    BY <1>1, <1>8, <1>10, <2>2
  <2>3. CASE Len(c) < Window /\ chan' = [chan EXCEPT ![f] = Append(c, Cell(r, "head"))]
    BY <1>1, <1>8, <1>10, <1>11, <2>3
  <2>4. QED
    BY <1>9, <2>1, <2>2, <2>3
<1>13. Roomy'
  <2> SUFFICES ASSUME NEW d \in Ends PROVE Len(chan'[d]) <= Window /\ Len(buf'[d]) <= Window + 1
    BY DEF Roomy
  <2>1. QED
    BY <1>1, <1>3, <1>12 DEF Stands, Roomy
<1>14. SendAll(e, r) => Pipe(e)' = Pipe(e) \o Cells(r)
  <2> SUFFICES ASSUME SendAll(e, r) PROVE Pipe(e)' = Pipe(e) \o Cells(r)
    OBVIOUS
  <2>1. chan'[f] = c \o Cells(r)
    BY <1>1, <1>8, <1>b
  <2>2. Pipe(e)' = buf[f] \o (c \o Cells(r)) /\ Pipe(e) = buf[f] \o c
    BY <1>0, <1>3, <2>1 DEF Pipe
  <2>3. IsSeq(buf[f]) /\ IsSeq(c) /\ IsSeq(Cells(r))
    BY <1>1, <1>2, <1>8, SeqCells DEF WireShaped
  <2> DEFINE x == buf[f]
             z == Cells(r)
  <2>4. (x \o c) \o z = x \o (c \o z)
    <3>1. IsSeq(x) /\ IsSeq(c) /\ IsSeq(z)
      BY <2>3
    <3> HIDE DEF x, z
    <3>2. QED
      BY <3>1, SeqAssoc
  <2>5. QED
    BY <2>2, <2>4
<1>15. QED
  BY <1>0, <1>4, <1>6, <1>13, <1>14, <1>a

LEMMA SendStands ==
  ASSUME NEW s, Stands(s), NEW e \in Ends, NEW r, LoadOk(s, e, r), SendAll(e, r) \/ SendCut(e, r), buf' = buf
  PROVE  /\ Roomy' /\ Laden(s)' /\ down' = down /\ (faulty => faulty')
         /\ ~faulty' => Puts2(e, r) /\ SendAll(e, r)
<1>1. Peer(e) \in Ends /\ Peer(Peer(e)) = e /\ \A d \in Ends : d = e \/ d = Peer(e)
  BY PeerIs
<1>2. DOMAIN buf' = Ends /\ IsSeq(buf'[e]) /\ Len(buf'[e]) <= Window + 1 /\ buf'[Peer(e)] = buf[Peer(e)]
  BY DEF Stands, WireShaped, Roomy
<1>3. /\ Roomy' /\ LaneOk(s, e, Pipe(e)') /\ chan'[e] = chan[e] /\ down' = down /\ (faulty => faulty')
      /\ ~faulty' => Pipe(e)' = Pipe(e) \o Cells(r) /\ SendAll(e, r)
  BY <1>2, SendPuts
<1>4. Pipe(Peer(e))' = Pipe(Peer(e))
  BY <1>1, <1>3 DEF Pipe
<1>5. Laden(s)'
  <2>1. LaneOk(s, Peer(e), Pipe(Peer(e))')
    BY <1>1, <1>4 DEF Stands, Laden
  <2>2. QED
    BY <1>1, <1>3, <2>1 DEF Laden
<1>6. QED
  BY <1>3, <1>4, <1>5 DEF Puts2

-----------------------------------------------------------------------------
(* Keys, and records that are sealed with them                             *)

LEMMA KeysAre ==
  ASSUME NEW s, NEW e \in Ends
  PROVE  /\ HandshakeKey(e, s.suite, Hellos) = [key |-> HsKey(s, e), seq |-> 0]
         /\ AppKey(e, s.suite, Full(s)) = [key |-> DataKey(s, e), seq |-> 0]
         /\ HsKey(s, e)[1] \in HsLabels /\ DataKey(s, e)[1] \in AppLabels
         /\ HsKey(s, e)[2] = s.suite /\ DataKey(s, e)[2] = s.suite /\ DataKey(s, e)[3] = Full(s)
         /\ \A d \in Ends : HsKey(s, e) # DataKey(s, d)
<1>1. \A l, u, o : Key(l, u, o) = [key |-> <<l, u, o>>, seq |-> 0] /\ Key(l, u, o).key = <<l, u, o>>
  BY DEF Key
<1>2. PICK l \in HsLabels : \A u, o : HandshakeKey(e, u, o) = Key(l, u, o)
  BY DEF HandshakeKey, HsLabels
<1>3. PICK a \in AppLabels : \A u, o : AppKey(e, u, o) = Key(a, u, o)
  BY DEF AppKey, AppLabels
<1>4. HsKey(s, e) = <<l, s.suite, Hellos>> /\ DataKey(s, e) = <<a, s.suite, Full(s)>>
  BY <1>1, <1>2, <1>3 DEF HsKey, DataKey
<1>5. \A d \in Ends : DataKey(s, d)[1] \in AppLabels
  BY <1>1 DEF DataKey, AppKey, AppLabels
<1>6. HsKey(s, e)[1] \in HsLabels
  BY <1>4
<1>7. \A d \in Ends : HsKey(s, e) # DataKey(s, d)
  BY <1>5, <1>6 DEF AppLabels, HsLabels
<1>8. QED
  BY <1>1, <1>2, <1>3, <1>4, <1>6, <1>7

LEMMA SealIs ==
  ASSUME NEW k, NEW inner, NEW c
  PROVE  /\ Seal(k, inner, c).type = "data" /\ Seal(k, inner, c).key = k.key /\ Seal(k, inner, c).seq = k.seq
         /\ Seal(k, inner, c).content = c /\ Seal(k, inner, c).inner = inner
  BY DEF Seal

LEMMA PlainIs ==
  ASSUME NEW type, NEW c
  PROVE  Plain(type, c).type = type /\ Plain(type, c).content = c
  BY DEF Plain

LEMMA MessageIs ==
  ASSUME NEW name, NEW over
  PROVE  Message(name, over).name = name /\ Message(name, over).over = over
  BY DEF Message

(* What may be on its way: the records of the handshake, a ChangeCipher-   *)
(* Spec, and what is sealed with a session's key.                          *)
LEMMA LoadsAre ==
  ASSUME NEW s, NEW e \in Ends
  PROVE  /\ LoadOk(s, e, Plain("ccs", None))
         /\ \A r : r.type = "data" /\ r.key = DataKey(s, e) => LoadOk(s, e, r)
<1>1. Plain("ccs", None).type = "ccs"
  BY PlainIs
<1>2. HsKey(s, e) # DataKey(s, e)
  BY KeysAre
<1>3. QED
  BY <1>1, <1>2 DEF LoadOk

LEMMA OpeningsLoad ==
  ASSUME NEW s \in Servers, NEW e \in Ends, NEW i \in 1 .. Openings(s, e)
  PROVE  LoadOk(s, e, Opening(s, e, i))
<1>1. Openings(s, e) \in Nat \ {0, 1}
  BY FlightIs
<1>2. CASE i = 1
  <2>1. Opening(s, e, i) = Opening(s, e, 1) /\ Opening(s, e, 1).type = "handshake"
    BY <1>2, PlainIs DEF Opening, ClientOpening, ServerOpening
  <2>2. QED
    BY <2>1 DEF LoadOk
<1>3. CASE e = "server" /\ i = 2
  <2>1. Opening(s, e, i).type = "ccs"
    BY <1>3, PlainIs DEF Opening, ServerOpening
  <2>2. QED
    BY <2>1 DEF LoadOk
<1>4. CASE i # 1 /\ ~(e = "server" /\ i = 2)
  <2>1. i \in FirstSealed(e) .. Openings(s, e)
    BY <1>1, <1>4 DEF FirstSealed, Ends
  <2>2. \E n, c : Opening(s, e, i) = HsRecord(s, e, n, c)
    BY <1>4 DEF Opening, ClientOpening, ServerOpening, Ends
  <2>3. Opening(s, e, i).type = "data"
    BY <2>2, SealIs DEF HsRecord
  <2>4. QED
    BY <2>1, <2>3 DEF LoadOk
<1>5. QED
  BY <1>2, <1>3, <1>4

(* The records of a handshake one by one.                                  *)
LEMMA OpeningsAre ==
  ASSUME NEW s \in Servers
  PROVE  /\ Opening(s, "client", 1) = Plain("handshake", Message("CH", Offered))
         /\ Opening(s, "server", 1) = Plain("handshake", Message("SH", s.suite))
         /\ Opening(s, "server", 2) = Plain("ccs", None)
         /\ \A n \in Nat : Opening(s, "server", n + 3) = HsRecord(s, "server", n, Notes(s, Part(s, n), Part(s, n + 1)))
         /\ Asking(s) => Opening(s, "client", 2) = HsRecord(s, "client", 0, Halves(Message("Cert", <<>>)))
         /\ \A n \in Nat : n + 2 = Openings(s, "client") =>
              Opening(s, "client", n + 2)
                = HsRecord(s, "client", n, Halves(FinishedOf("client", s.suite, Hellos, Answered(s))))
<1>1. /\ Opening(s, "client", 1) = Plain("handshake", Message("CH", Offered))
      /\ Opening(s, "server", 1) = Plain("handshake", Message("SH", s.suite))
      /\ Opening(s, "server", 2) = Plain("ccs", None)
  BY DEF Opening, ClientOpening, ServerOpening
<1>2. ASSUME NEW n \in Nat
      PROVE  Opening(s, "server", n + 3) = HsRecord(s, "server", n, Notes(s, Part(s, n), Part(s, n + 1)))
  <2>1. n + 3 # 1 /\ n + 3 # 2 /\ n + 3 - 3 = n /\ n + 3 - 2 = n + 1
    OBVIOUS
  <2>2. QED
    BY <2>1 DEF Opening, ServerOpening
<1>3. ASSUME Asking(s) PROVE Opening(s, "client", 2) = HsRecord(s, "client", 0, Halves(Message("Cert", <<>>)))
  <2>1. Openings(s, "client") = 3
    BY <1>3, FlightIs
  <2>2. QED
    BY <2>1 DEF Opening, ClientOpening
<1>4. ASSUME NEW n \in Nat, n + 2 = Openings(s, "client")
      PROVE  Opening(s, "client", n + 2)
                = HsRecord(s, "client", n, Halves(FinishedOf("client", s.suite, Hellos, Answered(s))))
  <2>1. n + 2 # 1 /\ n + 2 - 2 = n /\ ~(n + 2 < Openings(s, "client"))
    BY <1>4
  <2>2. QED
    BY <2>1 DEF Opening, ClientOpening
<1>5. QED
  BY <1>1, <1>2, <1>3, <1>4

-----------------------------------------------------------------------------
(* What a step does to where an end is                                     *)

At(s, e) == IF e = "client" THEN ClientAt(s) ELSE ServerAt(s)

Same(e) ==
  /\ pc'[e] = pc[e] /\ tx'[e] = tx[e] /\ rx'[e] = rx[e]
  /\ transcript'[e] = transcript[e] /\ secret'[e] = secret[e]
  /\ e = "client" => pieces' = pieces /\ seen' = seen
  /\ e = "server" => next' = next

LEMMA AtSame ==
  ASSUME NEW s, NEW e \in Ends, At(s, e), Same(e)
  PROVE  At(s, e)'
<1>1. CASE e = "client"
  <2>1. /\ pc'["client"] = pc["client"] /\ tx'["client"] = tx["client"] /\ rx'["client"] = rx["client"]
        /\ transcript'["client"] = transcript["client"] /\ secret'["client"] = secret["client"]
        /\ pieces' = pieces /\ seen' = seen /\ ClientAt(s)
    BY <1>1 DEF Same, At
  <2>2. \A k : Grasped(s, k) => Grasped(s, k)'
    BY <2>1 DEF Grasped
  <2>3. InFlightOf(s) => InFlightOf(s)'
    BY <2>1, <2>2 DEF InFlightOf
  <2>4. ClientAt(s)'
    BY <2>1, <2>3 DEF ClientAt
  <2>5. QED
    BY <1>1, <2>4 DEF At
<1>2. CASE e = "server"
  <2>1. /\ pc'["server"] = pc["server"] /\ tx'["server"] = tx["server"] /\ rx'["server"] = rx["server"]
        /\ transcript'["server"] = transcript["server"] /\ secret'["server"] = secret["server"]
        /\ next' = next /\ ServerAt(s)
    BY <1>2 DEF Same, At
  <2>2. (Sending(s) => Sending(s)') /\ (Waiting(s) => Waiting(s)')
    BY <2>1 DEF Sending, Waiting
  <2>3. ServerAt(s)'
    BY <2>1, <2>2 DEF ServerAt
  <2>4. QED
    BY <1>2, <2>3 DEF At
<1>3. QED
  BY <1>1, <1>2 DEF Ends

LEMMA AtGone ==
  ASSUME NEW s, NEW e \in Ends, pc'[e] \in {"failed", "closed"}
  PROVE  At(s, e)'
<1>1. CASE e = "client"
  BY <1>1 DEF At, ClientAt, ClientPlaces, Live
<1>2. CASE e = "server"
  BY <1>2 DEF At, ServerAt, ServerPlaces, Live
<1>3. QED
  BY <1>1, <1>2 DEF Ends

(* In a session an end has the data's keys, and what they follow from.     *)
InSession(s, e) ==
  /\ pc[e] \in Live /\ tx[e].key = DataKey(s, e) /\ rx[e].key = DataKey(s, Peer(e))
  /\ secret[e] = Full(s) /\ (e = "client" => Proven(s))

LEMMA AtSession ==
  ASSUME NEW s, NEW e \in Ends, pc[e] \in Live
  PROVE  At(s, e) <=> InSession(s, e)
<1>1. CASE e = "client"
  BY <1>1, PeerIs DEF At, ClientAt, ClientPlaces, Live, InSession
<1>2. CASE e = "server"
  BY <1>2, PeerIs DEF At, ServerAt, ServerPlaces, Live, InSession
<1>3. QED
  BY <1>1, <1>2 DEF Ends

LEMMA AtEnters ==
  ASSUME NEW s, NEW e \in Ends, InSession(s, e)'
  PROVE  At(s, e)'
<1>1. CASE e = "client"
  BY <1>1, PeerIs DEF At, ClientAt, ClientPlaces, Live, InSession
<1>2. CASE e = "server"
  BY <1>2, PeerIs DEF At, ServerAt, ServerPlaces, Live, InSession
<1>3. QED
  BY <1>1, <1>2 DEF Ends

LEMMA AtLive ==
  ASSUME NEW s, NEW e \in Ends, At(s, e), pc[e] \in Live, pc'[e] \in Live,
         tx'[e].key = tx[e].key, rx'[e].key = rx[e].key, secret'[e] = secret[e]
  PROVE  At(s, e)'
<1>1. InSession(s, e)
  BY AtSession
<1>2. InSession(s, e)'
  BY <1>1 DEF InSession
<1>3. QED
  BY <1>2, AtEnters

-----------------------------------------------------------------------------
(* The client, step by step                                                *)

LEMMA AppendTwo ==
  ASSUME NEW x, NEW y
  PROVE  Append(<<>>, x) = <<x>> /\ Append(<<x>>, y) = <<x, y>>
<1> DEFINE a == <<x>>
           b == <<y>>
           t == <<x, y>>
<1>1. Append(<<>>, x) = <<x>>
  OBVIOUS
<1>2. IsSeq(a) /\ Len(a) = 1 /\ a[1] = x /\ IsSeq(b) /\ Len(b) = 1 /\ b[1] = y
  BY SeqOne
<1>3. t \in Seq({x, y}) /\ Len(t) = 2 /\ t[1] = x /\ t[2] = y
  OBVIOUS
<1>4. IsSeq(t)
  BY <1>3 DEF IsSeq
<1>5. Append(a, y) = a \o b
  BY <1>2, SeqAppend
<1> HIDE DEF a, b, t
<1>6. /\ IsSeq(a \o b) /\ Len(a \o b) = Len(a) + Len(b)
      /\ \A i \in 1 .. Len(a) : (a \o b)[i] = a[i]
      /\ \A i \in 1 .. Len(b) : (a \o b)[Len(a) + i] = b[i]
  <2>1. IsSeq(a) /\ IsSeq(b)
    BY <1>2
  <2>2. QED
    BY <2>1, SeqCat
<1>7. (a \o b)[1] = x /\ (a \o b)[2] = y /\ Len(a \o b) = 2
  <2>1. 1 \in 1 .. Len(a) /\ 1 \in 1 .. Len(b) /\ Len(a) + 1 = 2 /\ Len(a) + Len(b) = 2
    BY <1>2
  <2>2. (a \o b)[1] = a[1] /\ (a \o b)[Len(a) + 1] = b[1]
    BY <1>6, <2>1
  <2>3. QED
    BY <1>2, <1>6, <2>1, <2>2
<1>8. \A i \in 1 .. Len(a \o b) : (a \o b)[i] = t[i]
  BY <1>3, <1>7
<1>9. a \o b = t
  BY <1>3, <1>4, <1>6, <1>7, <1>8, SeqSame
<1>10. QED
  BY <1>1, <1>5, <1>9 DEF a, t

LEMMA TaleZero ==
  ASSUME NEW s \in Servers
  PROVE  Tale(s, 0) = Hellos /\ Append(Append(<<>>, "CH"), "SH") = Hellos /\ Append(<<>>, "CH") = <<"CH">>
         /\ Notes(s, 0, 0) = <<>> /\ SubSeq(Hellos, 1, 2) = Hellos
<1>1. Append(Append(<<>>, "CH"), "SH") = Hellos /\ Append(<<>>, "CH") = <<"CH">>
  BY AppendTwo DEF Hellos
<1>2. PICK z : z = 0 /\ z \in 0 .. Len(s.messages)
  BY FlightIs
<1>3. IsSeq(Tale(s, 0)) /\ Len(Tale(s, 0)) = 2 /\ SubSeq(Tale(s, 0), 1, 2) = Hellos
  <2>1. z \in 0 .. Len(s.messages)
    BY <1>2
  <2>2. IsSeq(Tale(s, z)) /\ Len(Tale(s, z)) = z + 2 /\ SubSeq(Tale(s, z), 1, 2) = Hellos
    BY <2>1, TaleIs
  <2>3. QED
    BY <1>2, <2>2
<1>4. Tale(s, 0) = Hellos
  <2> DEFINE x == Tale(s, 0)
  <2>1. IsSeq(x) /\ Len(x) = 2 /\ SubSeq(x, 1, 2) = Hellos
    BY <1>3
  <2> HIDE DEF x
  <2>2. PICK S : x \in Seq(S)
    BY <2>1 DEF IsSeq
  <2>3. SubSeq(x, 1, Len(x)) = x
    BY <2>2, SubSeqFull
  <2>4. QED
    BY <2>1, <2>3 DEF x
<1>5. Notes(s, 0, 0) = <<>>
  <2>1. IsSeq(Notes(s, 0, 0)) /\ Len(Notes(s, 0, 0)) = 0 - 0
    BY NotesAre
  <2>2. QED
    BY <2>1, SeqBasics
<1>6. QED
  BY <1>1, <1>3, <1>4, <1>5

LEMMA ClientHelloAt ==
  ASSUME SInv, NEW s, At(s, "client"), ClientHello
  PROVE  At(s, "client")'
<1>1. /\ pc["client"] = "start" /\ transcript["client"] = <<>> /\ pieces = <<>>
      /\ ~seen.finished /\ ~seen.asked /\ ~seen.proven
  BY DEF At, ClientAt, ClientHello
<1>2. /\ pieces' = pieces /\ seen' = seen
      /\ \/ pc'["client"] = "hello" /\ transcript'["client"] = Append(<<>>, "CH")
         \/ pc'["client"] = "failed"
  BY <1>1, PeerIs, Domains DEF ClientHello, Log, Goto
<1>3. Append(<<>>, "CH") = <<"CH">>
  OBVIOUS
<1>4. CASE pc'["client"] = "failed"
  BY <1>4, PeerIs, AtGone
<1>5. CASE pc'["client"] = "hello" /\ transcript'["client"] = <<"CH">>
  BY <1>1, <1>2, <1>5 DEF At, ClientAt, ClientPlaces, Live
<1>6. QED
  BY <1>2, <1>3, <1>4, <1>5

LEMMA TakeServerHelloAt ==
  ASSUME SInv, NEW s \in Servers, At(s, "client"), LoadOk(s, "server", Under(buf["client"])), TakeServerHello
  PROVE  At(s, "client")'
<1>1. /\ pc["client"] = "hello" /\ transcript["client"] = <<"CH">> /\ pieces = <<>>
      /\ ~seen.finished /\ ~seen.asked /\ ~seen.proven
  BY DEF At, ClientAt, TakeServerHello, Arrived
<1> DEFINE u == Under(buf["client"])
<1>2. u.type = "handshake"
  BY <1>1 DEF TakeServerHello, Arrived, Awaited
<1>3. u.content.over = s.suite
  <2>1. u = Plain("handshake", Message("SH", s.suite))
    BY <1>2, OpeningsAre DEF LoadOk
  <2>2. QED
    BY <2>1, PlainIs, MessageIs
<1>4. Append(transcript["client"], "SH") = Hellos
  BY <1>1, AppendTwo DEF Hellos
<1>5. /\ tx'["client"] = HandshakeKey("client", s.suite, Hellos)
      /\ rx'["client"] = HandshakeKey("server", s.suite, Hellos)
      /\ transcript'["client"] = Hellos /\ pc'["client"] = "flight" /\ pieces' = pieces /\ seen' = seen
  BY <1>3, <1>4, PeerIs, Domains DEF TakeServerHello, Schedule, Log, Goto
<1> HIDE DEF u
<1>6. /\ tx'["client"] = [key |-> HsKey(s, "client"), seq |-> 0]
      /\ rx'["client"].key = HsKey(s, "server") /\ rx'["client"].seq = 0
  <2>1. "client" \in Ends /\ "server" \in Ends
    BY PeerIs
  <2>2. /\ HandshakeKey("client", s.suite, Hellos) = [key |-> HsKey(s, "client"), seq |-> 0]
        /\ HandshakeKey("server", s.suite, Hellos) = [key |-> HsKey(s, "server"), seq |-> 0]
    BY <2>1, KeysAre
  <2>3. rx'["client"] = [key |-> HsKey(s, "server"), seq |-> 0] /\ tx'["client"] = [key |-> HsKey(s, "client"), seq |-> 0]
    BY <1>5, <2>2
  <2>4. QED
    BY <2>3
<1>7. Part(s, 0) = 0 /\ Len(s.messages) \in Nat \ {0} /\ 0 \in 0 .. Len(s.upto) /\ 0 \in 0 .. Len(s.messages)
  BY FlightIs, PartIs
<1>8. Grasped(s, 0)'
  <2>1. transcript'["client"] = Tale(s, 0)
    BY <1>5, TaleZero
  <2>2. pieces' = Notes(s, 2 * 0, Part(s, rx'["client"].seq)) /\ 2 * 0 <= Part(s, rx'["client"].seq)
    BY <1>1, <1>5, <1>6, <1>7, TaleZero
  <2>3. \A name : ~Named(s, 0, name)
    BY DEF Named
  <2>4. QED
    BY <1>1, <1>5, <1>7, <2>1, <2>2, <2>3 DEF Grasped
<1>9. InFlightOf(s)'
  BY <1>6, <1>7, <1>8 DEF InFlightOf
<1>10. QED
  BY <1>5, <1>9 DEF At, ClientAt, ClientPlaces, Live

LEMMA TakeFlightAt ==
  ASSUME SInv, NEW s \in Servers, At(s, "client"), LoadOk(s, "server", Under(buf["client"])), TakeFlight
  PROVE  At(s, "client")' /\ rx["client"].seq < Len(s.upto)
<1> DEFINE u == Under(buf["client"])
           n == rx["client"].seq
           N == Len(s.upto)
<1>1. pc["client"] = "flight" /\ InFlightOf(s)
  BY DEF At, ClientAt, TakeFlight, Arrived
<1>2. PICK k \in 0 .. Len(s.messages) : Grasped(s, k)
  BY <1>1 DEF InFlightOf
<1>3. u.type = "data" /\ u.key = rx["client"].key /\ u.seq = rx["client"].seq
  BY <1>1 DEF TakeFlight, Arrived, Awaited, Opens
<1>4. IsKey(rx["client"]) /\ n \in 0 .. N /\ rx["client"].key = HsKey(s, "server")
  BY <1>1, PeerIs, Domains DEF InFlightOf, SInv, Phased, Shaking
<1>5. /\ pc'["client"] = "flight" /\ transcript' = transcript /\ seen' = seen /\ secret' = secret /\ tx' = tx
      /\ rx'["client"] = Advance(rx["client"]) /\ pieces' = pieces \o u.content
  BY <1>1, PeerIs, Domains DEF TakeFlight
<1>6. PICK i \in 3 .. Openings(s, "server") : u = Opening(s, "server", i)
  BY <1>3, <1>4 DEF LoadOk, FirstSealed
<1>7. PICK m \in Nat : m + 3 = i /\ m < N /\ N \in Nat
  <2>1. Openings(s, "server") = N + 2 /\ N \in Nat
    BY FlightIs
  <2>2. i - 3 \in Nat /\ (i - 3) + 3 = i /\ i - 3 < N
    BY <2>1
  <2>3. QED
    BY <2>1, <2>2
<1>8. u = HsRecord(s, "server", m, Notes(s, Part(s, m), Part(s, m + 1)))
  BY <1>6, <1>7, OpeningsAre
<1>9. m = n /\ u.content = Notes(s, Part(s, n), Part(s, n + 1))
  BY <1>3, <1>8, SealIs DEF HsRecord
<1>10. rx'["client"].key = HsKey(s, "server") /\ rx'["client"].seq = n + 1
  BY <1>4, <1>5, Advanced
<1>11. Part(s, n) \in Nat /\ Part(s, n + 1) \in Nat /\ Part(s, n) < Part(s, n + 1)
  <2>1. n \in 0 .. N /\ n + 1 \in 0 .. N /\ n + 1 \in 1 .. N /\ (n + 1) - 1 = n
    BY <1>4, <1>7, <1>9
  <2>2. QED
    BY <2>1, PartIs
<1>12. pieces = Notes(s, 2 * k, Part(s, n)) /\ 2 * k <= Part(s, n) /\ k \in Nat
  BY <1>2 DEF Grasped
<1> HIDE DEF u, n, N
<1>13. pieces' = Notes(s, 2 * k, Part(s, n + 1))
  <2>a. PICK a \in Nat : a = 2 * k
    BY <1>12
  <2>b. PICK b \in Nat : b = Part(s, n)
    BY <1>11
  <2>c. PICK c \in Nat : c = Part(s, n + 1)
    BY <1>11
  <2>1. a = 2 * k /\ b = Part(s, n) /\ c = Part(s, n + 1)
    BY <2>a, <2>b, <2>c
  <2>2. a <= b /\ b <= c
    BY <1>11, <1>12, <2>1
  <2>3. Notes(s, a, b) \o Notes(s, b, c) = Notes(s, a, c)
    BY <2>2, NotesJoin
  <2>4. QED
    BY <1>5, <1>9, <1>12, <2>1, <2>3
<1>14. 2 * k <= Part(s, n + 1)
  BY <1>11, <1>12
<1>15. Grasped(s, k)'
  BY <1>2, <1>5, <1>10, <1>13, <1>14 DEF Grasped
<1>16. n + 1 \in 0 .. N
  BY <1>4, <1>7, <1>9
<1>17. InFlightOf(s)'
  BY <1>1, <1>5, <1>10, <1>15, <1>16 DEF InFlightOf, N
<1>18. QED
  BY <1>5, <1>7, <1>9, <1>17 DEF At, ClientAt, ClientPlaces, Live, n, N

LEMMA NoteIs ==
  ASSUME NEW s, NEW i
  PROVE  /\ Note(s, i).name = s.messages[i]
         /\ s.messages[i] = "CV" => Note(s, i).over = Tale(s, i - 1)
         /\ s.messages[i] = "Fin" => Note(s, i) = FinishedOf("server", s.suite, Hellos, Tale(s, i - 1))
<1>1. CASE s.messages[i] = "CV"
  BY <1>1, MessageIs DEF Note
<1>2. CASE s.messages[i] = "Fin"
  BY <1>2, MessageIs DEF Note, FinishedOf
<1>3. CASE s.messages[i] # "CV" /\ s.messages[i] # "Fin"
  BY <1>3, MessageIs DEF Note
<1>4. QED
  BY <1>1, <1>2, <1>3

LEMMA NamedMore ==
  ASSUME NEW s, NEW k \in Nat, NEW name
  PROVE  /\ Named(s, k + 1, name) <=> (Named(s, k, name) \/ s.messages[k + 1] = name)
         /\ ~Named(s, 0, name)
<1>1. 1 .. k + 1 = (1 .. k) \cup {k + 1}
  OBVIOUS
<1>2. QED
  BY <1>1 DEF Named

(* The message that comes next is the server's next one.                   *)
LEMMA NextMessage ==
  ASSUME NEW s \in Servers, InFlightOf(s), NEW k \in 0 .. Len(s.messages), Grasped(s, k), Len(pieces) >= 2
  PROVE  /\ k < Len(s.messages) /\ 2 * (k + 1) <= Part(s, rx["client"].seq)
         /\ Head(pieces) = Note(s, k + 1)
         /\ SubSeq(pieces, 3, Len(pieces)) = Notes(s, 2 * (k + 1), Part(s, rx["client"].seq))
<1> DEFINE n == rx["client"].seq
           M == Len(s.messages)
<1>1. n \in 0 .. Len(s.upto) /\ pieces = Notes(s, 2 * k, Part(s, n)) /\ 2 * k <= Part(s, n)
  BY DEF InFlightOf, Grasped
<1>2. M \in Nat /\ k \in Nat
  BY FlightIs
<1>3. Part(s, n) \in Nat /\ Part(s, n) <= 2 * M
  BY <1>1, PartIs
<1>4. PICK b \in Nat : b = Part(s, n)
  BY <1>3
<1> HIDE DEF n, M
<1>5. 2 * k \in Nat /\ 2 * k <= b /\ b <= 2 * M /\ pieces = Notes(s, 2 * k, b)
  BY <1>1, <1>2, <1>3, <1>4
<1>6. Len(pieces) = b - 2 * k
  <2>1. PICK a \in Nat : a = 2 * k
    BY <1>5
  <2>2. a <= b
    BY <1>5, <2>1
  <2>3. Len(Notes(s, a, b)) = b - a
    BY <2>2, NotesAre
  <2>4. QED
    BY <1>5, <2>1, <2>3
<1>7. 2 * k + 2 <= b
  BY <1>5, <1>6
<1>8. k < M /\ 2 * (k + 1) <= b
  BY <1>2, <1>5, <1>7
<1>9. /\ Head(Notes(s, 2 * k, b)) = Note(s, k + 1)
      /\ SubSeq(Notes(s, 2 * k, b), 3, Len(Notes(s, 2 * k, b))) = Notes(s, 2 * (k + 1), b)
  BY <1>2, <1>7, NotesTaken
<1>10. QED
  BY <1>4, <1>5, <1>8, <1>9 DEF n, M

LEMMA TakeMessageAt ==
  ASSUME SInv, NEW s \in Servers, At(s, "client"), Noted, TakeMessage
  PROVE  At(s, "client")' /\ Noted' /\ pc' = pc
<1> DEFINE n == rx["client"].seq
           M == Len(s.messages)
           m == Head(pieces)
           here == Append(transcript["client"], m.name)
           good == (m.name = "CV" => Signed(m)) /\ (m.name = "Fin" => Authentic(m))
<1>1. pc["client"] = "flight" /\ InFlightOf(s) /\ Len(pieces) >= 2
  BY DEF At, ClientAt, TakeMessage
<1>2. PICK k \in 0 .. Len(s.messages) : Grasped(s, k)
  BY <1>1 DEF InFlightOf
<1> DEFINE w == s.messages[k + 1]
<1>3. /\ k < M /\ 2 * (k + 1) <= Part(s, n) /\ m = Note(s, k + 1)
      /\ SubSeq(pieces, 3, Len(pieces)) = Notes(s, 2 * (k + 1), Part(s, n))
  BY <1>1, <1>2, NextMessage
<1>4. /\ transcript["client"] = Tale(s, k)
      /\ k > 0 /\ s.messages[k] = "Cert" => seen.cert = Tale(s, k)
      /\ seen.asked <=> Named(s, k, "Req")
      /\ seen.proven <=> Named(s, k, "CV")
      /\ seen.finished <=> k = M
  BY <1>2 DEF Grasped
<1>5. M \in Nat \ {0} /\ k \in Nat /\ k + 1 \in 1 .. M /\ k + 1 \in 0 .. M /\ (k + 1) - 1 = k
  BY <1>3, FlightIs
<1>6. (w = "Fin" <=> k + 1 = M) /\ (w = "CV" => k + 1 > 1 /\ s.messages[k] = "Cert")
  BY <1>5, FlightIs
<1>7. /\ m.name = w /\ (w = "CV" => m.over = Tale(s, k))
      /\ w = "Fin" => m = FinishedOf("server", s.suite, Hellos, Tale(s, k))
  BY <1>3, <1>5, NoteIs
<1>8. here = Tale(s, k + 1) /\ SubSeq(Tale(s, k), 1, 2) = Hellos
  BY <1>3, <1>4, <1>7, TaleIs
<1>9. /\ transcript'["client"] = here /\ pieces' = SubSeq(pieces, 3, Len(pieces)) /\ tx' = tx /\ rx' = rx
      /\ seen' = [seen EXCEPT !.cert     = IF m.name = "Cert" THEN here ELSE @,
                              !.asked    = @ \/ m.name = "Req",
                              !.proven   = @ \/ m.name = "CV",
                              !.finished = @ \/ m.name = "Fin"]
      /\ secret'["client"] = IF m.name = "Fin" THEN here ELSE secret["client"]
      /\ good => pc' = pc
  BY PeerIs, Domains DEF TakeMessage, keys
<1> HIDE DEF m, here, n, M, w
<1>10. good
  <2>1. w = "CV" => Signed(m)
    BY <1>4, <1>5, <1>6, <1>7 DEF Signed
  <2>2. w = "Fin" => Authentic(m)
    <3>1. tx["client"].key[2] = s.suite
      <4>1. tx["client"].key = HsKey(s, "client")
        BY <1>1 DEF InFlightOf
      <4>2. QED
        <5>1. HsKey(s, "client")[2] = s.suite
          BY PeerIs, KeysAre
        <5>2. QED
          BY <4>1, <5>1
    <3>2. Suite("client") = s.suite /\ Hello("client") = Hellos
      BY <1>4, <1>8, <3>1 DEF Suite, Hello
    <3>3. QED
      BY <1>4, <1>7, <3>2 DEF Authentic
  <2>3. QED
    BY <1>7, <2>1, <2>2
<1>11. /\ seen'.cert = (IF w = "Cert" THEN here ELSE seen.cert)
       /\ seen'.asked = (seen.asked \/ w = "Req")
       /\ seen'.proven = (seen.proven \/ w = "CV")
       /\ seen'.finished = (seen.finished \/ w = "Fin")
       /\ seen' = [cert |-> seen'.cert, proven |-> seen'.proven, asked |-> seen'.asked, finished |-> seen'.finished]
  BY <1>7, <1>9 DEF Noted
<1>12. Grasped(s, k + 1)'
  <2>1. transcript'["client"] = Tale(s, k + 1) /\ pieces' = Notes(s, 2 * (k + 1), Part(s, n)) /\ 2 * (k + 1) <= Part(s, n)
    BY <1>3, <1>8, <1>9
  <2>2. k + 1 > 0 /\ s.messages[k + 1] = "Cert" => seen'.cert = Tale(s, k + 1)
    BY <1>8, <1>11 DEF w
  <2>3. /\ seen'.asked <=> Named(s, k + 1, "Req")
        /\ seen'.proven <=> Named(s, k + 1, "CV")
    <3>1. \A name : Named(s, k + 1, name) <=> (Named(s, k, name) \/ w = name)
      BY <1>5, NamedMore DEF w
    <3>2. /\ seen'.asked = (seen.asked \/ w = "Req") /\ seen'.proven = (seen.proven \/ w = "CV")
          /\ seen.asked <=> Named(s, k, "Req")
          /\ seen.proven <=> Named(s, k, "CV")
      <4>1. seen'.asked = (seen.asked \/ w = "Req") /\ seen'.proven = (seen.proven \/ w = "CV")
        BY <1>11
      <4>2. (seen.asked <=> Named(s, k, "Req")) /\ (seen.proven <=> Named(s, k, "CV"))
        BY <1>4
      <4>3. QED
        BY <4>1, <4>2
    <3>3. /\ Named(s, k + 1, "Req") <=> (Named(s, k, "Req") \/ w = "Req")
          /\ Named(s, k + 1, "CV") <=> (Named(s, k, "CV") \/ w = "CV")
      BY <3>1
    <3>4. QED
      BY <3>2, <3>3
  <2>4. seen'.finished <=> k + 1 = M
    <3>1. k # M
      BY <1>3, <1>5
    <3>2. ~seen.finished
      BY <1>4, <3>1
    <3>3. QED
      BY <1>6, <1>11, <3>2
  <2>5. k + 1 = M => secret'["client"] = Full(s)
    BY <1>6, <1>7, <1>8, <1>9 DEF Full, M
  <2>6. rx' = rx
    BY <1>9
  <2>7. QED
    BY <2>1, <2>2, <2>3, <2>4, <2>5, <2>6 DEF Grasped, M, n
<1>13. InFlightOf(s)'
  BY <1>1, <1>5, <1>9, <1>12 DEF InFlightOf, M
<1>14. At(s, "client")'
  BY <1>1, <1>9, <1>10, <1>13 DEF At, ClientAt, ClientPlaces, Live
<1>15. QED
  BY <1>9, <1>10, <1>11, <1>14 DEF Noted

(* At the end of the flight the client has taken all of it.                *)
LEMMA FlightIsOver ==
  ASSUME NEW s \in Servers, InFlightOf(s), seen.finished
  PROVE  /\ rx["client"].seq = Len(s.upto) /\ transcript["client"] = Full(s) /\ secret["client"] = Full(s)
         /\ seen.asked <=> Asking(s)
         /\ seen.proven <=> Named(s, Len(s.messages), "CV")
<1> DEFINE n == rx["client"].seq
           M == Len(s.messages)
           N == Len(s.upto)
<1>1. PICK k \in 0 .. M : Grasped(s, k)
  BY DEF InFlightOf
<1>2. k = M
  BY <1>1 DEF Grasped
<1>3. /\ transcript["client"] = Full(s) /\ secret["client"] = Full(s)
      /\ seen.asked <=> Asking(s)
      /\ seen.proven <=> Named(s, M, "CV")
  BY <1>1, <1>2 DEF Grasped, Full, Asking
<1>4. n \in 0 .. N /\ N \in Nat /\ M \in Nat /\ 2 * M <= Part(s, n)
  BY <1>1, <1>2, FlightIs DEF InFlightOf, Grasped
<1>5. n = N
  <2>1. SUFFICES ASSUME n # N PROVE FALSE
    OBVIOUS
  <2>2. n + 1 \in 1 .. N /\ n + 1 \in 0 .. N /\ (n + 1) - 1 = n
    BY <1>4, <2>1
  <2>3. Part(s, n) < Part(s, n + 1) /\ Part(s, n + 1) <= 2 * M /\ Part(s, n) \in Nat /\ Part(s, n + 1) \in Nat
    BY <1>4, <2>2, PartIs
  <2> HIDE DEF n, M, N
  <2>4. QED
    BY <1>4, <2>3
<1>6. QED
  BY <1>3, <1>5

LEMMA DeclineRecord ==
  ASSUME NEW s \in Servers, InFlightOf(s), seen.finished, seen.asked
  PROVE  /\ Seal(tx["client"], "handshake", Halves(Message("Cert", <<>>))) = Opening(s, "client", 2)
         /\ 2 \in 1 .. Openings(s, "client")
<1>1. Asking(s) /\ Openings(s, "client") = 3
  BY FlightIsOver, FlightIs
<1>2. tx["client"] = [key |-> HsKey(s, "client"), seq |-> 0]
  BY DEF InFlightOf
<1>3. Opening(s, "client", 2) = HsRecord(s, "client", 0, Halves(Message("Cert", <<>>)))
  BY <1>1, OpeningsAre
<1>4. 2 \in 1 .. Openings(s, "client")
  BY <1>1
<1>5. QED
  BY <1>2, <1>3, <1>4 DEF HsRecord

(* The client's Finished is the last record of its handshake, and what it  *)
(* has before it are the session's secrets.                                *)
Finishing(s) ==
  \/ pc["client"] = "flight" /\ InFlightOf(s) /\ seen.finished /\ ~seen.asked
  \/ /\ pc["client"] = "declined" /\ Asking(s) /\ tx["client"] = [key |-> HsKey(s, "client"), seq |-> 1]
     /\ transcript["client"] = Answered(s) /\ secret["client"] = Full(s)

LEMMA FinishRecord ==
  ASSUME NEW s \in Servers, Finishing(s)
  PROVE  /\ Seal(tx["client"], "handshake",
                 Halves(FinishedOf("client", Suite("client"), Hello("client"), transcript["client"])))
              = Opening(s, "client", Openings(s, "client"))
         /\ Suite("client") = s.suite /\ secret["client"] = Full(s)
<1>1. PICK n \in Nat : /\ tx["client"] = [key |-> HsKey(s, "client"), seq |-> n] /\ n + 2 = Openings(s, "client")
                       /\ transcript["client"] = Answered(s) /\ secret["client"] = Full(s)
  <2>1. CASE InFlightOf(s) /\ seen.finished /\ ~seen.asked
    <3>1. ~Asking(s) /\ transcript["client"] = Full(s) /\ secret["client"] = Full(s)
      BY <2>1, FlightIsOver
    <3>2. Openings(s, "client") = 2 /\ Answered(s) = Full(s)
      BY <3>1, FlightIs, FullIs
    <3>3. tx["client"] = [key |-> HsKey(s, "client"), seq |-> 0]
      BY <2>1 DEF InFlightOf
    <3>4. QED
      BY <3>1, <3>2, <3>3
  <2>2. CASE /\ Asking(s) /\ tx["client"] = [key |-> HsKey(s, "client"), seq |-> 1]
             /\ transcript["client"] = Answered(s) /\ secret["client"] = Full(s)
    <3>1. Openings(s, "client") = 3
      BY <2>2, FlightIs
    <3>2. QED
      BY <2>2, <3>1
  <2>3. QED
    BY <2>1, <2>2 DEF Finishing
<1>2. HsKey(s, "client")[2] = s.suite
  BY PeerIs, KeysAre
<1>3. Suite("client") = s.suite
  BY <1>1, <1>2 DEF Suite
<1>4. Hello("client") = Hellos
  BY <1>1, FullIs DEF Hello
<1>5. Opening(s, "client", n + 2)
        = HsRecord(s, "client", n, Halves(FinishedOf("client", s.suite, Hellos, Answered(s))))
  BY <1>1, OpeningsAre
<1>6. QED
  BY <1>1, <1>3, <1>4, <1>5 DEF HsRecord

LEMMA DeclineAt ==
  ASSUME SInv, NEW s \in Servers, s = server, At(s, "client"), Decline
  PROVE  LET r == Opening(s, "client", 2)
         IN  /\ At(s, "client")' /\ InFlightOf(s) /\ seen.finished /\ seen.asked
             /\ \/ SendAll("client", r) /\ pc'["client"] = "declined" /\ tx'["client"].seq = 1
                \/ SendCut("client", r) /\ pc'["client"] = "failed"
<1> DEFINE r == Seal(tx["client"], "handshake", Halves(Message("Cert", <<>>)))
<1>1. /\ pc["client"] = "flight" /\ InFlightOf(s) /\ seen.finished /\ seen.asked /\ seen.proven /\ s.trusted
  BY DEF At, ClientAt, Decline, FlightOver, Accepted
<1>2. /\ transcript["client"] = Full(s) /\ secret["client"] = Full(s) /\ Asking(s)
      /\ Named(s, Len(s.messages), "CV")
  BY <1>1, FlightIsOver
<1>3. r = Opening(s, "client", 2)
  BY <1>1, DeclineRecord
<1>4. /\ secret' = secret /\ tx'["client"] = Advance(tx["client"])
      /\ \/ /\ SendAll("client", r) /\ pc'["client"] = "declined"
            /\ transcript'["client"] = Append(transcript["client"], "Cert")
         \/ SendCut("client", r) /\ pc'["client"] = "failed"
  BY PeerIs, Domains DEF Decline, Goto, Reply
<1> HIDE DEF r
<1>5. CASE pc'["client"] = "failed"
  BY <1>1, <1>3, <1>4, <1>5, PeerIs, AtGone
<1>6. CASE /\ SendAll("client", r) /\ pc'["client"] = "declined"
           /\ transcript'["client"] = Append(transcript["client"], "Cert")
  <2>1. transcript'["client"] = Answered(s)
    BY <1>2, <1>6, FullIs
  <2>2. tx'["client"] = [key |-> HsKey(s, "client"), seq |-> 1]
    BY <1>1, <1>4 DEF InFlightOf, Advance
  <2>3. At(s, "client")'
    BY <1>1, <1>2, <1>4, <1>6, <2>1, <2>2 DEF At, ClientAt, ClientPlaces, Live, Proven
  <2>4. QED
    BY <1>1, <1>3, <1>6, <2>2, <2>3
<1>7. QED
  BY <1>4, <1>5, <1>6

LEMMA ClientFinishAt ==
  ASSUME SInv, NEW s \in Servers, s = server, At(s, "client"), ClientFinish
  PROVE  LET r == Opening(s, "client", Openings(s, "client"))
         IN  /\ At(s, "client")' /\ Finishing(s)
             /\ \/ /\ SendAll("client", r) /\ pc'["client"] = "open" /\ tx'["client"].seq = 0 /\ rx'["client"].seq = 0
                \/ SendCut("client", r) /\ pc'["client"] = "failed"
<1> DEFINE r == Seal(tx["client"], "handshake",
                     Halves(FinishedOf("client", Suite("client"), Hello("client"), transcript["client"])))
           o == Opening(s, "client", Openings(s, "client"))
<1>1. Finishing(s) /\ Proven(s)
  <2>1. CASE FlightOver /\ Accepted /\ ~seen.asked
    <3>1. pc["client"] = "flight" /\ InFlightOf(s) /\ seen.finished /\ ~seen.asked /\ seen.proven /\ s.trusted
      BY <2>1 DEF At, ClientAt, FlightOver, Accepted
    <3>2. Proven(s)
      BY <3>1, FlightIsOver DEF Proven
    <3>3. QED
      BY <3>1, <3>2 DEF Finishing
  <2>2. CASE pc["client"] = "declined"
    BY <2>2 DEF At, ClientAt, Finishing
  <2>3. QED
    BY <2>1, <2>2 DEF ClientFinish
<1>2. r = o /\ Suite("client") = s.suite /\ secret["client"] = Full(s)
  BY <1>1, FinishRecord
<1>3. /\ secret' = secret
      /\ \/ SendAll("client", r) /\ Register("client")
         \/ SendCut("client", r) /\ pc'["client"] = "failed"
  BY PeerIs, Domains DEF ClientFinish, Goto, handshake
<1> HIDE DEF r, o
<1>4. CASE SendCut("client", r) /\ pc'["client"] = "failed"
  BY <1>1, <1>2, <1>4, PeerIs, AtGone DEF o
<1>5. CASE SendAll("client", r) /\ Register("client")
  <2>1. /\ pc'["client"] = "open" /\ tx'["client"] = AppKey("client", s.suite, Full(s))
        /\ rx'["client"] = AppKey("server", s.suite, Full(s))
    BY <1>2, <1>5, PeerIs, Domains DEF Register, Goto, SessionKeys
  <2>2. /\ tx'["client"] = [key |-> DataKey(s, "client"), seq |-> 0]
        /\ rx'["client"] = [key |-> DataKey(s, "server"), seq |-> 0]
    <3>1. "client" \in Ends /\ "server" \in Ends
      BY PeerIs
    <3>2. /\ AppKey("client", s.suite, Full(s)) = [key |-> DataKey(s, "client"), seq |-> 0]
          /\ AppKey("server", s.suite, Full(s)) = [key |-> DataKey(s, "server"), seq |-> 0]
      BY <3>1, KeysAre
    <3>3. QED
      BY <2>1, <3>2
  <2>3. InSession(s, "client")'
    BY <1>1, <1>2, <1>3, <2>1, <2>2, PeerIs DEF InSession, Live
  <2>4. At(s, "client")'
    BY <2>3, PeerIs, AtEnters
  <2>5. QED
    BY <1>1, <1>2, <1>5, <2>1, <2>2, <2>4 DEF o
<1>6. QED
  BY <1>3, <1>4, <1>5

-----------------------------------------------------------------------------
(* The server, step by step                                                *)

LEMMA TakeClientHelloAt ==
  ASSUME SInv, NEW s, At(s, "server"), TakeClientHello
  PROVE  At(s, "server")'
<1>1. pc["server"] = "hello" /\ transcript["server"] = <<>> /\ next = 1
  BY DEF At, ServerAt, TakeClientHello, Arrived
<1>2. pc'["server"] = "answer" /\ transcript'["server"] = Append(<<>>, "CH") /\ next' = next
  BY <1>1, PeerIs, Domains DEF TakeClientHello, Log, Goto
<1>3. Append(<<>>, "CH") = <<"CH">>
  BY AppendTwo
<1>4. QED
  BY <1>1, <1>2, <1>3 DEF At, ServerAt, ServerPlaces, Live

LEMMA ServerHelloAt ==
  ASSUME SInv, NEW s \in Servers, s = server, At(s, "server"), ServerHello
  PROVE  LET r == Opening(s, "server", 1)
         IN  /\ At(s, "server")'
             /\ \/ SendAll("server", r) /\ pc'["server"] = "change"
                \/ SendCut("server", r) /\ pc'["server"] = "failed"
<1> DEFINE r == Plain("handshake", Message("SH", s.suite))
<1>1. r = Opening(s, "server", 1)
  BY OpeningsAre
<1>2. pc["server"] = "answer" /\ transcript["server"] = <<"CH">> /\ next = 1
  BY DEF At, ServerAt, ServerHello
<1>3. /\ next' = next
      /\ \/ /\ SendAll("server", r) /\ transcript'["server"] = Append(<<"CH">>, "SH") /\ pc'["server"] = "change"
            /\ tx'["server"] = HandshakeKey("server", s.suite, Append(<<"CH">>, "SH"))
            /\ rx'["server"] = HandshakeKey("client", s.suite, Append(<<"CH">>, "SH"))
         \/ SendCut("server", r) /\ pc'["server"] = "failed"
  BY <1>2, PeerIs, Domains DEF ServerHello, Log, Goto, Schedule
<1>4. Append(<<"CH">>, "SH") = Hellos
  BY AppendTwo DEF Hellos
<1> HIDE DEF r
<1>5. CASE SendCut("server", r) /\ pc'["server"] = "failed"
  BY <1>1, <1>5, PeerIs, AtGone
<1>6. CASE /\ SendAll("server", r) /\ transcript'["server"] = Hellos /\ pc'["server"] = "change"
           /\ tx'["server"] = HandshakeKey("server", s.suite, Hellos)
           /\ rx'["server"] = HandshakeKey("client", s.suite, Hellos)
  <2>1. /\ tx'["server"] = [key |-> HsKey(s, "server"), seq |-> 0]
        /\ rx'["server"] = [key |-> HsKey(s, "client"), seq |-> 0]
    <3>1. "client" \in Ends /\ "server" \in Ends
      BY PeerIs
    <3>2. /\ HandshakeKey("client", s.suite, Hellos) = [key |-> HsKey(s, "client"), seq |-> 0]
          /\ HandshakeKey("server", s.suite, Hellos) = [key |-> HsKey(s, "server"), seq |-> 0]
      BY <3>1, KeysAre
    <3>3. QED
      BY <1>6, <3>2
  <2>2. transcript'["server"] = Tale(s, 0)
    BY <1>6, TaleZero
  <2>3. Part(s, 0) \div 2 = 0 /\ 1 \in 1 .. Len(s.upto) /\ 1 - 1 = 0
    <3>1. Part(s, 0) = 0 /\ Len(s.upto) \in Nat \ {0}
      BY PartIs, FlightIs
    <3>2. QED
      BY <3>1
  <2>4. next' = 1
    BY <1>2, <1>3
  <2>5. Sending(s)'
    BY <2>1, <2>2, <2>3, <2>4 DEF Sending
  <2>6. At(s, "server")'
    BY <1>6, <2>4, <2>5 DEF At, ServerAt, ServerPlaces, Live
  <2>7. QED
    BY <1>1, <1>6, <2>6
<1>7. QED
  BY <1>3, <1>4, <1>5, <1>6

LEMMA SendChangeAt ==
  ASSUME SInv, NEW s \in Servers, At(s, "server"), SendChange
  PROVE  LET r == Opening(s, "server", 2)
         IN  At(s, "server")' /\ pc'["server"] = "send" /\ (SendAll("server", r) \/ SendCut("server", r))
<1>1. Plain("ccs", None) = Opening(s, "server", 2)
  BY OpeningsAre
<1>2. pc["server"] = "change" /\ Sending(s)
  BY DEF At, ServerAt, SendChange
<1>3. /\ pc'["server"] = "send" /\ transcript' = transcript /\ tx' = tx /\ rx' = rx /\ next' = next /\ secret' = secret
      /\ SendAll("server", Plain("ccs", None)) \/ SendCut("server", Plain("ccs", None))
  BY PeerIs, Domains DEF SendChange, Goto, handshake, keys
<1>4. Sending(s)'
  BY <1>2, <1>3 DEF Sending
<1>5. QED
  BY <1>1, <1>3, <1>4 DEF At, ServerAt, ServerPlaces, Live

(* The server's records are those of the flight.                           *)
LEMMA FlightRecord ==
  ASSUME NEW s \in Servers, s = server, Sending(s)
  PROVE  /\ Seal(tx["server"], "handshake",
                 [j \in 1 .. Upto(next) - Upto(next - 1) |-> Compose((Upto(next - 1) + j + 1) \div 2)])
              = Opening(s, "server", next + 2)
         /\ next + 2 \in 1 .. Openings(s, "server")
         /\ Hello("server") \o SubSeq(s.messages, 1, Upto(next) \div 2) = Tale(s, Part(s, next) \div 2)
<1> DEFINE N == Len(s.upto)
<1>1. /\ tx["server"] = [key |-> HsKey(s, "server"), seq |-> next - 1] /\ next \in 1 .. N
      /\ transcript["server"] = Tale(s, Part(s, next - 1) \div 2)
  BY DEF Sending
<1>2. N \in Nat \ {0} /\ Len(s.messages) \in Nat \ {0} /\ Openings(s, "server") = N + 2
  BY FlightIs
<1>3. PICK n \in Nat : n = next - 1 /\ next = n + 1 /\ n \in 0 .. N
  <2>1. next - 1 \in Nat /\ next = (next - 1) + 1 /\ next - 1 \in 0 .. N
    BY <1>1, <1>2
  <2>2. QED
    BY <2>1
<1>4. Part(s, n) \in Nat /\ Part(s, n) <= 2 * Len(s.messages)
  BY <1>3, PartIs
<1>5. Part(s, n) \div 2 \in 0 .. Len(s.messages)
  <2>1. PICK p \in Nat, M \in Nat : p = Part(s, n) /\ M = Len(s.messages)
    BY <1>2, <1>4
  <2>2. p <= 2 * M
    BY <1>4, <2>1
  <2>3. p \div 2 \in 0 .. M
    BY <2>2
  <2>4. QED
    BY <2>1, <2>3
<1>6. Hello("server") = Hellos
  BY <1>1, <1>3, <1>5, TaleIs DEF Hello
<1>7. HsKey(s, "server")[2] = s.suite
  BY PeerIs, KeysAre
<1>8. Suite("server") = s.suite
  BY <1>1, <1>7 DEF Suite
<1>9. \A k : Upto(k) = Part(s, k)
  BY DEF Upto, Part
<1>10. \A i : Hello("server") \o SubSeq(s.messages, 1, i) = Tale(s, i)
  BY <1>6 DEF Tale
<1>11. \A i : Compose(i) = Note(s, i)
  BY <1>6, <1>8 DEF Compose, Note, Tale
<1>12. [j \in 1 .. Upto(next) - Upto(next - 1) |-> Compose((Upto(next - 1) + j + 1) \div 2)]
          = Notes(s, Part(s, n), Part(s, n + 1))
  BY <1>3, <1>9, <1>11 DEF Notes
<1>13. Opening(s, "server", n + 3) = HsRecord(s, "server", n, Notes(s, Part(s, n), Part(s, n + 1)))
  BY OpeningsAre
<1>14. next + 2 = n + 3 /\ next + 2 \in 1 .. Openings(s, "server")
  BY <1>1, <1>2, <1>3
<1>15. Hello("server") \o SubSeq(s.messages, 1, Upto(next) \div 2) = Tale(s, Part(s, next) \div 2)
  BY <1>9, <1>10
<1> HIDE DEF N
<1>16. QED
  BY <1>1, <1>3, <1>12, <1>13, <1>14, <1>15 DEF HsRecord

LEMMA SendFlightAt ==
  ASSUME SInv, NEW s \in Servers, s = server, At(s, "server"), SendFlight
  PROVE  LET r == Opening(s, "server", next + 2)
         IN  /\ At(s, "server")' /\ Sending(s) /\ next + 2 \in 1 .. Openings(s, "server")
             /\ \/ SendAll("server", r) /\ pc'["server"] = "send" /\ next' = next + 1 /\ next < Len(s.upto)
                \/ SendAll("server", r) /\ pc'["server"] = "finished" /\ next = Len(s.upto)
                \/ SendCut("server", r) /\ pc'["server"] = "failed"
<1> DEFINE r == Seal(tx["server"], "handshake",
                     [j \in 1 .. Upto(next) - Upto(next - 1) |-> Compose((Upto(next - 1) + j + 1) \div 2)])
           logged == Hello("server") \o SubSeq(server.messages, 1, Upto(next) \div 2)
           N == Len(server.upto)
<1>0. N = Len(s.upto) /\ logged = Hello("server") \o SubSeq(s.messages, 1, Upto(next) \div 2)
  OBVIOUS
<1>1. pc["server"] = "send" /\ Sending(s)
  BY DEF At, ServerAt, SendFlight
<1>2. /\ r = Opening(s, "server", next + 2) /\ next + 2 \in 1 .. Openings(s, "server")
      /\ logged = Tale(s, Part(s, next) \div 2)
  BY <1>0, <1>1, FlightRecord
<1>3. /\ tx'["server"] = Advance(tx["server"]) /\ rx' = rx
      /\ \/ /\ SendAll("server", r) /\ next' = next + 1 /\ transcript'["server"] = logged
            /\ next < N /\ pc' = pc /\ secret' = secret
         \/ /\ SendAll("server", r) /\ next' = next + 1 /\ transcript'["server"] = logged
            /\ ~(next < N) /\ pc'["server"] = "finished" /\ secret'["server"] = logged
         \/ SendCut("server", r) /\ pc'["server"] = "failed"
  <2>1. DOMAIN pc = Ends /\ DOMAIN tx = Ends /\ DOMAIN transcript = Ends /\ DOMAIN secret = Ends /\ "server" \in Ends
    BY PeerIs, Domains
  <2>2. /\ tx' = [tx EXCEPT !["server"] = Advance(tx["server"])] /\ rx' = rx
        /\ \/ /\ SendAll("server", r) /\ next' = next + 1
              /\ transcript' = [transcript EXCEPT !["server"] = logged]
              /\ IF next < N THEN UNCHANGED <<pc, secret>>
                 ELSE Goto("server", "finished") /\ secret' = [secret EXCEPT !["server"] = logged]
           \/ SendCut("server", r) /\ Goto("server", "failed")
    BY DEF SendFlight
  <2> HIDE DEF r, logged, N
  <2>3. QED
    BY <2>1, <2>2 DEF Goto
<1>4. /\ next \in 1 .. N /\ N \in Nat /\ tx["server"] = [key |-> HsKey(s, "server"), seq |-> next - 1]
      /\ rx["server"] = [key |-> HsKey(s, "client"), seq |-> 0]
  BY <1>0, <1>1, FlightIs DEF Sending
<1>5. tx'["server"] = [key |-> HsKey(s, "server"), seq |-> (next - 1) + 1]
  BY <1>3, <1>4 DEF Advance
<1>6. (next - 1) + 1 = (next + 1) - 1 /\ (next + 1) - 1 = next
  BY <1>4
<1> HIDE DEF r, logged, N
<1>7. CASE SendCut("server", r) /\ pc'["server"] = "failed"
  BY <1>1, <1>2, <1>7, PeerIs, AtGone
<1>8. CASE /\ SendAll("server", r) /\ next' = next + 1 /\ transcript'["server"] = logged
           /\ next < N /\ pc' = pc /\ secret' = secret
  <2>1. next' \in 1 .. N
    BY <1>4, <1>8
  <2>2. tx'["server"] = [key |-> HsKey(s, "server"), seq |-> next' - 1]
    BY <1>5, <1>6, <1>8
  <2>3. transcript'["server"] = Tale(s, Part(s, next' - 1) \div 2)
    BY <1>2, <1>6, <1>8
  <2>4. Sending(s)'
    BY <1>0, <1>3, <1>4, <2>1, <2>2, <2>3 DEF Sending
  <2>5. At(s, "server")'
    BY <1>1, <1>8, <2>4 DEF At, ServerAt, ServerPlaces, Live
  <2>6. QED
    BY <1>0, <1>1, <1>2, <1>8, <2>5
<1>9. CASE /\ SendAll("server", r) /\ next' = next + 1 /\ transcript'["server"] = logged
           /\ ~(next < N) /\ pc'["server"] = "finished" /\ secret'["server"] = logged
  <2>1. next = N
    BY <1>4, <1>9
  <2>2. logged = Full(s)
    <3>1. Part(s, N) = 2 * Len(s.messages) /\ Len(s.messages) \in Nat
      BY <1>0, PartIs, FlightIs
    <3>2. (2 * Len(s.messages)) \div 2 = Len(s.messages)
      <4>1. \A M \in Nat : (2 * M) \div 2 = M
        OBVIOUS
      <4>2. QED
        BY <3>1, <4>1
    <3>3. QED
      BY <1>2, <2>1, <3>1, <3>2 DEF Full
  <2>3. Waiting(s)'
    BY <1>3, <1>4, <1>5, <1>9, <2>2 DEF Waiting
  <2>4. At(s, "server")'
    BY <1>9, <2>2, <2>3 DEF At, ServerAt, ServerPlaces, Live
  <2>5. QED
    BY <1>0, <1>1, <1>2, <1>9, <2>1, <2>4
<1>10. QED
  BY <1>3, <1>7, <1>8, <1>9

LEMMA HalvesHead ==
  ASSUME NEW m
  PROVE  Head(Halves(m)) = m
  BY DEF Halves

(* What the server waits for is what the client sends.                     *)
LEMMA AwaitedFinish ==
  ASSUME NEW s \in Servers, s = server, Waiting(s), IsKey(rx["server"]), NEW u, LoadOk(s, "client", u),
         u.type = "data", u.key = rx["server"].key, u.seq = rx["server"].seq
  PROVE  LET m == Head(u.content)
             e == FinishedOf("client", Suite("server"), Hello("server"), transcript["server"])
         IN  \/ /\ Asking(s) /\ rx["server"].seq = 0 /\ transcript["server"] = Full(s)
                /\ m.name = "Cert" /\ m # e
             \/ /\ rx["server"].seq + 2 = Openings(s, "client") /\ transcript["server"] = Answered(s)
                /\ m = e /\ m.name # "Cert"
<1> DEFINE m == Head(u.content)
           e == FinishedOf("client", Suite("server"), Hello("server"), transcript["server"])
           n == rx["server"].seq
<1>1. n \in Nat /\ rx["server"].key = HsKey(s, "client") /\ tx["server"].key = HsKey(s, "server")
      /\ \/ n = 0 /\ transcript["server"] = Full(s)
         \/ Asking(s) /\ n = 1 /\ transcript["server"] = Answered(s)
  BY DEF Waiting, IsKey
<1>2. PICK i \in 2 .. Openings(s, "client") : u = Opening(s, "client", i)
  BY <1>1 DEF LoadOk, FirstSealed
<1>3. Openings(s, "client") = (IF Asking(s) THEN 3 ELSE 2)
  BY FlightIs
<1>4. HsKey(s, "server")[2] = s.suite
  BY PeerIs, KeysAre
<1>5. Suite("server") = s.suite /\ Hello("server") = Hellos
  BY <1>1, <1>4, FullIs DEF Suite, Hello
<1>6. e = FinishedOf("client", s.suite, Hellos, transcript["server"]) /\ e.name = "Fin"
  BY <1>5, MessageIs DEF FinishedOf
<1>7. CASE Asking(s) /\ i = 2
  <2>1. u = HsRecord(s, "client", 0, Halves(Message("Cert", <<>>)))
    BY <1>2, <1>7, OpeningsAre
  <2>2. u.seq = 0 /\ u.content = Halves(Message("Cert", <<>>))
    BY <2>1, SealIs DEF HsRecord
  <2>3. m = Message("Cert", <<>>)
    BY <2>2, HalvesHead
  <2>4. m.name = "Cert"
    BY <2>3, MessageIs
  <2>5. n = 0 /\ transcript["server"] = Full(s)
    BY <1>1, <2>2
  <2>6. m # e
    BY <1>6, <2>4
  <2> HIDE DEF m, e
  <2>7. QED
    BY <1>7, <2>4, <2>5, <2>6 DEF m, e
<1>8. CASE ~(Asking(s) /\ i = 2)
  <2>1. PICK k \in Nat : i = k + 2 /\ k + 2 = Openings(s, "client")
    <3>1. i = Openings(s, "client")
      BY <1>3, <1>8
    <3>2. i - 2 \in Nat /\ i = (i - 2) + 2
      OBVIOUS
    <3>3. QED
      BY <3>1, <3>2
  <2>2. Opening(s, "client", k + 2)
          = HsRecord(s, "client", k, Halves(FinishedOf("client", s.suite, Hellos, Answered(s))))
    BY <2>1, OpeningsAre
  <2>3. u.seq = k /\ u.content = Halves(FinishedOf("client", s.suite, Hellos, Answered(s)))
    BY <1>2, <2>1, <2>2, SealIs DEF HsRecord
  <2>4. m = FinishedOf("client", s.suite, Hellos, Answered(s))
    BY <2>3, HalvesHead
  <2>5. m.name = "Fin"
    BY <2>4, MessageIs DEF FinishedOf
  <2>6. n = k /\ n + 2 = Openings(s, "client")
    BY <2>1, <2>3
  <2>7. transcript["server"] = Answered(s)
    <3>1. CASE Asking(s)
      <4>1. n = 1
        BY <1>3, <2>6, <3>1
      <4>2. QED
        BY <1>1, <4>1
    <3>2. CASE ~Asking(s)
      BY <1>1, <3>2, FullIs
    <3>3. QED
      BY <3>1, <3>2
  <2>8. m = e
    BY <1>6, <2>4, <2>7
  <2> HIDE DEF m, e
  <2>9. QED
    BY <2>5, <2>6, <2>7, <2>8 DEF m, e
<1>9. QED
  BY <1>7, <1>8

LEMMA TakeClientFinishedAt ==
  ASSUME SInv, NEW s \in Servers, s = server, At(s, "server"), LoadOk(s, "client", Under(buf["server"])),
         TakeClientFinished
  PROVE  /\ At(s, "server")'
         /\ \/ /\ Asking(s) /\ rx["server"].seq = 0 /\ rx'["server"].seq = 1 /\ tx'["server"] = tx["server"]
               /\ pc'["server"] = "finished"
            \/ /\ rx["server"].seq + 2 = Openings(s, "client") /\ pc'["server"] = "open"
               /\ tx'["server"].seq = 0 /\ rx'["server"].seq = 0
<1> DEFINE u == Under(buf["server"])
           m == Head(u.content)
           e == FinishedOf("client", Suite("server"), Hello("server"), transcript["server"])
<1>1. pc["server"] = "finished" /\ Waiting(s) /\ secret["server"] = Full(s)
  BY DEF At, ServerAt, TakeClientFinished, Arrived
<1>2. IsKey(rx["server"]) /\ tx["server"].key = HsKey(s, "server") /\ rx["server"].key = HsKey(s, "client")
  BY <1>1, PeerIs DEF SInv, Phased, Shaking, Waiting
<1>3. u.type = "data" /\ u.key = rx["server"].key /\ u.seq = rx["server"].seq
  BY <1>1 DEF TakeClientFinished, Arrived, Awaited, Opens
<1>4. Asks <=> Asking(s)
  <2>1. DOMAIN s.messages = 1 .. Len(s.messages)
    BY FlightIs
  <2>2. QED
    BY <2>1 DEF Asks, Asking, Named
<1>5. \/ m = e /\ Register("server") /\ transcript' = transcript
      \/ /\ m.name = "Cert" /\ Asks /\ transcript'["server"] = Append(transcript["server"], "Cert")
         /\ rx'["server"] = Advance(rx["server"]) /\ tx' = tx /\ pc' = pc
      \/ m # e /\ ~(m.name = "Cert" /\ Asks)
  BY PeerIs, Domains DEF TakeClientFinished, Log
<1>6. secret' = secret /\ Suite("server") = s.suite
  <2>1. HsKey(s, "server")[2] = s.suite
    BY PeerIs, KeysAre
  <2>2. QED
    BY <1>2, <2>1 DEF TakeClientFinished, Suite
<1>7. \/ /\ Asking(s) /\ rx["server"].seq = 0 /\ transcript["server"] = Full(s)
         /\ m.name = "Cert" /\ m # e
      \/ /\ rx["server"].seq + 2 = Openings(s, "client") /\ transcript["server"] = Answered(s)
         /\ m = e /\ m.name # "Cert"
  <2>1. LoadOk(s, "client", u)
    OBVIOUS
  <2> HIDE DEF u
  <2>2. QED
    BY <1>1, <1>2, <1>3, <2>1, AwaitedFinish
<1> HIDE DEF u, m, e
<1>8. CASE /\ Asking(s) /\ rx["server"].seq = 0 /\ transcript["server"] = Full(s)
           /\ m.name = "Cert" /\ m # e
  <2>1. /\ transcript'["server"] = Append(Full(s), "Cert")
        /\ rx'["server"] = Advance(rx["server"]) /\ tx' = tx /\ pc' = pc
    BY <1>4, <1>5, <1>8
  <2>2. transcript'["server"] = Answered(s)
    BY <1>8, <2>1, FullIs
  <2>3. rx'["server"].key = HsKey(s, "client") /\ rx'["server"].seq = 1
    <3>1. rx'["server"].key = rx["server"].key /\ rx'["server"].seq = rx["server"].seq + 1
      BY <1>2, <2>1, Advanced
    <3>2. QED
      BY <1>2, <1>8, <3>1
  <2>4. Waiting(s)'
    BY <1>2, <1>8, <2>1, <2>2, <2>3 DEF Waiting
  <2>5. At(s, "server")'
    BY <1>1, <1>6, <2>1, <2>4 DEF At, ServerAt, ServerPlaces, Live
  <2>6. QED
    BY <1>1, <1>8, <2>1, <2>3, <2>5
<1>9. CASE /\ rx["server"].seq + 2 = Openings(s, "client") /\ transcript["server"] = Answered(s)
           /\ m = e /\ m.name # "Cert"
  <2>1. Register("server")
    BY <1>5, <1>9
  <2>2. /\ pc'["server"] = "open" /\ tx'["server"] = AppKey("server", s.suite, Full(s))
        /\ rx'["server"] = AppKey("client", s.suite, Full(s))
    BY <1>1, <1>6, <2>1, PeerIs, Domains DEF Register, Goto, SessionKeys
  <2>3. /\ tx'["server"] = [key |-> DataKey(s, "server"), seq |-> 0]
        /\ rx'["server"] = [key |-> DataKey(s, "client"), seq |-> 0]
    <3>1. "client" \in Ends /\ "server" \in Ends
      BY PeerIs
    <3>2. /\ AppKey("client", s.suite, Full(s)) = [key |-> DataKey(s, "client"), seq |-> 0]
          /\ AppKey("server", s.suite, Full(s)) = [key |-> DataKey(s, "server"), seq |-> 0]
      BY <3>1, KeysAre
    <3>3. QED
      BY <2>2, <3>2
  <2>4. InSession(s, "server")'
    BY <1>1, <1>6, <2>2, <2>3, PeerIs DEF InSession, Live
  <2>5. At(s, "server")'
    BY <2>4, PeerIs, AtEnters
  <2>6. QED
    BY <1>9, <2>2, <2>3, <2>5
<1>10. QED
  BY <1>7, <1>8, <1>9

-----------------------------------------------------------------------------
(* Lanes: records in a row, one sent, one taken                            *)

LEMMA LinedMore ==
  ASSUME NEW s, NEW e, NEW q, IsSeq(q), NEW a \in Nat, NEW b \in Nat, Lined(s, e, q, a, b),
         NEW r, IsNth(s, e, r, b + 1)
  PROVE  Lined(s, e, q \o Cells(r), a, b + 1)
<1> DEFINE t == Cells(r)
           n == b - a
<1>1. IsSeq(t) /\ Len(t) = 2 /\ t[1] = Cell(r, "head") /\ t[2] = Cell(r, "body")
  BY SeqCells
<1>c. Cell(r, "head").of = r /\ Cell(r, "head").part = "head" /\ Cell(r, "body").part = "body"
  BY DEF Cell
<1> HIDE DEF t
<1>2. /\ Len(q \o t) = Len(q) + Len(t)
      /\ \A i \in 1 .. Len(q) : (q \o t)[i] = q[i]
      /\ \A i \in 1 .. Len(t) : (q \o t)[Len(q) + i] = t[i]
  <2>1. IsSeq(q) /\ IsSeq(t)
    BY <1>1
  <2>2. QED
    BY <2>1, SeqCat
<1>3. /\ n \in Nat /\ a <= b /\ Len(q) = 2 * n
      /\ \A i \in 1 .. n : /\ q[2 * i - 1].part = "head" /\ q[2 * i].part = "body"
                           /\ IsNth(s, e, q[2 * i - 1].of, a + i)
  BY DEF Lined
<1>4. (b + 1) - a = n + 1 /\ a <= b + 1 /\ a + (n + 1) = b + 1
  BY <1>3
<1> DEFINE u == q \o t
<1> HIDE DEF n, u
<1>5. Len(u) = 2 * (n + 1)
  BY <1>1, <1>2, <1>3 DEF u
<1>6. ASSUME NEW i \in 1 .. n + 1
      PROVE  /\ u[2 * i - 1].part = "head" /\ u[2 * i].part = "body"
             /\ IsNth(s, e, u[2 * i - 1].of, a + i)
  <2>1. CASE i \in 1 .. n
    <3>1. 2 * i - 1 \in 1 .. Len(q) /\ 2 * i \in 1 .. Len(q)
      BY <1>3, <2>1
    <3>2. u[2 * i - 1] = q[2 * i - 1] /\ u[2 * i] = q[2 * i]
      BY <1>2, <3>1 DEF u
    <3>3. QED
      BY <1>3, <2>1, <3>2
  <2>2. CASE i = n + 1
    <3>1. 2 * i - 1 = Len(q) + 1 /\ 2 * i = Len(q) + 2 /\ 1 \in 1 .. Len(t) /\ 2 \in 1 .. Len(t)
      BY <1>1, <1>3, <2>2
    <3>2. u[Len(q) + 1] = t[1] /\ u[Len(q) + 2] = t[2]
      BY <1>2, <3>1 DEF u
    <3>3. u[2 * i - 1] = Cell(r, "head") /\ u[2 * i] = Cell(r, "body")
      BY <1>1, <3>1, <3>2
    <3>4. IsNth(s, e, r, a + i)
      BY <1>4, <2>2
    <3>5. QED
      BY <1>c, <3>3, <3>4
  <2>3. QED
    BY <1>3, <2>1, <2>2
<1>7. Lined(s, e, u, a, b + 1)
  BY <1>4, <1>5, <1>6 DEF Lined
<1>8. QED
  BY <1>7 DEF u, t

LEMMA LinedLess ==
  ASSUME NEW s, NEW e, NEW q, IsSeq(q), NEW a \in Nat, NEW b \in Nat, Lined(s, e, q, a, b), 2 \in 0 .. Len(q)
  PROVE  /\ q[1].part = "head" /\ q[2].part = "body" /\ IsNth(s, e, q[1].of, a + 1) /\ a + 1 <= b
         /\ Lined(s, e, SubSeq(q, 3, Len(q)), a + 1, b)
<1> DEFINE n == b - a
           t == SubSeq(q, 3, Len(q))
<1>1. /\ n \in Nat /\ a <= b /\ Len(q) = 2 * n
      /\ \A i \in 1 .. n : /\ q[2 * i - 1].part = "head" /\ q[2 * i].part = "body"
                           /\ IsNth(s, e, q[2 * i - 1].of, a + i)
  BY DEF Lined
<1>2. /\ Len(t) = Len(q) - 2
      /\ \A i \in 1 .. Len(q) - 2 : t[i] = q[2 + i]
  <2>1. /\ Len(SubSeq(q, 2 + 1, Len(q))) = Len(q) - 2
        /\ \A i \in 1 .. Len(q) - 2 : SubSeq(q, 2 + 1, Len(q))[i] = q[2 + i]
    BY SeqCut
  <2>2. 2 + 1 = 3
    OBVIOUS
  <2>3. QED
    BY <2>1, <2>2
<1>3. b - (a + 1) = n - 1
  OBVIOUS
<1> HIDE DEF t, n
<1>4. 1 \in 1 .. n /\ 2 * 1 - 1 = 1 /\ 2 * 1 = 2
  BY <1>1
<1>5. q[1].part = "head" /\ q[2].part = "body" /\ IsNth(s, e, q[1].of, a + 1)
  <2>1. PICK i \in 1 .. n : i = 1
    BY <1>4
  <2>2. q[2 * i - 1].part = "head" /\ q[2 * i].part = "body" /\ IsNth(s, e, q[2 * i - 1].of, a + i)
    BY <1>1
  <2>3. QED
    BY <1>4, <2>1, <2>2
<1>6. a + 1 <= b
  BY <1>1, <1>4 DEF n
<1>7. Len(t) = 2 * (n - 1)
  BY <1>1, <1>2
<1>8. ASSUME NEW i \in 1 .. n - 1
      PROVE  /\ t[2 * i - 1].part = "head" /\ t[2 * i].part = "body"
             /\ IsNth(s, e, t[2 * i - 1].of, (a + 1) + i)
  <2>1. PICK j \in 1 .. n : j = i + 1
    BY <1>1
  <2>2. q[2 * j - 1].part = "head" /\ q[2 * j].part = "body" /\ IsNth(s, e, q[2 * j - 1].of, a + j)
    BY <1>1
  <2>3. /\ 2 * i - 1 \in 1 .. Len(q) - 2 /\ 2 * i \in 1 .. Len(q) - 2
        /\ 2 + (2 * i - 1) = 2 * j - 1 /\ 2 + 2 * i = 2 * j /\ a + j = (a + 1) + i
    BY <1>1, <2>1
  <2>4. t[2 * i - 1] = q[2 * j - 1] /\ t[2 * i] = q[2 * j]
    BY <1>2, <2>3
  <2>5. QED
    BY <2>2, <2>3, <2>4
<1>9. Lined(s, e, t, a + 1, b)
  BY <1>3, <1>6, <1>7, <1>8 DEF Lined
<1>10. QED
  BY <1>5, <1>6, <1>9 DEF t

WasSent(s, e, b)  == HasSent(s, e, pc[e], next, tx[e], b)
WasTaken(s, e, a) == HasTaken(s, e, pc[e], rx[e], a)

SendsNone(s, e)   == \A b \in Nat : WasSent(s, e, b) => WasSent(s, e, b)'
SendsOne(s, e, r) == \A b \in Nat : WasSent(s, e, b) => WasSent(s, e, b + 1)' /\ IsNth(s, e, r, b + 1)
TakesNone(s, e)   == \A a \in Nat : WasTaken(s, e, a) => WasTaken(s, e, a)'
TakesOne(s, e, r) == \A a \in Nat : WasTaken(s, e, a) /\ IsNth(s, Peer(e), r, a + 1) => WasTaken(s, e, a + 1)'

LEMMA LaneStill ==
  ASSUME NEW s, NEW e \in Ends, Lane(s, e), Pipe(e)' = Pipe(e), SendsNone(s, e), TakesNone(s, Peer(e)),
         pc'[Peer(e)] # "closed" => pc[Peer(e)] # "closed"
  PROVE  Lane(s, e)'
<1> SUFFICES ASSUME pc'[Peer(e)] # "closed" PROVE Lane(s, e)'
  BY DEF Lane
<1>1. PICK a \in Nat, b \in Nat : Lined(s, e, Pipe(e), a, b) /\ WasSent(s, e, b) /\ WasTaken(s, Peer(e), a)
  BY DEF Lane, WasSent, WasTaken
<1>2. Lined(s, e, Pipe(e)', a, b) /\ WasSent(s, e, b)' /\ WasTaken(s, Peer(e), a)'
  BY <1>1 DEF SendsNone, TakesNone
<1>3. QED
  BY <1>2 DEF Lane, WasSent, WasTaken

LEMMA LanePut ==
  ASSUME WireShaped, NEW s, NEW e \in Ends, Lane(s, e), NEW r, Pipe(e)' = Pipe(e) \o Cells(r),
         SendsOne(s, e, r), TakesNone(s, Peer(e)), pc'[Peer(e)] # "closed" => pc[Peer(e)] # "closed"
  PROVE  Lane(s, e)'
<1> SUFFICES ASSUME pc'[Peer(e)] # "closed" PROVE Lane(s, e)'
  BY DEF Lane
<1>1. PICK a \in Nat, b \in Nat : Lined(s, e, Pipe(e), a, b) /\ WasSent(s, e, b) /\ WasTaken(s, Peer(e), a)
  BY DEF Lane, WasSent, WasTaken
<1>2. WasSent(s, e, b + 1)' /\ IsNth(s, e, r, b + 1) /\ WasTaken(s, Peer(e), a)' /\ b + 1 \in Nat
  BY <1>1 DEF SendsOne, TakesNone
<1>3. Lined(s, e, Pipe(e)', a, b + 1)
  <2> DEFINE q == Pipe(e)
  <2>1. IsSeq(q) /\ Lined(s, e, q, a, b)
    BY <1>1, PipeIsSeq
  <2> HIDE DEF q
  <2>2. Lined(s, e, q \o Cells(r), a, b + 1)
    BY <1>2, <2>1, LinedMore
  <2>3. QED
    BY <2>2 DEF q
<1>4. QED
  BY <1>2, <1>3 DEF Lane, WasSent, WasTaken

LEMMA LaneTake ==
  ASSUME WireShaped, NEW s, NEW e \in Ends, Lane(s, e), TakesUpTo(e, 2),
         SendsNone(s, e), TakesOne(s, Peer(e), Pipe(e)[1].of), pc'[Peer(e)] # "closed" => pc[Peer(e)] # "closed"
  PROVE  Lane(s, e)'
<1> SUFFICES ASSUME pc'[Peer(e)] # "closed" PROVE Lane(s, e)'
  BY DEF Lane
<1>0. Peer(Peer(e)) = e
  BY PeerIs
<1>1. PICK a \in Nat, b \in Nat : Lined(s, e, Pipe(e), a, b) /\ WasSent(s, e, b) /\ WasTaken(s, Peer(e), a)
  BY DEF Lane, WasSent, WasTaken
<1>2. IsNth(s, e, Pipe(e)[1].of, a + 1) /\ Lined(s, e, Pipe(e)', a + 1, b)
  <2> DEFINE q == Pipe(e)
  <2>1. IsSeq(q) /\ Lined(s, e, q, a, b) /\ 2 \in 0 .. Len(q)
    BY <1>1, PipeIsSeq DEF TakesUpTo
  <2>2. Pipe(e)' = SubSeq(q, 3, Len(q))
    <3>1. Pipe(e)' = SubSeq(q, 2 + 1, Len(q)) /\ 2 + 1 = 3
      BY DEF TakesUpTo
    <3>2. QED
      BY <3>1
  <2> HIDE DEF q
  <2>3. IsNth(s, e, q[1].of, a + 1) /\ Lined(s, e, SubSeq(q, 3, Len(q)), a + 1, b)
    BY <2>1, LinedLess
  <2>4. QED
    BY <2>2, <2>3 DEF q
<1>3. WasSent(s, e, b)' /\ WasTaken(s, Peer(e), a + 1)' /\ a + 1 \in Nat
  BY <1>0, <1>1, <1>2 DEF SendsNone, TakesOne
<1>4. QED
  BY <1>2, <1>3 DEF Lane, WasSent, WasTaken

-----------------------------------------------------------------------------
(* Without faults: what lies in front of an end that waits                 *)

LEMMA LaneFront ==
  ASSUME WireShaped, NEW s, NEW e \in Ends, Lane(s, Peer(e)), pc[e] # "closed", HasRecord(buf[e])
  PROVE  \E a, b \in Nat : /\ WasTaken(s, e, a) /\ WasSent(s, Peer(e), b) /\ a + 1 <= b
                           /\ Whole(buf[e]) /\ IsNth(s, Peer(e), Under(buf[e]), a + 1)
<1> DEFINE f == Peer(e)
           p == buf[e]
           c == chan[e]
           q == Pipe(f)
<1>1. f \in Ends /\ Peer(f) = e
  BY PeerIs
<1>2. PICK a \in Nat, b \in Nat : Lined(s, f, q, a, b) /\ WasSent(s, f, b) /\ WasTaken(s, e, a)
  BY <1>1 DEF Lane, WasSent, WasTaken
<1>3. IsSeq(p) /\ IsSeq(c) /\ Len(p) \in Nat /\ Len(p) >= 2 /\ Len(c) \in Nat /\ q = p \o c
  BY <1>1, SeqBasics DEF WireShaped, HasRecord, Pipe
<1> HIDE DEF p, c, q
<1>4. IsSeq(q) /\ Len(q) = Len(p) + Len(c) /\ \A i \in 1 .. Len(p) : q[i] = p[i]
  <2>1. IsSeq(p) /\ IsSeq(c)
    BY <1>3
  <2>2. QED
    BY <1>3, <2>1, SeqCat
<1>5. 2 \in 0 .. Len(q) /\ 1 \in 1 .. Len(p) /\ 2 \in 1 .. Len(p)
  BY <1>3, <1>4
<1>6. q[1].part = "head" /\ q[2].part = "body" /\ IsNth(s, f, q[1].of, a + 1) /\ a + 1 <= b
  BY <1>2, <1>4, <1>5, LinedLess
<1>7. q[1] = p[1] /\ q[2] = p[2]
  BY <1>4, <1>5
<1>8. Whole(buf[e]) /\ IsNth(s, f, Under(buf[e]), a + 1)
  BY <1>6, <1>7 DEF Whole, Under, p
<1>9. QED
  BY <1>2, <1>6, <1>8

LEMMA LaneDry ==
  ASSUME WireShaped, NEW s, NEW e \in Ends, Lane(s, Peer(e)), pc[e] # "closed", Dry(e)
  PROVE  \E a \in Nat : WasTaken(s, e, a) /\ WasSent(s, Peer(e), a)
<1> DEFINE f == Peer(e)
           p == buf[e]
           q == Pipe(f)
<1>1. f \in Ends /\ Peer(f) = e
  BY PeerIs
<1>2. PICK a \in Nat, b \in Nat : Lined(s, f, q, a, b) /\ WasSent(s, f, b) /\ WasTaken(s, e, a)
  BY <1>1 DEF Lane, WasSent, WasTaken
<1>3. IsSeq(p) /\ Len(p) \in Nat /\ ~(Len(p) >= 2) /\ q = p \o <<>>
  BY <1>1, SeqBasics DEF WireShaped, HasRecord, Dry, Pipe
<1>4. q = p
  BY <1>3, ConcatEmptySeq DEF IsSeq
<1>5. Len(q) = 2 * (b - a) /\ a <= b
  BY <1>2 DEF Lined
<1> HIDE DEF p, q
<1>6. a = b
  BY <1>3, <1>4, <1>5
<1>7. QED
  BY <1>2, <1>6

(* The client waits only while the flight is not over.                     *)
LEMMA FlightGoesOn ==
  ASSUME NEW s \in Servers, InFlightOf(s), ~seen.finished, Len(pieces) < 2
  PROVE  rx["client"].seq \in Nat /\ rx["client"].seq < Len(s.upto)
<1> DEFINE n == rx["client"].seq
           M == Len(s.messages)
           N == Len(s.upto)
<1>1. PICK k \in 0 .. M : Grasped(s, k)
  BY DEF InFlightOf
<1>2. n \in 0 .. N /\ N \in Nat /\ M \in Nat /\ k # M /\ pieces = Notes(s, 2 * k, Part(s, n)) /\ 2 * k <= Part(s, n)
  BY <1>1, FlightIs DEF InFlightOf, Grasped
<1>3. n # N
  <2> SUFFICES ASSUME n = N PROVE FALSE
    OBVIOUS
  <2>1. Part(s, n) = 2 * M
    BY PartIs
  <2>2. PICK a \in Nat : a = 2 * k
    BY <1>2
  <2>3. PICK b \in Nat : b = 2 * M
    BY <1>2
  <2>4. a <= b /\ pieces = Notes(s, a, b)
    BY <1>2, <2>1, <2>2, <2>3
  <2>5. Len(Notes(s, a, b)) = b - a
    BY <2>4, NotesAre
  <2> HIDE DEF n, M, N
  <2>6. b - a < 2
    BY <2>4, <2>5
  <2>7. QED
    BY <1>2, <2>2, <2>3, <2>6
<1>4. QED
  BY <1>2, <1>3

LEMMA AwaitsNext ==
  ASSUME NEW s \in Servers, NEW e \in Ends, At(s, e), Awaits(e), pc[e] \in Shaking => IsKey(rx[e]),
         NEW a \in Nat, WasTaken(s, e, a)
  PROVE  /\ a + 1 <= Openings(s, Peer(e))
         /\ \A r : r = Opening(s, Peer(e), a + 1) =>
              \/ r.type = "ccs" /\ e = "client" /\ pc[e] = "flight" /\ rx[e].seq = 0 /\ a = 1
              \/ pc[e] = "hello" /\ r.type = "handshake" /\ (e = "client" => r.content.over \in Offered)
              \/ pc[e] # "hello" /\ r.type = "data" /\ r.key = rx[e].key /\ r.seq = rx[e].seq
<1>1. s.suite \in Offered /\ Len(s.upto) \in Nat \ {0} /\ Openings(s, "server") = Len(s.upto) + 2
      /\ Openings(s, "client") = IF Asking(s) THEN 3 ELSE 2
  BY FlightIs
<1>2. CASE e = "client" /\ pc[e] = "hello"
  <2>1. a = 0 /\ Peer(e) = "server"
    BY <1>2, PeerIs DEF WasTaken, HasTaken
  <2>2. Opening(s, "server", 1) = Plain("handshake", Message("SH", s.suite))
    BY OpeningsAre
  <2>3. /\ Opening(s, "server", 1).type = "handshake"
        /\ Opening(s, "server", 1).content.over = s.suite
    BY <2>2, PlainIs, MessageIs
  <2>4. a + 1 = 1 /\ a + 1 <= Len(s.upto) + 2
    BY <1>1, <2>1
  <2>5. QED
    BY <1>1, <1>2, <2>1, <2>3, <2>4
<1>3. CASE e = "client" /\ pc[e] = "flight"
  <2>1. InFlightOf(s) /\ ~seen.finished /\ Len(pieces) < 2 /\ Peer(e) = "server"
    BY <1>3, PeerIs DEF At, ClientAt, Awaits
  <2>2. PICK n \in Nat : n = rx[e].seq /\ n < Len(s.upto)
    BY <1>3, <2>1, FlightGoesOn
  <2>3. a = n + 2 \/ (n = 0 /\ a = 1)
    BY <1>3, <2>2 DEF WasTaken, HasTaken
  <2>4. rx[e].key = HsKey(s, "server")
    BY <1>3, <2>1 DEF InFlightOf
  <2>5. CASE a = n + 2
    <3>1. a + 1 = n + 3 /\ a + 1 <= Len(s.upto) + 2
      BY <1>1, <2>2, <2>5
    <3>2. Opening(s, "server", n + 3) = HsRecord(s, "server", n, Notes(s, Part(s, n), Part(s, n + 1)))
      BY OpeningsAre
    <3>3. /\ Opening(s, "server", n + 3).type = "data" /\ Opening(s, "server", n + 3).key = HsKey(s, "server")
          /\ Opening(s, "server", n + 3).seq = n
      BY <3>2, SealIs DEF HsRecord
    <3>4. QED
      BY <1>1, <1>3, <2>1, <2>2, <2>4, <3>1, <3>3
  <2>6. CASE n = 0 /\ a = 1
    <3>1. Opening(s, "server", 2) = Plain("ccs", None)
      BY OpeningsAre
    <3>2. Opening(s, "server", 2).type = "ccs"
      BY <3>1, PlainIs
    <3>3. a + 1 = 2 /\ a + 1 <= Len(s.upto) + 2
      BY <1>1, <2>6
    <3>4. QED
      BY <1>1, <1>3, <2>1, <2>2, <2>6, <3>2, <3>3
  <2>7. QED
    BY <2>3, <2>5, <2>6
<1>4. CASE e = "server" /\ pc[e] = "hello"
  <2>1. a = 0 /\ Peer(e) = "client"
    BY <1>4, PeerIs DEF WasTaken, HasTaken
  <2>2. Opening(s, "client", 1) = Plain("handshake", Message("CH", Offered))
    BY OpeningsAre
  <2>3. Opening(s, "client", 1).type = "handshake"
    BY <2>2, PlainIs
  <2>4. a + 1 = 1 /\ a + 1 <= Openings(s, "client")
    BY <1>1, <2>1
  <2>5. QED
    BY <1>4, <2>1, <2>3, <2>4
<1>5. CASE e = "server" /\ pc[e] = "finished"
  <2>1. Waiting(s) /\ Peer(e) = "client"
    BY <1>5, PeerIs DEF At, ServerAt
  <2>2. IsKey(rx[e])
    BY <1>5 DEF Shaking
  <2>3. PICK n \in Nat : n = rx[e].seq
    BY <2>2 DEF IsKey
  <2>4. rx[e].key = HsKey(s, "client") /\ (n = 0 \/ (Asking(s) /\ n = 1)) /\ a = n + 1
    BY <1>5, <2>1, <2>3 DEF Waiting, WasTaken, HasTaken
  <2>5. a + 1 = n + 2 /\ n + 2 <= Openings(s, "client")
    BY <1>1, <2>4
  <2>6. \E c : Opening(s, "client", n + 2) = HsRecord(s, "client", n, c)
    <3>1. CASE n + 2 = Openings(s, "client")
      BY <3>1, OpeningsAre
    <3>2. CASE n + 2 # Openings(s, "client")
      <4>1. Asking(s) /\ n = 0
        BY <1>1, <2>4, <3>2
      <4>2. Opening(s, "client", 2) = HsRecord(s, "client", 0, Halves(Message("Cert", <<>>)))
        BY <4>1, OpeningsAre
      <4>3. n + 2 = 2
        BY <4>1
      <4>4. QED
        BY <4>1, <4>2, <4>3
    <3>3. QED
      BY <3>1, <3>2
  <2>7. /\ Opening(s, "client", n + 2).type = "data" /\ Opening(s, "client", n + 2).key = HsKey(s, "client")
        /\ Opening(s, "client", n + 2).seq = n
    BY <2>6, SealIs DEF HsRecord
  <2>8. QED
    BY <1>5, <2>1, <2>3, <2>4, <2>5, <2>7
<1>6. QED
  BY <1>2, <1>3, <1>4, <1>5 DEF Awaits, At, ClientAt, ServerAt, ClientPlaces, ServerPlaces, Live, Ends

LEMMA IdleTells ==
  ASSUME NEW s, NEW e \in Ends, At(s, e), Same(e)
  PROVE  SendsNone(s, e) /\ TakesNone(s, e)
<1>1. pc'[e] = pc[e] /\ tx'[e] = tx[e] /\ rx'[e] = rx[e] /\ (e = "server" => next' = next)
  BY DEF Same
<1>2. TakesNone(s, e)
  BY <1>1 DEF TakesNone, WasTaken
<1>3. CASE e = "server"
  BY <1>1, <1>2, <1>3 DEF SendsNone, WasSent
<1>4. CASE e = "client"
  <2>1. pc[e] # "send"
    BY <1>4 DEF At, ClientAt, ClientPlaces, Live
  <2>2. ASSUME NEW b \in Nat, WasSent(s, e, b) PROVE WasSent(s, e, b)'
    BY <1>1, <2>1, <2>2 DEF WasSent, HasSent
  <2>3. QED
    BY <1>2, <2>2 DEF SendsNone
<1>5. QED
  BY <1>3, <1>4 DEF Ends

(* An end that is settled has sent its handshake, and only such a client.  *)
LEMMA SettledHasSent ==
  ASSUME NEW s \in Servers, NEW e \in Ends, At(s, e), pc[e] \in Live => IsKey(tx[e]), NEW b \in Nat, WasSent(s, e, b)
  PROVE  /\ pc[e] \in Settled => b >= Openings(s, e)
         /\ e = "client" /\ pc[e] # "failed" /\ b >= Openings(s, e) => pc[e] \in Settled
<1>1. Openings(s, e) \in Nat \ {0, 1} /\ Openings(s, "client") = IF Asking(s) THEN 3 ELSE 2
  BY FlightIs
<1>2. CASE pc[e] \in Live
  <2>1. b = Openings(s, e) + tx[e].seq /\ tx[e].seq \in Nat
    BY <1>2 DEF WasSent, HasSent, IsKey
  <2>2. QED
    BY <1>1, <1>2, <2>1 DEF Settled
<1>3. CASE pc[e] = "closed"
  BY <1>3 DEF WasSent, HasSent, Settled
<1>4. CASE pc[e] \notin Live /\ pc[e] # "closed"
  <2>1. pc[e] \notin Settled
    BY <1>4 DEF Settled
  <2>2. e = "client" /\ pc[e] # "failed" => ~(b >= Openings(s, e))
    <3> SUFFICES ASSUME e = "client", pc[e] # "failed" PROVE ~(b >= Openings(s, e))
      OBVIOUS
    <3>1. pc[e] \in {"start", "hello", "flight", "declined"}
      BY <1>4 DEF At, ClientAt, ClientPlaces
    <3>2. pc[e] = "declined" => Asking(s)
      BY DEF At, ClientAt
    <3>3. \/ b = 0 \/ b = 1
          \/ b = 2 /\ pc[e] = "declined"
      BY <3>1 DEF WasSent, HasSent
    <3>4. QED
      BY <1>1, <3>2, <3>3
  <2>3. QED
    BY <2>1, <2>2
<1>5. QED
  BY <1>2, <1>3, <1>4

(* A step of a handshake that sends nothing, sends r, or takes a record.   *)
Onward(s, e, r) ==
  \/ Steady(e) /\ SendsNone(s, e) /\ TakesNone(s, e)
  \/ Puts2(e, r) /\ SendsOne(s, e, r) /\ TakesNone(s, e)
  \/ Takes2(e) /\ SendsNone(s, e) /\ TakesOne(s, e, Pipe(Peer(e))[1].of)

LEMMA LanesGoOn ==
  ASSUME WireShaped, NEW s, NEW e \in Ends, Lane(s, e), Lane(s, Peer(e)), At(s, Peer(e)), Same(Peer(e)),
         NEW r, Onward(s, e, r), pc'[e] # "closed" => pc[e] # "closed"
  PROVE  \A d \in Ends : Lane(s, d)'
<1> DEFINE f == Peer(e)
<1>1. f \in Ends /\ Peer(f) = e /\ \A d \in Ends : d = e \/ d = f
  BY PeerIs
<1>2. SendsNone(s, f) /\ TakesNone(s, f) /\ pc'[f] = pc[f]
  BY <1>1, IdleTells DEF Same
<1>3. CASE Steady(e) /\ SendsNone(s, e) /\ TakesNone(s, e)
  <2>1. Lane(s, e)'
    BY <1>2, <1>3, LaneStill DEF Steady
  <2>2. Lane(s, f)'
    BY <1>1, <1>2, <1>3, LaneStill DEF Steady
  <2>3. QED
    BY <1>1, <2>1, <2>2
<1>4. CASE Puts2(e, r) /\ SendsOne(s, e, r) /\ TakesNone(s, e)
  <2>1. Lane(s, e)'
    BY <1>2, <1>4, LanePut DEF Puts2
  <2>2. Lane(s, f)'
    BY <1>1, <1>2, <1>4, LaneStill DEF Puts2
  <2>3. QED
    BY <1>1, <2>1, <2>2
<1>5. CASE Takes2(e) /\ SendsNone(s, e) /\ TakesOne(s, e, Pipe(f)[1].of)
  <2>1. Lane(s, e)'
    BY <1>2, <1>5, LaneStill DEF Takes2
  <2>2. Lane(s, f)'
    BY <1>1, <1>2, <1>5, LaneTake DEF Takes2
  <2>3. QED
    BY <1>1, <2>1, <2>2
<1>6. QED
  BY <1>3, <1>4, <1>5 DEF Onward

LEMMA HsStays ==
  ASSUME WireShaped, NEW s, NEW e \in Ends, Lockstep(s), At(s, Peer(e)), Same(Peer(e)),
         pc[e] \notin Settled, pc'[e] \notin {"failed", "closed"}, down' = down, ended' = ended,
         e = "server" /\ pc'[e] \in Settled => pc["client"] \in Settled,
         NEW r, Onward(s, e, r)
  PROVE  Lockstep(s)'
<1>1. /\ Peer(e) \in Ends /\ Peer(e) # e /\ (\A d \in Ends : d = e \/ d = Peer(e))
      /\ Peer("client") = "server" /\ Peer("server") = "client" /\ "client" \in Ends /\ "server" \in Ends
  BY PeerIs
<1>2. \A d \in Ends : Lane(s, d)'
  <2>1. Lane(s, e) /\ Lane(s, Peer(e)) /\ pc[e] # "closed"
    BY <1>1 DEF Lockstep, Settled
  <2>2. QED
    BY <2>1, LanesGoOn
<1>3. Unhurt /\ pc'[Peer(e)] = pc[Peer(e)]
  BY DEF Lockstep, Same
<1>4. ~down[e]
  BY <1>3 DEF Unhurt
<1>5. \A d \in Ends : pc'[d] # "failed" /\ (down'[d] => pc'[d] \in Settled) /\ ended'[d] # "auth"
  BY <1>1, <1>3, <1>4 DEF Unhurt
<1>6. pc'["server"] \in Settled => pc'["client"] \in Settled
  <2>1. CASE e = "client"
    BY <1>1, <1>3, <2>1 DEF Unhurt
  <2>2. CASE e = "server"
    BY <1>1, <1>3, <2>2
  <2>3. QED
    BY <2>1, <2>2 DEF Ends
<1>7. QED
  BY <1>2, <1>5, <1>6 DEF Lockstep, Unhurt

(* Nothing that an end waits for fails to come, or is not what it awaits.  *)
LEMMA NothingToGiveUp ==
  ASSUME SInv, NEW s \in Servers, NEW e \in Ends, Lockstep(s), At(s, e), At(s, Peer(e)), Awaits(e)
  PROVE  /\ ~Ended(e)
         /\ HasRecord(buf[e]) => \/ Awaited(e)
                                 \/ Under(buf[e]).type = "ccs" /\ e = "client" /\ pc[e] = "flight" /\ rx[e].seq = 0
<1> DEFINE f == Peer(e)
<1>1. /\ WireShaped /\ f \in Ends /\ Lane(s, f) /\ Unhurt
  BY PeerIs, Domains DEF Lockstep
<1>2. /\ pc[e] \notin Settled /\ pc[e] # "closed"
  BY DEF Awaits, Settled, Live
<1>3. pc[e] \in Shaking => IsKey(rx[e])
  BY DEF SInv, Phased
<1>4. ~Ended(e)
  <2> SUFFICES ASSUME Ended(e) PROVE FALSE
    OBVIOUS
  <2>1. Dry(e) /\ pc[f] \in Settled
    BY <1>1, <1>2 DEF Ended, Unhurt
  <2>2. PICK a \in Nat : WasTaken(s, e, a) /\ WasSent(s, f, a)
    BY <1>1, <1>2, <2>1, LaneDry
  <2>3. pc[f] \in Live => IsKey(tx[f])
    BY <1>1 DEF SInv, Phased
  <2>4. a >= Openings(s, f)
    BY <1>1, <2>1, <2>2, <2>3, SettledHasSent
  <2>5. a + 1 <= Openings(s, f) /\ Openings(s, f) \in Nat
    BY <1>3, <2>2, AwaitsNext, FlightIs
  <2> HIDE DEF f
  <2>6. QED
    BY <2>4, <2>5
<1>5. ASSUME HasRecord(buf[e])
      PROVE  \/ Awaited(e)
             \/ Under(buf[e]).type = "ccs" /\ e = "client" /\ pc[e] = "flight" /\ rx[e].seq = 0
  <2>1. PICK a \in Nat : WasTaken(s, e, a) /\ Whole(buf[e]) /\ IsNth(s, f, Under(buf[e]), a + 1)
    BY <1>1, <1>2, <1>5, LaneFront
  <2> DEFINE r == Under(buf[e])
  <2>2. a + 1 <= Openings(s, f)
    BY <1>3, <2>1, AwaitsNext
  <2>3. r = Opening(s, f, a + 1)
    BY <2>1, <2>2 DEF IsNth
  <2>4. \/ r.type = "ccs" /\ e = "client" /\ pc[e] = "flight" /\ rx[e].seq = 0
        \/ pc[e] = "hello" /\ r.type = "handshake" /\ (e = "client" => r.content.over \in Offered)
        \/ pc[e] # "hello" /\ r.type = "data" /\ r.key = rx[e].key /\ r.seq = rx[e].seq
    <3> HIDE DEF r
    <3>1. QED
      BY <1>3, <2>1, <2>3, AwaitsNext
  <2>5. QED
    BY <2>1, <2>4 DEF Awaited, Opens
<1>6. QED
  BY <1>4, <1>5

-----------------------------------------------------------------------------
(* The steps of the handshakes keep the invariant                          *)

(* A step of the handshake of e.                                           *)
Apart(e) == Same(Peer(e)) /\ server' = server /\ mutex' = mutex /\ ended' = ended /\ Noted'

Entered(e) == pc'[e] \notin {"failed", "closed"} /\ (e = "server" /\ pc'[e] \in Settled => pc["client"] \in Settled)

InOrder(s) == Lockstep(s) /\ Proven(s) /\ ~faulty

Goes(s, e, r) == InOrder(s) /\ SendAll(e, r) => SendsOne(s, e, r) /\ TakesNone(s, e) /\ Entered(e)
Comes(s, e)   == InOrder(s) => SendsNone(s, e) /\ TakesOne(s, e, Under(buf[e])) /\ Entered(e)
Waits(s, e)   == InOrder(s) => SendsNone(s, e) /\ TakesNone(s, e) /\ Entered(e)

LEMMA StepHolds ==
  ASSUME NEW s, Holds(s), NEW e \in Ends, Same(Peer(e)), server' = server, Noted', Owned',
         Roomy', Laden(s)', At(s, e)', InOrder(s) /\ ~faulty' => Lockstep(s)', faulty => faulty',
         DOMAIN down' = DOMAIN down
  PROVE  Holds(s)'
<1>1. /\ Peer(e) \in Ends /\ Peer(e) # e /\ \A d \in Ends : d = e \/ d = Peer(e)
  BY PeerIs
<1>2. At(s, Peer(e))'
  <2>1. At(s, Peer(e)) /\ Same(Peer(e))
    BY <1>1 DEF Holds, Local, At
  <2>2. QED
    BY <1>1, <2>1, AtSame
<1>3. ClientAt(s)' /\ ServerAt(s)'
  <2>1. At(s, "client")' /\ At(s, "server")'
    BY <1>1, <1>2, PeerIs
  <2>2. QED
    BY <2>1 DEF At
<1>4. Local(s)'
  BY <1>3 DEF Local
<1>5. ~faulty' /\ Proven(s) => Lockstep(s)'
  BY DEF Holds, InOrder
<1>6. QED
  BY <1>4, <1>5 DEF Holds

LEMMA HsStep ==
  ASSUME NEW s, Holds(s), NEW e \in Ends, pc[e] \in Young, Apart(e),
         Roomy', Laden(s)', At(s, e)', InOrder(s) /\ ~faulty' => Lockstep(s)', faulty => faulty',
         DOMAIN down' = DOMAIN down
  PROVE  Holds(s)'
<1>1. /\ Peer(e) \in Ends /\ Peer(e) # e /\ (\A d \in Ends : d = e \/ d = Peer(e)) /\ pc[e] # "closing"
  BY PeerIs DEF Young, Shaking
<1>2. Owned'
  BY <1>1 DEF Holds, Owned, Same, Apart
<1>3. Same(Peer(e)) /\ server' = server /\ Noted'
  BY DEF Apart
<1>4. QED
  BY <1>2, <1>3, StepHolds

LEMMA HoldsGives ==
  ASSUME SInv, NEW s \in Servers, Holds(s)
  PROVE  /\ Stands(s) /\ WireShaped /\ Noted /\ server = s
         /\ \A e \in Ends : At(s, e)
         /\ \A e \in Ends : pc[e] \in Shaking \cup Live => IsKey(tx[e]) /\ IsKey(rx[e])
         /\ Peer("client") = "server" /\ Peer("server") = "client" /\ "client" \in Ends /\ "server" \in Ends
BY Domains, PeerIs DEF Holds, Stands, Local, At, Ends, SInv, Phased

LEMMA HsLockstep ==
  ASSUME SInv, NEW s \in Servers, Holds(s), NEW e \in Ends, pc[e] \in Young, Apart(e), InOrder(s), Entered(e),
         down' = down, NEW r, Onward(s, e, r)
  PROVE  Lockstep(s)'
<1>1. Peer(e) \in Ends
  BY PeerIs
<1>2. At(s, Peer(e))
  BY <1>1, HoldsGives
<1>3. /\ WireShaped /\ Lockstep(s) /\ Same(Peer(e)) /\ pc[e] \notin Settled /\ pc'[e] \notin {"failed", "closed"}
      /\ ended' = ended /\ (e = "server" /\ pc'[e] \in Settled => pc["client"] \in Settled)
  BY Domains DEF Apart, InOrder, Entered, Young, Shaking, Settled, Live
<1>4. /\ WireShaped /\ Lockstep(s) /\ At(s, Peer(e)) /\ Same(Peer(e)) /\ pc[e] \notin Settled
      /\ pc'[e] \notin {"failed", "closed"} /\ down' = down /\ ended' = ended
      /\ e = "server" /\ pc'[e] \in Settled => pc["client"] \in Settled
      /\ Onward(s, e, r)
  BY <1>2, <1>3
<1>5. QED
  BY <1>4, HsStays

LEMMA HsSends ==
  ASSUME SInv, NEW s \in Servers, Holds(s), NEW e \in Ends, pc[e] \in Young, Apart(e), At(s, e)',
         buf' = buf, NEW r, LoadOk(s, e, r), SendAll(e, r) \/ SendCut(e, r), Goes(s, e, r)
  PROVE  Holds(s)'
<1>1. Stands(s)
  BY HoldsGives
<1>2. /\ Roomy' /\ Laden(s)' /\ down' = down /\ (faulty => faulty')
      /\ ~faulty' => Puts2(e, r) /\ SendAll(e, r)
  BY <1>1, SendStands
<1>3. InOrder(s) /\ ~faulty' => Lockstep(s)'
  <2> SUFFICES ASSUME InOrder(s), ~faulty' PROVE Lockstep(s)'
    OBVIOUS
  <2>1. Puts2(e, r) /\ SendsOne(s, e, r) /\ TakesNone(s, e) /\ Entered(e)
    BY <1>2 DEF Goes
  <2>2. Onward(s, e, r)
    BY <2>1 DEF Onward
  <2>3. QED
    BY <1>2, <2>1, <2>2, HsLockstep
<1>4. QED
  BY <1>2, <1>3, HsStep

LEMMA HsTakes ==
  ASSUME SInv, NEW s \in Servers, Holds(s), NEW e \in Ends, pc[e] \in Young, Apart(e), At(s, e)',
         HasRecord(buf[e]), DropRecord(e), chan' = chan, down' = down, faulty' = faulty, Comes(s, e)
  PROVE  Holds(s)'
<1>1. Stands(s)
  BY HoldsGives
<1>2. /\ Roomy' /\ Laden(s)' /\ Takes2(e) /\ Pipe(Peer(e))[1].of = Under(buf[e])
  BY <1>1, DropStands DEF Under
<1>3. InOrder(s) => Lockstep(s)'
  <2> SUFFICES ASSUME InOrder(s) PROVE Lockstep(s)'
    OBVIOUS
  <2>1. SendsNone(s, e) /\ TakesOne(s, e, Pipe(Peer(e))[1].of) /\ Entered(e)
    BY <1>2 DEF Comes
  <2>2. PICK r : r = Pipe(Peer(e))[1].of
    OBVIOUS
  <2>3. Onward(s, e, r)
    BY <1>2, <2>1 DEF Onward
  <2>4. QED
    BY <2>1, <2>3, HsLockstep
<1>4. QED
  BY <1>2, <1>3, HsStep

LEMMA HsRests ==
  ASSUME SInv, NEW s \in Servers, Holds(s), NEW e \in Ends, pc[e] \in Young, Apart(e), At(s, e)',
         chan' = chan, buf' = buf, down' = down, faulty' = faulty, Waits(s, e)
  PROVE  Holds(s)'
<1>1. Stands(s)
  BY HoldsGives
<1>2. Roomy' /\ Laden(s)' /\ Steady(e)
  BY <1>1, StillStands
<1>3. InOrder(s) => Lockstep(s)'
  <2> SUFFICES ASSUME InOrder(s) PROVE Lockstep(s)'
    OBVIOUS
  <2>1. SendsNone(s, e) /\ TakesNone(s, e) /\ Entered(e)
    BY DEF Waits
  <2>2. Onward(s, e, s)
    BY <1>2, <2>1 DEF Onward
  <2>3. QED
    BY <2>1, <2>2, HsLockstep
<1>4. QED
  BY <1>2, <1>3, HsStep

LEMMA OpeningIsNth ==
  ASSUME NEW s, NEW e, NEW i, i <= Openings(s, e)
  PROVE  /\ IsNth(s, e, Opening(s, e, i), i)
         /\ \A r : IsNth(s, e, r, i) => r = Opening(s, e, i)
BY DEF IsNth

LEMMA ClientHelloHolds ==
  ASSUME SInv, NEW s \in Servers, Holds(s), ClientHello
  PROVE  Holds(s)'
<1> DEFINE r == Opening(s, "client", 1)
<1>1. /\ WireShaped /\ Noted /\ At(s, "client") /\ Peer("client") = "server" /\ server = s
      /\ "client" \in Ends /\ "server" \in Ends
  BY HoldsGives
<1>2. Plain("handshake", Message("CH", Offered)) = r
  BY OpeningsAre
<1>3. /\ pc["client"] = "start" /\ server' = server /\ mutex' = mutex /\ seen' = seen /\ buf' = buf
      /\ \/ SendAll("client", r) /\ pc' = [pc EXCEPT !["client"] = "hello"]
         \/ SendCut("client", r) /\ pc' = [pc EXCEPT !["client"] = "failed"]
      /\ transcript' = transcript \/ transcript' = [transcript EXCEPT !["client"] = Append(@, "CH")]
      /\ tx' = tx /\ rx' = rx /\ secret' = secret /\ next' = next /\ pieces' = pieces /\ ended' = ended
  BY <1>2 DEF ClientHello, Goto, Log, keys, session
<1>4. Apart("client") /\ pc["client"] \in Young
  <2>1. pc'["server"] = pc["server"] /\ transcript'["server"] = transcript["server"]
    BY <1>1, <1>3, Domains
  <2>2. Same("server") /\ Noted'
    BY <1>1, <1>3, <2>1 DEF Same, Noted
  <2>3. QED
    BY <1>1, <1>3, <2>2 DEF Apart, Young
<1>5. 1 <= Openings(s, "client") /\ LoadOk(s, "client", r)
  <2>1. Openings(s, "client") \in Nat \ {0, 1}
    BY <1>1, FlightIs
  <2>2. PICK i \in 1 .. Openings(s, "client") : i = 1
    BY <2>1
  <2>3. LoadOk(s, "client", Opening(s, "client", i))
    BY <1>1, OpeningsLoad
  <2>4. QED
    BY <2>1, <2>2, <2>3
<1>6. At(s, "client")'
  BY <1>1, ClientHelloAt
<1>7. Goes(s, "client", r)
  <2> SUFFICES ASSUME SendAll("client", r), InOrder(s)
               PROVE  SendsOne(s, "client", r) /\ TakesNone(s, "client") /\ Entered("client")
    BY DEF Goes
  <2>1. pc'["client"] = "hello"
    <3>1. ~SendCut("client", r) \/ faulty'
      BY DEF SendCut
    <3>2. ~faulty'
      BY DEF SendAll, InOrder
    <3>3. QED
      BY <1>1, <1>3, <3>1, <3>2, Domains
  <2> HIDE DEF r
  <2>2. SendsOne(s, "client", r)
    <3> SUFFICES ASSUME NEW b \in Nat, WasSent(s, "client", b)
                 PROVE  WasSent(s, "client", b + 1)' /\ IsNth(s, "client", r, b + 1)
      BY DEF SendsOne
    <3>1. b = 0
      BY <1>3 DEF WasSent, HasSent
    <3>2. WasSent(s, "client", b + 1)'
      BY <2>1, <3>1 DEF WasSent, HasSent, Live
    <3>3. IsNth(s, "client", r, 1)
      BY <1>5, OpeningIsNth DEF r
    <3>4. QED
      BY <3>1, <3>2, <3>3
  <2>3. TakesNone(s, "client")
    BY <1>3, <2>1 DEF TakesNone, WasTaken, HasTaken, Live
  <2>4. Entered("client")
    BY <2>1 DEF Entered, Settled, Live
  <2>5. QED
    BY <2>2, <2>3, <2>4
<1> HIDE DEF r
<1>8. buf' = buf /\ (SendAll("client", r) \/ SendCut("client", r))
  BY <1>3
<1>9. QED
  BY <1>1, <1>4, <1>5, <1>6, <1>7, <1>8, HsSends

LEMMA TakeServerHelloHolds ==
  ASSUME SInv, NEW s \in Servers, Holds(s), TakeServerHello
  PROVE  Holds(s)'
<1> DEFINE u == Under(buf["client"])
<1>1. /\ Stands(s) /\ Noted /\ At(s, "client") /\ Peer("client") = "server"
      /\ "client" \in Ends /\ "server" \in Ends /\ server = s
  BY HoldsGives
<1>2. /\ pc["client"] = "hello" /\ server' = server /\ mutex' = mutex /\ seen' = seen
      /\ HasRecord(buf["client"]) /\ DropRecord("client") /\ chan' = chan /\ down' = down /\ faulty' = faulty
      /\ pc' = [pc EXCEPT !["client"] = "flight"]
      /\ transcript' = [transcript EXCEPT !["client"] = Append(@, "SH")]
      /\ \E k : tx' = [tx EXCEPT !["client"] = k]
      /\ rx' = [rx EXCEPT !["client"] = HandshakeKey("server", u.content.over, Append(transcript["client"], "SH"))]
      /\ secret' = secret /\ next' = next /\ pieces' = pieces /\ ended' = ended
  BY <1>1 DEF TakeServerHello, Arrived, Schedule, Goto, Log, wires, session
<1>3. pc'["client"] = "flight" /\ rx'["client"].seq = 0
  BY <1>1, <1>2, Domains, Labels
<1>4. Apart("client") /\ pc["client"] \in Young
  BY <1>1, <1>2, Domains DEF Same, Noted, Apart, Young
<1>5. LoadOk(s, "server", u)
  BY <1>1, <1>2, DropStands
<1>6. At(s, "client")'
  BY <1>1, <1>5, TakeServerHelloAt
<1> HIDE DEF u
<1>7. Comes(s, "client")
  <2>1. SendsNone(s, "client")
    BY <1>2, <1>3 DEF SendsNone, WasSent, HasSent, Live
  <2>2. TakesOne(s, "client", u)
    <3> SUFFICES ASSUME NEW a \in Nat, WasTaken(s, "client", a) PROVE WasTaken(s, "client", a + 1)'
      BY DEF TakesOne
    <3>1. a = 0
      BY <1>2 DEF WasTaken, HasTaken
    <3>2. a + 1 = 1
      BY <3>1
    <3>3. QED
      BY <1>3, <3>2 DEF WasTaken, HasTaken, Live
  <2>3. Entered("client")
    BY <1>3 DEF Entered
  <2>4. QED
    BY <2>1, <2>2, <2>3 DEF Comes, u
<1>8. QED
  BY <1>1, <1>2, <1>4, <1>6, <1>7, HsTakes

LEMMA TakeFlightHolds ==
  ASSUME SInv, NEW s \in Servers, Holds(s), TakeFlight
  PROVE  Holds(s)'
<1> DEFINE u == Under(buf["client"])
<1>1. /\ Stands(s) /\ Noted /\ At(s, "client") /\ Peer("client") = "server"
      /\ "client" \in Ends /\ "server" \in Ends /\ server = s
      /\ pc["client"] = "flight" => IsKey(rx["client"])
  BY HoldsGives DEF Shaking
<1>2. /\ pc["client"] = "flight" /\ server' = server /\ mutex' = mutex /\ seen' = seen
      /\ HasRecord(buf["client"]) /\ DropRecord("client") /\ chan' = chan /\ down' = down /\ faulty' = faulty
      /\ pc' = pc /\ transcript' = transcript /\ tx' = tx /\ rx' = [rx EXCEPT !["client"] = Advance(rx["client"])]
      /\ secret' = secret /\ next' = next /\ ended' = ended
  BY <1>1 DEF TakeFlight, Arrived, wires, session
<1>3. u.type = "data"
  BY <1>2 DEF TakeFlight, Arrived, Awaited
<1>4. rx'["client"].seq = rx["client"].seq + 1 /\ rx["client"].seq \in Nat
  <2>1. rx'["client"] = Advance(rx["client"]) /\ IsKey(rx["client"])
    BY <1>1, <1>2, Domains
  <2>2. QED
    BY <2>1, Advanced DEF IsKey
<1>5. Apart("client") /\ pc["client"] \in Young
  BY <1>1, <1>2, Domains DEF Same, Noted, Apart, Young, Shaking
<1>6. LoadOk(s, "server", u)
  BY <1>1, <1>2, DropStands
<1>7. At(s, "client")'
  BY <1>1, <1>6, TakeFlightAt
<1> HIDE DEF u
<1>8. Comes(s, "client")
  <2>1. SendsNone(s, "client")
    BY <1>2 DEF SendsNone, WasSent
  <2>2. TakesOne(s, "client", u)
    <3> SUFFICES ASSUME NEW a \in Nat, WasTaken(s, "client", a), IsNth(s, "server", u, a + 1)
                 PROVE  WasTaken(s, "client", a + 1)'
      BY <1>1 DEF TakesOne
    <3>1. a = rx["client"].seq + 2 \/ a = 1
      BY <1>2 DEF WasTaken, HasTaken
    <3>2. a # 1
      <4> SUFFICES ASSUME a = 1 PROVE FALSE
        OBVIOUS
      <4>1. a + 1 = 2 /\ 2 <= Openings(s, "server")
        <5>1. Openings(s, "server") \in Nat \ {0, 1}
          BY <1>1, FlightIs
        <5>2. QED
          BY <5>1
      <4>2. u = Opening(s, "server", 2)
        BY <4>1, OpeningIsNth
      <4>3. Opening(s, "server", 2) = Plain("ccs", None)
        BY <1>1, OpeningsAre
      <4>4. u.type = "ccs"
        BY <4>2, <4>3, PlainIs
      <4>5. QED
        BY <1>3, <4>4
    <3>3. a + 1 = rx'["client"].seq + 2
      BY <1>4, <3>1, <3>2
    <3>4. QED
      BY <1>2, <3>3 DEF WasTaken, HasTaken, Live
  <2>3. Entered("client")
    BY <1>2 DEF Entered
  <2>4. QED
    BY <2>1, <2>2, <2>3 DEF Comes, u
<1>9. QED
  BY <1>1, <1>2, <1>5, <1>7, <1>8, HsTakes

LEMMA TakeMessageHolds ==
  ASSUME SInv, NEW s \in Servers, Holds(s), TakeMessage
  PROVE  Holds(s)'
<1>1. /\ Noted /\ At(s, "client") /\ Peer("client") = "server" /\ server = s
      /\ "client" \in Ends /\ "server" \in Ends
  BY HoldsGives
<1>2. At(s, "client")' /\ Noted' /\ pc' = pc
  BY <1>1, TakeMessageAt
<1>3. /\ pc["client"] = "flight" /\ server' = server /\ mutex' = mutex /\ buf' = buf /\ chan' = chan
      /\ down' = down /\ faulty' = faulty /\ tx' = tx /\ rx' = rx /\ next' = next /\ ended' = ended
  BY DEF TakeMessage, wires, keys, session
<1>4. /\ transcript'["server"] = transcript["server"] /\ secret'["server"] = secret["server"]
  BY <1>1, Domains DEF TakeMessage
<1>5. Apart("client") /\ pc["client"] \in Young
  BY <1>1, <1>2, <1>3, <1>4 DEF Same, Apart, Young, Shaking
<1>6. Waits(s, "client")
  BY <1>2, <1>3 DEF Waits, SendsNone, TakesNone, WasSent, WasTaken, Entered
<1>7. QED
  BY <1>1, <1>2, <1>3, <1>5, <1>6, HsRests

(* Without faults a server that proves its identity is accepted.           *)
LEMMA RejectHolds ==
  ASSUME SInv, NEW s \in Servers, Holds(s), Reject
  PROVE  Holds(s)'
<1>1. /\ Noted /\ At(s, "client") /\ Peer("client") = "server" /\ server = s
      /\ "client" \in Ends /\ "server" \in Ends
  BY HoldsGives
<1>2. /\ pc["client"] = "flight" /\ seen.finished /\ ~Accepted /\ pc' = [pc EXCEPT !["client"] = "failed"]
      /\ server' = server /\ mutex' = mutex /\ buf' = buf /\ chan' = chan /\ seen' = seen /\ pieces' = pieces
      /\ down' = down /\ faulty' = faulty /\ tx' = tx /\ rx' = rx /\ next' = next /\ ended' = ended
      /\ transcript' = transcript /\ secret' = secret
  BY DEF Reject, FlightOver, Goto, wires, handshake, keys, session
<1>3. pc'["client"] = "failed" /\ pc'["server"] = pc["server"]
  BY <1>1, <1>2, Domains
<1>4. Apart("client") /\ pc["client"] \in Young
  BY <1>1, <1>2, <1>3 DEF Same, Apart, Noted, Young, Shaking
<1>5. At(s, "client")'
  BY <1>1, <1>3, AtGone
<1>6. ~Proven(s)
  <2>1. InFlightOf(s)
    BY <1>1, <1>2 DEF At, ClientAt
  <2>2. seen.proven <=> Named(s, Len(s.messages), "CV")
    BY <1>2, <2>1, FlightIsOver
  <2>3. QED
    BY <1>1, <1>2, <2>2 DEF Accepted, Proven
<1>7. Waits(s, "client")
  BY <1>6 DEF Waits, InOrder
<1>8. QED
  BY <1>1, <1>2, <1>4, <1>5, <1>7, HsRests

LEMMA DeclineHolds ==
  ASSUME SInv, NEW s \in Servers, Holds(s), Decline
  PROVE  Holds(s)'
<1> DEFINE r == Opening(s, "client", 2)
<1>1. /\ Noted /\ At(s, "client") /\ Peer("client") = "server" /\ server = s
      /\ "client" \in Ends /\ "server" \in Ends
  BY HoldsGives
<1>2. /\ At(s, "client")' /\ InFlightOf(s) /\ seen.finished /\ seen.asked
      /\ \/ SendAll("client", r) /\ pc'["client"] = "declined" /\ tx'["client"].seq = 1
         \/ SendCut("client", r) /\ pc'["client"] = "failed"
  BY <1>1, DeclineAt
<1>3. /\ pc["client"] = "flight" /\ server' = server /\ mutex' = mutex /\ buf' = buf /\ seen' = seen
      /\ pieces' = pieces /\ rx' = rx /\ next' = next /\ ended' = ended /\ secret' = secret
      /\ tx' = [tx EXCEPT !["client"] = Advance(@)]
      /\ \/ pc' = [pc EXCEPT !["client"] = "declined"] /\ transcript' = [transcript EXCEPT !["client"] = Reply(@)]
         \/ pc' = [pc EXCEPT !["client"] = "failed"] /\ transcript' = transcript
  BY DEF Decline, FlightOver, Goto, session
<1>4. Apart("client") /\ pc["client"] \in Young
  <2>1. /\ pc'["server"] = pc["server"] /\ transcript'["server"] = transcript["server"]
        /\ tx'["server"] = tx["server"]
    BY <1>1, <1>3, Domains
  <2>2. Same("server") /\ Noted'
    BY <1>1, <1>3, <2>1 DEF Same, Noted
  <2>3. QED
    BY <1>1, <1>3, <2>2 DEF Apart, Young, Shaking
<1>5. 2 \in 1 .. Openings(s, "client") /\ LoadOk(s, "client", r)
  <2>1. 2 \in 1 .. Openings(s, "client")
    BY <1>2, DeclineRecord
  <2>2. PICK i \in 1 .. Openings(s, "client") : i = 2
    BY <2>1
  <2>3. LoadOk(s, "client", Opening(s, "client", i))
    BY <1>1, OpeningsLoad
  <2>4. QED
    BY <2>1, <2>2, <2>3
<1>6. SendAll("client", r) \/ SendCut("client", r)
  BY <1>2
<1>7. Goes(s, "client", r)
  <2> SUFFICES ASSUME SendAll("client", r), InOrder(s)
               PROVE  SendsOne(s, "client", r) /\ TakesNone(s, "client") /\ Entered("client")
    BY DEF Goes
  <2>1. pc'["client"] = "declined"
    <3>1. ~SendCut("client", r) \/ faulty'
      BY DEF SendCut
    <3>2. ~faulty'
      BY DEF SendAll, InOrder
    <3>3. QED
      BY <1>2, <3>1, <3>2
  <2> HIDE DEF r
  <2>2. SendsOne(s, "client", r)
    <3> SUFFICES ASSUME NEW b \in Nat, WasSent(s, "client", b)
                 PROVE  WasSent(s, "client", b + 1)' /\ IsNth(s, "client", r, b + 1)
      BY DEF SendsOne
    <3>1. b = 1 /\ b + 1 = 2
      BY <1>3 DEF WasSent, HasSent
    <3>2. WasSent(s, "client", b + 1)'
      BY <2>1, <3>1 DEF WasSent, HasSent, Live
    <3>3. 2 <= Openings(s, "client")
      BY <1>5
    <3>4. IsNth(s, "client", r, 2)
      BY <3>3, OpeningIsNth DEF r
    <3>5. QED
      BY <3>1, <3>2, <3>4
  <2>3. TakesNone(s, "client")
    <3> SUFFICES ASSUME NEW a \in Nat, WasTaken(s, "client", a) PROVE WasTaken(s, "client", a)'
      BY DEF TakesNone
    <3>1. rx["client"].seq = Len(s.upto) /\ Len(s.upto) \in Nat \ {0} /\ Openings(s, "server") = Len(s.upto) + 2
      BY <1>2, FlightIsOver, FlightIs
    <3>2. a = Openings(s, "server")
      BY <1>3, <3>1 DEF WasTaken, HasTaken
    <3>3. QED
      BY <1>1, <2>1, <3>2 DEF WasTaken, HasTaken, Live
  <2>4. Entered("client")
    BY <2>1 DEF Entered, Settled, Live
  <2>5. QED
    BY <2>2, <2>3, <2>4
<1> HIDE DEF r
<1>8. QED
  BY <1>1, <1>2, <1>3, <1>4, <1>5, <1>6, <1>7, HsSends

LEMMA ClientFinishHolds ==
  ASSUME SInv, NEW s \in Servers, Holds(s), ClientFinish
  PROVE  Holds(s)'
<1> DEFINE n == Openings(s, "client")
           r == Opening(s, "client", n)
<1>1. /\ Noted /\ At(s, "client") /\ Peer("client") = "server" /\ server = s
      /\ "client" \in Ends /\ "server" \in Ends
  BY HoldsGives
<1>2. /\ At(s, "client")' /\ Finishing(s)
      /\ \/ SendAll("client", r) /\ pc'["client"] = "open" /\ tx'["client"].seq = 0 /\ rx'["client"].seq = 0
         \/ SendCut("client", r) /\ pc'["client"] = "failed"
  BY <1>1, ClientFinishAt
<1>3. /\ server' = server /\ mutex' = mutex /\ buf' = buf /\ seen' = seen /\ transcript' = transcript
      /\ pieces' = pieces /\ next' = next /\ ended' = ended /\ secret' = secret
      /\ pc' = [pc EXCEPT !["client"] = "open"] \/ pc' = [pc EXCEPT !["client"] = "failed"]
      /\ tx' = tx \/ tx' = [tx EXCEPT !["client"] = SessionKeys("client").tx]
      /\ rx' = rx \/ rx' = [rx EXCEPT !["client"] = SessionKeys("client").rx]
  BY DEF ClientFinish, Register, Goto, session, handshake, keys
<1>4. pc["client"] \in {"flight", "declined"}
  BY <1>2 DEF Finishing
<1>5. Apart("client") /\ pc["client"] \in Young
  <2>1. pc'["server"] = pc["server"] /\ tx'["server"] = tx["server"] /\ rx'["server"] = rx["server"]
    BY <1>1, <1>3, Domains
  <2>2. Same("server") /\ Noted'
    BY <1>1, <1>3, <2>1 DEF Same, Noted
  <2>3. QED
    BY <1>1, <1>3, <1>4, <2>2 DEF Apart, Young, Shaking
<1>6. n \in Nat \ {0, 1} /\ n = (IF Asking(s) THEN 3 ELSE 2) /\ LoadOk(s, "client", r)
  <2>1. n \in Nat \ {0, 1} /\ n = (IF Asking(s) THEN 3 ELSE 2)
    BY <1>1, FlightIs
  <2>2. n \in 1 .. Openings(s, "client")
    BY <2>1
  <2>3. LoadOk(s, "client", r)
    BY <1>1, <2>2, OpeningsLoad
  <2>4. QED
    BY <2>1, <2>3
<1>7. SendAll("client", r) \/ SendCut("client", r)
  BY <1>2
<1>8. Goes(s, "client", r)
  <2> SUFFICES ASSUME SendAll("client", r), InOrder(s)
               PROVE  SendsOne(s, "client", r) /\ TakesNone(s, "client") /\ Entered("client")
    BY DEF Goes
  <2>1. pc'["client"] = "open" /\ tx'["client"].seq = 0 /\ rx'["client"].seq = 0
    <3>1. ~SendCut("client", r) \/ faulty'
      BY DEF SendCut
    <3>2. ~faulty'
      BY DEF SendAll, InOrder
    <3>3. QED
      BY <1>2, <3>1, <3>2
  <2>2. IsNth(s, "client", r, n)
    <3>1. n <= Openings(s, "client")
      BY <1>6
    <3>2. QED
      BY <3>1, OpeningIsNth
  <2>3. pc["client"] = "flight" => InFlightOf(s) /\ seen.finished /\ ~seen.asked
    BY <1>2 DEF Finishing
  <2>4. pc["client"] = "flight" => ~Asking(s)
    BY <2>3, FlightIsOver
  <2>5. pc["client"] = "declined" => Asking(s)
    BY <1>2 DEF Finishing
  <2> HIDE DEF r
  <2>6. SendsOne(s, "client", r)
    <3> SUFFICES ASSUME NEW b \in Nat, WasSent(s, "client", b)
                 PROVE  WasSent(s, "client", b + 1)' /\ IsNth(s, "client", r, b + 1)
      BY DEF SendsOne
    <3>1. (b = 1 /\ pc["client"] = "flight") \/ (b = 2 /\ pc["client"] = "declined")
      BY <1>4 DEF WasSent, HasSent
    <3>2. b + 1 = n
      BY <1>6, <2>4, <2>5, <3>1
    <3>3. b + 1 = n + 0
      BY <1>6, <3>2
    <3>4. WasSent(s, "client", b + 1)'
      BY <2>1, <3>3 DEF WasSent, HasSent, Live
    <3>5. QED
      BY <2>2, <3>2, <3>4
  <2>7. TakesNone(s, "client")
    <3> SUFFICES ASSUME NEW a \in Nat, WasTaken(s, "client", a) PROVE WasTaken(s, "client", a)'
      BY DEF TakesNone
    <3>1. Len(s.upto) \in Nat \ {0} /\ Openings(s, "server") = Len(s.upto) + 2
      BY FlightIs
    <3>2. CASE pc["client"] = "flight"
      <4>1. rx["client"].seq = Len(s.upto)
        BY <2>3, <3>2, FlightIsOver
      <4>2. a = Openings(s, "server") + 0
        BY <3>1, <3>2, <4>1 DEF WasTaken, HasTaken
      <4>3. QED
        BY <1>1, <2>1, <4>2 DEF WasTaken, HasTaken, Live
    <3>3. CASE pc["client"] = "declined"
      <4>1. a = Openings(s, "server") + 0
        BY <1>1, <3>1, <3>3 DEF WasTaken, HasTaken
      <4>2. QED
        BY <1>1, <2>1, <4>1 DEF WasTaken, HasTaken, Live
    <3>4. QED
      BY <1>4, <3>2, <3>3
  <2>8. Entered("client")
    BY <2>1 DEF Entered
  <2>9. QED
    BY <2>6, <2>7, <2>8
<1> HIDE DEF r
<1>9. QED
  BY <1>1, <1>2, <1>3, <1>5, <1>6, <1>7, <1>8, HsSends

LEMMA TakeClientHelloHolds ==
  ASSUME SInv, NEW s \in Servers, Holds(s), TakeClientHello
  PROVE  Holds(s)'
<1> DEFINE u == Under(buf["server"])
<1>1. /\ Stands(s) /\ Noted /\ At(s, "server") /\ Peer("server") = "client"
      /\ "client" \in Ends /\ "server" \in Ends /\ server = s
  BY HoldsGives
<1>2. /\ pc["server"] = "hello" /\ server' = server /\ mutex' = mutex /\ seen' = seen
      /\ HasRecord(buf["server"]) /\ DropRecord("server") /\ chan' = chan /\ down' = down /\ faulty' = faulty
      /\ pc' = [pc EXCEPT !["server"] = "answer"]
      /\ transcript' = [transcript EXCEPT !["server"] = Append(@, "CH")]
      /\ tx' = tx /\ rx' = rx /\ secret' = secret /\ next' = next /\ pieces' = pieces /\ ended' = ended
  BY DEF TakeClientHello, Arrived, Goto, Log, wires, keys, session
<1>3. pc'["server"] = "answer"
  BY <1>1, <1>2, Domains
<1>4. Apart("server") /\ pc["server"] \in Young
  BY <1>1, <1>2, Domains DEF Same, Noted, Apart, Young
<1>5. At(s, "server")'
  BY <1>1, TakeClientHelloAt
<1> HIDE DEF u
<1>6. Comes(s, "server")
  <2>1. SendsNone(s, "server")
    BY <1>2, <1>3 DEF SendsNone, WasSent, HasSent, Live
  <2>2. TakesOne(s, "server", u)
    <3> SUFFICES ASSUME NEW a \in Nat, WasTaken(s, "server", a) PROVE WasTaken(s, "server", a + 1)'
      BY DEF TakesOne
    <3>1. a + 1 = 1
      BY <1>2 DEF WasTaken, HasTaken
    <3>2. QED
      BY <1>3, <3>1 DEF WasTaken, HasTaken, Live
  <2>3. Entered("server")
    BY <1>3 DEF Entered, Settled, Live
  <2>4. QED
    BY <2>1, <2>2, <2>3 DEF Comes, u
<1>7. QED
  BY <1>1, <1>2, <1>4, <1>5, <1>6, HsTakes

LEMMA ServerHelloHolds ==
  ASSUME SInv, NEW s \in Servers, Holds(s), ServerHello
  PROVE  Holds(s)'
<1> DEFINE r == Opening(s, "server", 1)
<1>1. /\ Noted /\ At(s, "server") /\ Peer("server") = "client" /\ server = s
      /\ "client" \in Ends /\ "server" \in Ends
  BY HoldsGives
<1>2. /\ At(s, "server")'
      /\ \/ SendAll("server", r) /\ pc'["server"] = "change"
         \/ SendCut("server", r) /\ pc'["server"] = "failed"
  BY <1>1, ServerHelloAt
<1>3. /\ pc["server"] = "answer" /\ server' = server /\ mutex' = mutex /\ buf' = buf /\ seen' = seen
      /\ pieces' = pieces /\ next' = next /\ ended' = ended /\ secret' = secret
      /\ pc' = [pc EXCEPT !["server"] = "change"] \/ pc' = [pc EXCEPT !["server"] = "failed"]
      /\ transcript' = transcript \/ transcript' = [transcript EXCEPT !["server"] = Append(@, "SH")]
      /\ tx' = tx \/ \E k : tx' = [tx EXCEPT !["server"] = k]
      /\ rx' = rx \/ \E k : rx' = [rx EXCEPT !["server"] = k]
  BY DEF ServerHello, Schedule, Goto, Log, session, keys
<1>4. Apart("server") /\ pc["server"] \in Young
  <2>1. /\ pc'["client"] = pc["client"] /\ tx'["client"] = tx["client"] /\ rx'["client"] = rx["client"]
        /\ transcript'["client"] = transcript["client"]
    BY <1>1, <1>3, Domains
  <2>2. Same("client") /\ Noted'
    BY <1>1, <1>3, <2>1 DEF Same, Noted
  <2>3. QED
    BY <1>1, <1>3, <2>2 DEF Apart, Young
<1>5. 1 <= Openings(s, "server") /\ LoadOk(s, "server", r)
  <2>1. Openings(s, "server") \in Nat \ {0, 1}
    BY <1>1, FlightIs
  <2>2. PICK i \in 1 .. Openings(s, "server") : i = 1
    BY <2>1
  <2>3. LoadOk(s, "server", Opening(s, "server", i))
    BY <1>1, OpeningsLoad
  <2>4. QED
    BY <2>1, <2>2, <2>3
<1>6. SendAll("server", r) \/ SendCut("server", r)
  BY <1>2
<1>7. Goes(s, "server", r)
  <2> SUFFICES ASSUME SendAll("server", r), InOrder(s)
               PROVE  SendsOne(s, "server", r) /\ TakesNone(s, "server") /\ Entered("server")
    BY DEF Goes
  <2>1. pc'["server"] = "change"
    <3>1. ~SendCut("server", r) \/ faulty'
      BY DEF SendCut
    <3>2. ~faulty'
      BY DEF SendAll, InOrder
    <3>3. QED
      BY <1>2, <3>1, <3>2
  <2> HIDE DEF r
  <2>2. SendsOne(s, "server", r)
    <3> SUFFICES ASSUME NEW b \in Nat, WasSent(s, "server", b)
                 PROVE  WasSent(s, "server", b + 1)' /\ IsNth(s, "server", r, b + 1)
      BY DEF SendsOne
    <3>1. b + 1 = 1
      BY <1>3 DEF WasSent, HasSent
    <3>2. WasSent(s, "server", b + 1)'
      BY <2>1, <3>1 DEF WasSent, HasSent, Live
    <3>3. IsNth(s, "server", r, 1)
      BY <1>5, OpeningIsNth DEF r
    <3>4. QED
      BY <3>1, <3>2, <3>3
  <2>3. TakesNone(s, "server")
    BY <1>3, <2>1 DEF TakesNone, WasTaken, HasTaken, Live
  <2>4. Entered("server")
    BY <2>1 DEF Entered, Settled, Live
  <2>5. QED
    BY <2>2, <2>3, <2>4
<1> HIDE DEF r
<1>8. QED
  BY <1>1, <1>2, <1>3, <1>4, <1>5, <1>6, <1>7, HsSends

LEMMA SendChangeHolds ==
  ASSUME SInv, NEW s \in Servers, Holds(s), SendChange
  PROVE  Holds(s)'
<1> DEFINE r == Opening(s, "server", 2)
<1>1. /\ Noted /\ At(s, "server") /\ Peer("server") = "client" /\ server = s
      /\ "client" \in Ends /\ "server" \in Ends
  BY HoldsGives
<1>2. At(s, "server")' /\ pc'["server"] = "send" /\ (SendAll("server", r) \/ SendCut("server", r))
  BY <1>1, SendChangeAt
<1>3. /\ pc["server"] = "change" /\ server' = server /\ mutex' = mutex /\ buf' = buf /\ seen' = seen
      /\ pieces' = pieces /\ next' = next /\ ended' = ended /\ secret' = secret
      /\ pc' = [pc EXCEPT !["server"] = "send"] /\ transcript' = transcript /\ tx' = tx /\ rx' = rx
  BY DEF SendChange, Goto, session, keys, handshake
<1>4. Apart("server") /\ pc["server"] \in Young
  <2>1. pc'["client"] = pc["client"]
    BY <1>1, <1>3, Domains
  <2>2. Same("client") /\ Noted'
    BY <1>1, <1>3, <2>1 DEF Same, Noted
  <2>3. QED
    BY <1>1, <1>3, <2>2 DEF Apart, Young, Shaking
<1>5. 2 <= Openings(s, "server") /\ LoadOk(s, "server", r)
  <2>1. Openings(s, "server") \in Nat \ {0, 1}
    BY <1>1, FlightIs
  <2>2. PICK i \in 1 .. Openings(s, "server") : i = 2
    BY <2>1
  <2>3. LoadOk(s, "server", Opening(s, "server", i))
    BY <1>1, OpeningsLoad
  <2>4. QED
    BY <2>1, <2>2, <2>3
<1>6. Goes(s, "server", r)
  <2> HIDE DEF r
  <2>1. next = 1
    BY <1>1, <1>3 DEF At, ServerAt
  <2>2. SendsOne(s, "server", r)
    <3> SUFFICES ASSUME NEW b \in Nat, WasSent(s, "server", b)
                 PROVE  WasSent(s, "server", b + 1)' /\ IsNth(s, "server", r, b + 1)
      BY DEF SendsOne
    <3>1. b + 1 = 2 /\ b + 1 = next' + 1
      BY <1>3, <2>1 DEF WasSent, HasSent
    <3>2. WasSent(s, "server", b + 1)'
      BY <1>2, <3>1 DEF WasSent, HasSent, Live
    <3>3. IsNth(s, "server", r, 2)
      BY <1>5, OpeningIsNth DEF r
    <3>4. QED
      BY <3>1, <3>2, <3>3
  <2>3. TakesNone(s, "server")
    BY <1>2, <1>3 DEF TakesNone, WasTaken, HasTaken, Live
  <2>4. Entered("server")
    BY <1>2 DEF Entered, Settled, Live
  <2>5. QED
    BY <2>2, <2>3, <2>4 DEF Goes
<1> HIDE DEF r
<1>7. QED
  BY <1>1, <1>2, <1>3, <1>4, <1>5, <1>6, HsSends

LEMMA SendFlightHolds ==
  ASSUME SInv, NEW s \in Servers, Holds(s), SendFlight
  PROVE  Holds(s)'
<1> DEFINE n == next + 2
           N == Len(s.upto)
<1>1. /\ Noted /\ At(s, "server") /\ Peer("server") = "client" /\ server = s
      /\ "client" \in Ends /\ "server" \in Ends
  BY HoldsGives
<1> DEFINE r == Opening(s, "server", n)
<1>2. /\ At(s, "server")' /\ Sending(s) /\ n \in 1 .. Openings(s, "server")
      /\ \/ SendAll("server", r) /\ pc'["server"] = "send" /\ next' = next + 1 /\ next < N
         \/ SendAll("server", r) /\ pc'["server"] = "finished" /\ next = N
         \/ SendCut("server", r) /\ pc'["server"] = "failed"
  BY <1>1, SendFlightAt
<1>3. /\ pc["server"] = "send" /\ server' = server /\ mutex' = mutex /\ buf' = buf /\ seen' = seen
      /\ pieces' = pieces /\ ended' = ended /\ rx' = rx
      /\ tx' = [tx EXCEPT !["server"] = Advance(@)]
      /\ pc' = pc \/ pc' = [pc EXCEPT !["server"] = "finished"] \/ pc' = [pc EXCEPT !["server"] = "failed"]
      /\ transcript' = transcript \/ \E k : transcript' = [transcript EXCEPT !["server"] = k]
      /\ secret' = secret \/ \E k : secret' = [secret EXCEPT !["server"] = k]
  BY DEF SendFlight, Goto, session
<1>4. Apart("server") /\ pc["server"] \in Young
  <2>1. /\ pc'["client"] = pc["client"] /\ tx'["client"] = tx["client"]
        /\ transcript'["client"] = transcript["client"] /\ secret'["client"] = secret["client"]
    BY <1>1, <1>3, Domains
  <2>2. Same("client") /\ Noted'
    BY <1>1, <1>3, <2>1 DEF Same, Noted
  <2>3. QED
    BY <1>1, <1>3, <2>2 DEF Apart, Young, Shaking
<1>5. PICK R : R = r
  OBVIOUS
<1> HIDE DEF r
<1>6. LoadOk(s, "server", R) /\ (SendAll("server", R) \/ SendCut("server", R))
  <2>1. LoadOk(s, "server", r)
    <3>1. PICK i \in 1 .. Openings(s, "server") : i = n
      BY <1>2
    <3>2. LoadOk(s, "server", Opening(s, "server", i))
      BY <1>1, OpeningsLoad
    <3>3. QED
      BY <3>1, <3>2 DEF r
  <2>2. QED
    BY <1>2, <1>5, <2>1
<1>7. Goes(s, "server", R)
  <2> SUFFICES ASSUME SendAll("server", R), InOrder(s)
               PROVE  SendsOne(s, "server", R) /\ TakesNone(s, "server") /\ Entered("server")
    BY DEF Goes
  <2>1. \/ pc'["server"] = "send" /\ next' = next + 1
        \/ pc'["server"] = "finished" /\ next = N
    <3>1. ~SendCut("server", r) \/ faulty'
      BY DEF SendCut
    <3>2. ~faulty'
      BY DEF SendAll, InOrder
    <3>3. QED
      BY <1>2, <3>1, <3>2
  <2>2. /\ rx["server"].seq = 0 /\ next \in 1 .. N /\ N \in Nat \ {0} /\ Openings(s, "server") = N + 2
    BY <1>2, FlightIs DEF Sending
  <2>3. IsNth(s, "server", R, n)
    <3>1. PICK i : i = n
      OBVIOUS
    <3>2. i <= Openings(s, "server")
      BY <1>2, <2>2, <3>1
    <3>3. R = Opening(s, "server", i)
      BY <1>5, <3>1 DEF r
    <3>4. IsNth(s, "server", R, i)
      BY <3>2, <3>3, OpeningIsNth
    <3>5. QED
      BY <3>1, <3>4
  <2>4. SendsOne(s, "server", R)
    <3> SUFFICES ASSUME NEW b \in Nat, WasSent(s, "server", b)
                 PROVE  WasSent(s, "server", b + 1)' /\ IsNth(s, "server", R, b + 1)
      BY DEF SendsOne
    <3>1. b + 1 = n
      BY <1>3, <2>2 DEF WasSent, HasSent, Live
    <3>2. CASE pc'["server"] = "send" /\ next' = next + 1
      <4>1. b + 1 = next' + 1
        BY <2>2, <3>1, <3>2
      <4>2. WasSent(s, "server", b + 1)'
        BY <3>2, <4>1 DEF WasSent, HasSent, Live
      <4>3. QED
        BY <2>3, <3>1, <4>2
    <3>3. CASE pc'["server"] = "finished" /\ next = N
      <4>1. b + 1 = Openings(s, "server")
        BY <2>2, <3>1, <3>3
      <4>2. WasSent(s, "server", b + 1)'
        BY <3>3, <4>1 DEF WasSent, HasSent, Live
      <4>3. QED
        BY <2>3, <3>1, <4>2
    <3>4. QED
      BY <2>1, <3>2, <3>3
  <2>5. TakesNone(s, "server")
    <3> SUFFICES ASSUME NEW a \in Nat, WasTaken(s, "server", a) PROVE WasTaken(s, "server", a)'
      BY DEF TakesNone
    <3>1. a = 1
      BY <1>3 DEF WasTaken, HasTaken
    <3>2. a = 0 + 1 /\ rx'["server"].seq = 0
      BY <1>3, <2>2, <3>1
    <3>3. QED
      BY <2>1, <3>1, <3>2 DEF WasTaken, HasTaken, Live
  <2>6. Entered("server")
    BY <2>1 DEF Entered, Settled, Live
  <2>7. QED
    BY <2>4, <2>5, <2>6
<1>8. QED
  BY <1>1, <1>2, <1>3, <1>4, <1>6, <1>7, HsSends

LEMMA TakeClientFinishedHolds ==
  ASSUME SInv, NEW s \in Servers, Holds(s), TakeClientFinished
  PROVE  Holds(s)'
<1> DEFINE u == Under(buf["server"])
<1>1. /\ Stands(s) /\ WireShaped /\ Noted /\ At(s, "server") /\ At(s, "client") /\ Peer("server") = "client"
      /\ "client" \in Ends /\ "server" \in Ends /\ server = s
      /\ pc["client"] \in Live => IsKey(tx["client"])
  BY HoldsGives
<1>2. /\ pc["server"] = "finished" /\ server' = server /\ mutex' = mutex /\ seen' = seen
      /\ HasRecord(buf["server"]) /\ DropRecord("server") /\ chan' = chan /\ down' = down /\ faulty' = faulty
      /\ secret' = secret /\ next' = next /\ pieces' = pieces /\ ended' = ended
      /\ pc' = pc \/ pc' = [pc EXCEPT !["server"] = "open"] \/ pc' = [pc EXCEPT !["server"] = "failed"]
      /\ transcript' = transcript \/ transcript' = [transcript EXCEPT !["server"] = Append(@, "Cert")]
      /\ tx' = tx \/ \E k : tx' = [tx EXCEPT !["server"] = k]
      /\ rx' = rx \/ \E k : rx' = [rx EXCEPT !["server"] = k]
  BY DEF TakeClientFinished, Arrived, Register, Goto, Log, wires, keys, session
<1>3. LoadOk(s, "client", u)
  BY <1>1, <1>2, DropStands
<1>4. /\ At(s, "server")'
      /\ \/ /\ Asking(s) /\ rx["server"].seq = 0 /\ rx'["server"].seq = 1 /\ tx'["server"] = tx["server"]
            /\ pc'["server"] = "finished"
         \/ /\ rx["server"].seq + 2 = Openings(s, "client") /\ pc'["server"] = "open"
            /\ tx'["server"].seq = 0 /\ rx'["server"].seq = 0
  BY <1>1, <1>3, TakeClientFinishedAt
<1>5. Apart("server") /\ pc["server"] \in Young
  <2>1. /\ pc'["client"] = pc["client"] /\ tx'["client"] = tx["client"] /\ rx'["client"] = rx["client"]
        /\ transcript'["client"] = transcript["client"]
    BY <1>1, <1>2, Domains
  <2>2. Same("client") /\ Noted'
    BY <1>1, <1>2, <2>1 DEF Same, Noted
  <2>3. QED
    BY <1>1, <1>2, <2>2 DEF Apart, Young, Shaking
<1> HIDE DEF u
<1>6. rx["server"].seq \in Nat /\ Openings(s, "client") \in Nat /\ Openings(s, "server") \in Nat
  <2>1. IsKey(rx["server"])
    BY <1>1, <1>2, HoldsGives DEF Shaking
  <2>2. QED
    BY <2>1, FlightIs DEF IsKey
<1>7. Comes(s, "server")
  <2> SUFFICES ASSUME InOrder(s) PROVE SendsNone(s, "server") /\ TakesOne(s, "server", u) /\ Entered("server")
    BY DEF Comes, u
  <2>1. SendsNone(s, "server")
    <3> SUFFICES ASSUME NEW b \in Nat, WasSent(s, "server", b) PROVE WasSent(s, "server", b)'
      BY DEF SendsNone
    <3>1. b = Openings(s, "server") /\ b = Openings(s, "server") + 0
      BY <1>2, <1>6 DEF WasSent, HasSent
    <3>2. pc'["server"] = "finished" \/ (pc'["server"] = "open" /\ tx'["server"].seq = 0)
      BY <1>4
    <3>3. QED
      BY <3>1, <3>2 DEF WasSent, HasSent, Live
  <2>2. TakesOne(s, "server", u)
    <3> SUFFICES ASSUME NEW a \in Nat, WasTaken(s, "server", a) PROVE WasTaken(s, "server", a + 1)'
      BY DEF TakesOne
    <3>1. a = rx["server"].seq + 1
      BY <1>2 DEF WasTaken, HasTaken, Live
    <3>2. CASE rx["server"].seq = 0 /\ rx'["server"].seq = 1 /\ pc'["server"] = "finished"
      <4>1. a + 1 = rx'["server"].seq + 1
        BY <3>1, <3>2
      <4>2. QED
        BY <3>2, <4>1 DEF WasTaken, HasTaken, Live
    <3>3. CASE rx["server"].seq + 2 = Openings(s, "client") /\ pc'["server"] = "open" /\ rx'["server"].seq = 0
      <4>1. a + 1 = Openings(s, "client") + 0
        BY <1>6, <3>1, <3>3
      <4>2. QED
        BY <1>1, <3>3, <4>1 DEF WasTaken, HasTaken, Live
    <3>4. QED
      BY <1>4, <3>2, <3>3
  <2>3. pc'["server"] = "open" => pc["client"] \in Settled
    <3> SUFFICES ASSUME pc'["server"] = "open" PROVE pc["client"] \in Settled
      OBVIOUS
    <3>1. Lane(s, Peer("server")) /\ pc["client"] # "failed" /\ pc["server"] # "closed"
      BY <1>1, <1>2 DEF InOrder, Lockstep, Unhurt
    <3>2. PICK a \in Nat, b \in Nat : WasTaken(s, "server", a) /\ WasSent(s, Peer("server"), b) /\ a + 1 <= b
      BY <1>1, <1>2, <3>1, LaneFront
    <3>3. a = rx["server"].seq + 1 /\ rx["server"].seq + 2 = Openings(s, "client") /\ WasSent(s, "client", b)
      BY <1>1, <1>2, <1>4, <3>2 DEF WasTaken, HasTaken, Live
    <3>4. b >= Openings(s, "client")
      BY <1>6, <3>2, <3>3
    <3>5. QED
      BY <1>1, <3>1, <3>3, <3>4, SettledHasSent
  <2>4. Entered("server")
    BY <1>4, <2>3 DEF Entered, Settled, Live
  <2>5. QED
    BY <2>1, <2>2, <2>4
<1>8. QED
  BY <1>1, <1>2, <1>4, <1>5, <1>7, HsTakes

(* A ChangeCipherSpec lies only before the server's flight.                *)
LEMMA SkipChangeHolds ==
  ASSUME SInv, NEW s \in Servers, Holds(s), NEW e \in Ends, SkipChange(e)
  PROVE  Holds(s)'
<1> DEFINE u == Under(buf[e])
<1>1. /\ At(s, e) /\ Noted /\ server = s /\ (pc[e] \in Shaking => IsKey(rx[e]))
  BY HoldsGives
<1>2. /\ Awaits(e) /\ HasRecord(buf[e]) /\ u.type = "ccs" /\ DropRecord(e) /\ chan' = chan /\ down' = down
      /\ faulty' = faulty /\ server' = server /\ mutex' = mutex /\ seen' = seen /\ pc' = pc /\ tx' = tx /\ rx' = rx
      /\ transcript' = transcript /\ secret' = secret /\ next' = next /\ pieces' = pieces /\ ended' = ended
  BY DEF SkipChange, wires, handshake, keys, session
<1>3. Same(e) /\ Apart(e) /\ pc[e] \in Young /\ pc[e] \notin {"failed", "closed"} /\ pc[e] \notin Settled
  BY <1>1, <1>2 DEF Same, Apart, Noted, Awaits, Young, Shaking, Settled, Live
<1>4. At(s, e)'
  BY <1>1, <1>3, AtSame
<1>5. Comes(s, e)
  <2>1. SendsNone(s, e)
    BY <1>1, <1>3, IdleTells
  <2>2. Entered(e)
    BY <1>2, <1>3 DEF Entered
  <2> HIDE DEF u
  <2>3. TakesOne(s, e, u)
    <3> SUFFICES ASSUME NEW a \in Nat, WasTaken(s, e, a), IsNth(s, Peer(e), u, a + 1)
                 PROVE  WasTaken(s, e, a + 1)'
      BY DEF TakesOne
    <3>1. /\ a + 1 <= Openings(s, Peer(e))
          /\ \A r : r = Opening(s, Peer(e), a + 1) =>
              \/ r.type = "ccs" /\ e = "client" /\ pc[e] = "flight" /\ rx[e].seq = 0 /\ a = 1
              \/ pc[e] = "hello" /\ r.type = "handshake" /\ (e = "client" => r.content.over \in Offered)
              \/ pc[e] # "hello" /\ r.type = "data" /\ r.key = rx[e].key /\ r.seq = rx[e].seq
      BY <1>1, <1>2, AwaitsNext
    <3>2. u = Opening(s, Peer(e), a + 1)
      BY <3>1, OpeningIsNth
    <3>3. pc[e] = "flight" /\ rx[e].seq = 0 /\ a = 1
      BY <1>2, <3>1, <3>2
    <3>4. a + 1 = rx'[e].seq + 2
      BY <1>2, <3>3
    <3>5. QED
      BY <1>2, <3>3, <3>4 DEF WasTaken, HasTaken, Live
  <2>4. QED
    BY <2>1, <2>2, <2>3 DEF Comes, u
<1>6. QED
  BY <1>2, <1>3, <1>4, <1>5, HsTakes

(* An end gives up only after a fault, or with a server it must not trust. *)
LEMMA GiveUpHolds ==
  ASSUME SInv, NEW s \in Servers, Holds(s), NEW e \in Ends, GiveUp(e)
  PROVE  Holds(s)'
<1>1. At(s, e) /\ Stands(s) /\ Noted /\ server = s
  BY HoldsGives
<1>2. /\ Awaits(e) /\ server' = server /\ mutex' = mutex /\ seen' = seen /\ pc' = [pc EXCEPT ![e] = "failed"]
      /\ tx' = tx /\ rx' = rx /\ transcript' = transcript /\ secret' = secret /\ next' = next
      /\ pieces' = pieces /\ ended' = ended
  BY DEF GiveUp, Goto, handshake, keys, session
<1>3. Peer(e) \in Ends /\ Peer(e) # e /\ At(s, Peer(e))
  BY PeerIs, HoldsGives
<1>4. Apart(e) /\ pc[e] \in Young /\ pc'[e] = "failed"
  <2>1. pc'[e] = "failed" /\ pc'[Peer(e)] = pc[Peer(e)]
    BY <1>2, <1>3, Domains
  <2>2. QED
    BY <1>1, <1>2, <2>1 DEF Same, Apart, Noted, Awaits, Young, Shaking
<1>5. At(s, e)'
  BY <1>4, AtGone
<1>6. InOrder(s) => /\ ~Ended(e)
                    /\ HasRecord(buf[e]) => Awaited(e) \/ Under(buf[e]).type = "ccs"
  BY <1>1, <1>2, <1>3, NothingToGiveUp DEF InOrder
<1>7. CASE Ended(e) /\ UNCHANGED <<wires, buf>>
  <2>1. chan' = chan /\ buf' = buf /\ down' = down /\ faulty' = faulty
    BY <1>7 DEF wires
  <2>2. Waits(s, e)
    BY <1>6, <1>7 DEF Waits
  <2>3. QED
    BY <1>4, <1>5, <2>1, <2>2, HsRests
<1>8. CASE TimedOut(e) /\ UNCHANGED buf
  <2>1. chan' = chan /\ buf' = buf /\ faulty' = TRUE
    BY <1>8 DEF TimedOut
  <2>2. Roomy' /\ Laden(s)' /\ DOMAIN down' = DOMAIN down
    BY <1>1, <1>8, <2>1, StillStands DEF TimedOut
  <2>3. QED
    BY <1>4, <1>5, <2>1, <2>2, HsStep
<1>9. CASE HasRecord(buf[e]) /\ Under(buf[e]).type # "ccs" /\ ~Awaited(e) /\ DropRecord(e) /\ UNCHANGED wires
  <2>1. chan' = chan /\ down' = down /\ faulty' = faulty
    BY <1>9 DEF wires
  <2>2. Comes(s, e)
    BY <1>6, <1>9 DEF Comes
  <2>3. QED
    BY <1>4, <1>5, <1>9, <2>1, <2>2, HsTakes
<1>10. QED
  BY <1>7, <1>8, <1>9 DEF GiveUp

LEMMA FillHolds ==
  ASSUME SInv, NEW s \in Servers, Holds(s), NEW e \in Ends, NEW k, Fill(e, k)
  PROVE  Holds(s)'
<1>1. At(s, e) /\ Stands(s) /\ Noted /\ server = s
  BY HoldsGives
<1>2. /\ Awaits(e) /\ Receive(e, k) /\ down' = down /\ faulty' = faulty
      /\ server' = server /\ mutex' = mutex /\ seen' = seen /\ pc' = pc /\ tx' = tx /\ rx' = rx
      /\ transcript' = transcript /\ secret' = secret /\ next' = next /\ pieces' = pieces /\ ended' = ended
  BY DEF Fill, Receive, handshake, keys, session
<1>3. Same(e) /\ Apart(e) /\ pc[e] \in Young /\ pc[e] \notin {"failed", "closed"} /\ pc[e] \notin Settled
  BY <1>1, <1>2 DEF Same, Apart, Noted, Awaits, Young, Shaking, Settled, Live
<1>4. At(s, e)'
  BY <1>1, <1>3, AtSame
<1>5. Roomy' /\ Laden(s)' /\ Steady(e)
  BY <1>1, <1>2, ReceiveStands
<1>6. Entered(e)
  BY <1>2, <1>3 DEF Entered
<1>7. Onward(s, e, s)
  BY <1>1, <1>3, <1>5, IdleTells DEF Onward
<1>8. InOrder(s) => Lockstep(s)'
  BY <1>2, <1>3, <1>6, <1>7, HsLockstep
<1>9. QED
  BY <1>2, <1>3, <1>4, <1>5, <1>8, HsStep

LEMMA HandshakeHolds ==
  ASSUME SInv, NEW s \in Servers, Holds(s), Handshake
  PROVE  Holds(s)'
<1>1. CASE ClientHello \/ TakeServerHello \/ TakeFlight \/ TakeMessage \/ Reject \/ Decline \/ ClientFinish
  BY <1>1, ClientHelloHolds, TakeServerHelloHolds, TakeFlightHolds, TakeMessageHolds, RejectHolds,
     DeclineHolds, ClientFinishHolds
<1>2. CASE TakeClientHello \/ ServerHello \/ SendChange \/ SendFlight \/ TakeClientFinished
  BY <1>2, TakeClientHelloHolds, ServerHelloHolds, SendChangeHolds, SendFlightHolds, TakeClientFinishedHolds
<1>3. CASE \E e \in Ends : SkipChange(e) \/ GiveUp(e)
  BY <1>3, SkipChangeHolds, GiveUpHolds
<1>4. CASE \E e \in Ends, k \in 1 .. Window : Fill(e, k)
  BY <1>4, FillHolds
<1>5. QED
  BY <1>1, <1>2, <1>3, <1>4 DEF Handshake

-----------------------------------------------------------------------------
(* The steps of a session keep the invariant                               *)

(* A step of e, which has a session and keeps it.                          *)
Online(e) ==
  /\ Same(Peer(e)) /\ server' = server /\ Noted' /\ Owned' /\ ended'[Peer(e)] = ended[Peer(e)]
  /\ pc[e] \in Live /\ pc'[e] \in Live /\ secret'[e] = secret[e]
  /\ tx'[e].key = tx[e].key /\ rx'[e].key = rx[e].key

Unharmed(e) == ended'[e] # "auth" /\ \A d \in Ends : down'[d] => down[d] \/ d = e

LEMMA LiveStep ==
  ASSUME SInv, NEW s \in Servers, Holds(s), NEW e \in Ends, Online(e), Roomy', Laden(s)', faulty => faulty',
         DOMAIN down' = DOMAIN down,
         InOrder(s) /\ ~faulty' => Unharmed(e) /\ \E r : Onward(s, e, r)
  PROVE  Holds(s)'
<1>1. Peer(e) \in Ends /\ Peer(e) # e /\ (\A d \in Ends : d = e \/ d = Peer(e)) /\ "client" \in Ends /\ "server" \in Ends
  BY PeerIs
<1>2. WireShaped /\ At(s, e) /\ At(s, Peer(e))
  BY <1>1, HoldsGives
<1>3. At(s, e)'
  <2>1. /\ At(s, e) /\ pc[e] \in Live /\ pc'[e] \in Live /\ tx'[e].key = tx[e].key
        /\ rx'[e].key = rx[e].key /\ secret'[e] = secret[e]
    BY <1>2 DEF Online
  <2>2. QED
    BY <2>1, AtLive
<1>4. Same(Peer(e)) /\ server' = server /\ Noted' /\ Owned'
  BY DEF Online
<1>5. ASSUME InOrder(s), ~faulty' PROVE Lockstep(s)'
  <2>1. PICK r : Onward(s, e, r)
    BY <1>5
  <2>2. \A d \in Ends : Lane(s, d)'
    <3>1. Lane(s, e) /\ Lane(s, Peer(e)) /\ (pc'[e] # "closed" => pc[e] # "closed")
      BY <1>1, <1>5 DEF InOrder, Lockstep, Online, Live
    <3>2. QED
      BY <1>2, <1>4, <2>1, <3>1, LanesGoOn
  <2>3. /\ pc[e] \in Settled /\ pc'[e] \in Settled /\ pc'[e] # "failed" /\ pc'[Peer(e)] = pc[Peer(e)]
        /\ ended'[e] # "auth" /\ ended'[Peer(e)] = ended[Peer(e)]
        /\ \A d \in Ends : down'[d] => down[d] \/ d = e
    BY <1>5 DEF Online, Same, Unharmed, Settled, Live
  <2>4. Unhurt
    BY <1>5 DEF InOrder, Lockstep
  <2>5. \A d \in Ends : pc'[d] # "failed" /\ (down'[d] => pc'[d] \in Settled) /\ ended'[d] # "auth"
    BY <1>1, <2>3, <2>4 DEF Unhurt
  <2>6. pc'["server"] \in Settled => pc'["client"] \in Settled
    BY <1>1, <2>3, <2>4 DEF Unhurt
  <2>7. QED
    BY <2>2, <2>5, <2>6 DEF Lockstep, Unhurt
<1>6. QED
  BY <1>3, <1>4, <1>5, StepHolds

LEMMA LiveKeeps ==
  ASSUME NEW s, NEW e \in Ends, Online(e)
  PROVE  /\ tx'[e].seq = tx[e].seq => SendsNone(s, e)
         /\ rx'[e].seq = rx[e].seq => TakesNone(s, e)
<1>1. pc[e] \in Live /\ pc'[e] \in Live
  BY DEF Online
<1>2. ASSUME tx'[e].seq = tx[e].seq PROVE SendsNone(s, e)
  BY <1>1, <1>2 DEF SendsNone, WasSent, HasSent, Live
<1>3. ASSUME rx'[e].seq = rx[e].seq PROVE TakesNone(s, e)
  BY <1>1, <1>3 DEF TakesNone, WasTaken, HasTaken, Live
<1>4. QED
  BY <1>2, <1>3

LEMMA LivePuts ==
  ASSUME NEW s \in Servers, NEW e \in Ends, Online(e), IsKey(tx[e]), tx'[e].seq = tx[e].seq + 1,
         NEW r, r.type = "data", r.key = DataKey(s, e), r.seq = tx[e].seq
  PROVE  SendsOne(s, e, r)
<1>1. pc[e] \in Live /\ pc'[e] \in Live /\ tx[e].seq \in Nat /\ Openings(s, e) \in Nat
  BY FlightIs DEF Online, IsKey, Ends
<1> SUFFICES ASSUME NEW b \in Nat, WasSent(s, e, b) PROVE WasSent(s, e, b + 1)' /\ IsNth(s, e, r, b + 1)
  BY DEF SendsOne
<1>2. b = Openings(s, e) + tx[e].seq
  BY <1>1 DEF WasSent, HasSent
<1>3. b + 1 = Openings(s, e) + tx'[e].seq /\ ~(b + 1 <= Openings(s, e)) /\ b + 1 - Openings(s, e) - 1 = tx[e].seq
  BY <1>1, <1>2
<1>4. WasSent(s, e, b + 1)'
  BY <1>1, <1>3 DEF WasSent, HasSent, Live
<1>5. IsNth(s, e, r, b + 1)
  <2>1. PICK i \in Nat : i = b + 1
    OBVIOUS
  <2>2. PICK k \in Nat : k = r.seq
    BY <1>1
  <2>3. ~(i <= Openings(s, e)) /\ k = i - Openings(s, e) - 1
    BY <1>1, <1>3, <2>1, <2>2
  <2>4. IsNth(s, e, r, i)
    BY <2>2, <2>3 DEF IsNth
  <2>5. QED
    BY <2>1, <2>4
<1>6. QED
  BY <1>4, <1>5

LEMMA LiveTakes ==
  ASSUME NEW s \in Servers, NEW e \in Ends, Online(e), IsKey(rx[e]), rx'[e].seq = rx[e].seq + 1, NEW r
  PROVE  TakesOne(s, e, r)
<1>1. pc[e] \in Live /\ pc'[e] \in Live /\ rx[e].seq \in Nat /\ Openings(s, Peer(e)) \in Nat
  BY FlightIs, PeerIs DEF Online, IsKey, Ends
<1> SUFFICES ASSUME NEW a \in Nat, WasTaken(s, e, a) PROVE WasTaken(s, e, a + 1)'
  BY DEF TakesOne
<1>2. a = Openings(s, Peer(e)) + rx[e].seq
  BY <1>1 DEF WasTaken, HasTaken
<1>3. a + 1 = Openings(s, Peer(e)) + rx'[e].seq
  BY <1>1, <1>2
<1>4. QED
  BY <1>1, <1>3 DEF WasTaken, HasTaken, Live

(* A step that neither sends nor reads.                                    *)
LEMMA LiveRests ==
  ASSUME SInv, NEW s \in Servers, Holds(s), NEW e \in Ends, Online(e), tx' = tx, rx' = rx,
         chan' = chan, buf' = buf, faulty => faulty', ended'[e] = ended[e] \/ ended'[e] = "eof",
         DOMAIN down' = DOMAIN down,
         \A d \in Ends : down'[d] => down[d] \/ d = e
  PROVE  Holds(s)'
<1>1. Stands(s)
  BY HoldsGives
<1>2. Roomy' /\ Laden(s)' /\ Steady(e)
  BY <1>1, StillStands
<1>3. SendsNone(s, e) /\ TakesNone(s, e)
  BY LiveKeeps
<1>4. Onward(s, e, s)
  BY <1>2, <1>3 DEF Onward
<1>5. InOrder(s) => Unharmed(e)
  BY DEF InOrder, Lockstep, Unhurt, Unharmed
<1>6. QED
  BY <1>2, <1>4, <1>5, LiveStep

(* A record under the session's key.                                       *)
LEMMA LiveSends ==
  ASSUME SInv, NEW s \in Servers, Holds(s), NEW e \in Ends, Online(e), rx' = rx, tx'[e] = Advance(tx[e]),
         buf' = buf, ended' = ended, NEW r, r.type = "data", r.key = tx[e].key, r.seq = tx[e].seq,
         SendAll(e, r) \/ SendCut(e, r)
  PROVE  Holds(s)'
<1>1. Stands(s) /\ At(s, e) /\ pc[e] \in Live /\ IsKey(tx[e])
  BY HoldsGives DEF Online
<1>2. r.key = DataKey(s, e)
  BY <1>1, AtSession DEF InSession
<1>3. LoadOk(s, e, r)
  BY <1>2, LoadsAre
<1>4. /\ Roomy' /\ Laden(s)' /\ down' = down /\ (faulty => faulty')
      /\ ~faulty' => Puts2(e, r) /\ SendAll(e, r)
  BY <1>1, <1>3, SendStands
<1>5. tx'[e].seq = tx[e].seq + 1
  BY <1>1, Advanced
<1>6. TakesNone(s, e)
  BY LiveKeeps
<1>7. SendsOne(s, e, r)
  BY <1>1, <1>2, <1>5, LivePuts
<1>8. ~faulty' => Onward(s, e, r)
  BY <1>4, <1>6, <1>7 DEF Onward
<1>9. InOrder(s) => Unharmed(e)
  BY <1>4 DEF InOrder, Lockstep, Unhurt, Unharmed
<1>10. QED
  BY <1>4, <1>8, <1>9, LiveStep

LEMMA CallsHold ==
  ASSUME SInv, NEW s \in Servers, Holds(s), NEW e \in Ends, NEW n,
         CallSend(e, n) \/ CallRecv(e, n) \/ Return(e)
  PROVE  Holds(s)'
<1>1. Noted /\ Owned /\ server = s
  BY DEF Holds
<1>2. /\ server' = server /\ chan' = chan /\ down' = down /\ faulty' = faulty /\ pc' = pc /\ buf' = buf
      /\ transcript' = transcript /\ next' = next /\ pieces' = pieces /\ seen' = seen /\ secret' = secret
      /\ tx' = tx /\ rx' = rx /\ mutex' = mutex /\ ended' = ended
  BY DEF CallSend, CallRecv, Return, wires, handshake, keys, session
<1>3. pc[e] \in Live
  <2>1. reader[e] = "recv" => pc[e] = "open"
    BY Domains DEF Reading
  <2>2. QED
    BY <2>1 DEF CallSend, CallRecv, Return, Live
<1>4. Online(e)
  BY <1>1, <1>2, <1>3 DEF Online, Same, Noted, Owned
<1>5. QED
  BY <1>2, <1>4, LiveRests

LEMMA ShutDownHolds ==
  ASSUME SInv, NEW s \in Servers, Holds(s), NEW e \in Ends, ShutDown(e)
  PROVE  Holds(s)'
<1>1. Noted /\ Owned /\ server = s /\ DOMAIN down = Ends
  BY DEF Holds
<1>2. /\ server' = server /\ chan' = chan /\ faulty' = faulty /\ pc' = pc /\ buf' = buf
      /\ transcript' = transcript /\ next' = next /\ pieces' = pieces /\ seen' = seen /\ secret' = secret
      /\ tx' = tx /\ rx' = rx /\ mutex' = mutex /\ ended' = ended
      /\ pc[e] = "open" /\ down' = [down EXCEPT ![e] = TRUE]
  BY DEF ShutDown, wires, handshake, keys, session
<1>3. Online(e)
  BY <1>1, <1>2 DEF Online, Same, Noted, Owned, Live
<1>4. DOMAIN down' = DOMAIN down /\ \A d \in Ends : down'[d] => down[d] \/ d = e
  BY <1>1, <1>2
<1>5. QED
  BY <1>2, <1>3, <1>4, LiveRests

LEMMA CallCloseHolds ==
  ASSUME SInv, NEW s \in Servers, Holds(s), NEW e \in Ends, CallClose(e)
  PROVE  Holds(s)'
<1>1. Noted /\ server = s /\ Peer(e) \in Ends /\ Peer(e) # e
  BY PeerIs DEF Holds
<1>2. /\ server' = server /\ chan' = chan /\ faulty' = faulty /\ down' = down /\ buf' = buf
      /\ transcript' = transcript /\ next' = next /\ pieces' = pieces /\ seen' = seen /\ secret' = secret
      /\ tx' = tx /\ rx' = rx /\ mutex' = e /\ ended' = ended
      /\ pc[e] = "open" /\ pc' = [pc EXCEPT ![e] = "closing"]
  BY DEF CallClose, Goto, wires, handshake, keys, session
<1>3. pc'[e] = "closing" /\ pc'[Peer(e)] = pc[Peer(e)]
  BY <1>1, <1>2, Domains
<1>4. Online(e)
  BY <1>1, <1>2, <1>3 DEF Online, Same, Noted, Owned, Live
<1>5. QED
  BY <1>2, <1>4, LiveRests

LEMMA EmptyReadHolds ==
  ASSUME SInv, NEW s \in Servers, Holds(s), NEW e \in Ends, CutOff(e) \/ RecvGaveUp(e)
  PROVE  Holds(s)'
<1>1. Noted /\ Owned /\ server = s /\ Peer(e) \in Ends /\ Peer(e) # e
  BY PeerIs DEF Holds
<1>2. /\ server' = server /\ chan' = chan /\ down' = down /\ (faulty => faulty') /\ pc' = pc /\ buf' = buf
      /\ transcript' = transcript /\ next' = next /\ pieces' = pieces /\ seen' = seen /\ secret' = secret
      /\ tx' = tx /\ rx' = rx /\ mutex' = mutex /\ ended' = [ended EXCEPT ![e] = "eof"] /\ reader[e] = "recv"
  BY DEF CutOff, RecvGaveUp, EmptyRead, Closes, End, TimedOut, InLoop, wires, handshake, keys
<1>3. pc[e] \in Live
  BY <1>2, Domains DEF Reading, Live
<1>4. ended'[e] = "eof" /\ ended'[Peer(e)] = ended[Peer(e)]
  BY <1>1, <1>2, Domains
<1>5. Online(e)
  BY <1>1, <1>2, <1>3, <1>4 DEF Online, Same, Noted, Owned
<1>6. QED
  BY <1>2, <1>4, <1>5, LiveRests

LEMMA SendPieceHolds ==
  ASSUME SInv, NEW s \in Servers, Holds(s), NEW e \in Ends, SendPiece(e)
  PROVE  Holds(s)'
<1>1. Noted /\ Owned /\ server = s /\ Peer(e) \in Ends /\ Peer(e) # e
  BY PeerIs DEF Holds
<1>2. /\ server' = server /\ pc' = pc /\ buf' = buf /\ pc[e] = "open"
      /\ transcript' = transcript /\ next' = next /\ pieces' = pieces /\ seen' = seen /\ secret' = secret
      /\ rx' = rx /\ mutex' = mutex /\ ended' = ended /\ tx' = [tx EXCEPT ![e] = Advance(@)]
  BY DEF SendPiece, AfterCut, handshake, session
<1>3. PICK c : SendAll(e, Seal(tx[e], "app", c)) \/ SendCut(e, Seal(tx[e], "app", c))
  BY DEF SendPiece
<1>4. PICK r : r = Seal(tx[e], "app", c)
  OBVIOUS
<1>5. r.type = "data" /\ r.key = tx[e].key /\ r.seq = tx[e].seq
  BY <1>4, SealIs
<1>6. SendAll(e, r) \/ SendCut(e, r)
  BY <1>3, <1>4
<1>7. tx'[e] = Advance(tx[e]) /\ tx'[Peer(e)] = tx[Peer(e)] /\ tx'[e].key = tx[e].key
  <2>1. IsKey(tx[e])
    BY <1>2, HoldsGives DEF Live
  <2>2. tx'[e] = Advance(tx[e]) /\ tx'[Peer(e)] = tx[Peer(e)]
    BY <1>1, <1>2, Domains
  <2>3. QED
    BY <2>1, <2>2, Advanced
<1>8. Online(e)
  BY <1>1, <1>2, <1>7 DEF Online, Same, Noted, Owned, Live
<1>9. QED
  BY <1>2, <1>5, <1>6, <1>7, <1>8, LiveSends

LEMMA AfterHandshakeHolds ==
  ASSUME SInv, NEW s \in Servers, Holds(s), AfterHandshake
  PROVE  Holds(s)'
<1>1. /\ Noted /\ Owned /\ server = s /\ Peer("server") = "client" /\ "server" \in Ends /\ "client" \in Ends
  BY PeerIs DEF Holds
<1>2. /\ server' = server /\ pc' = pc /\ buf' = buf /\ pc["server"] = "open"
      /\ transcript' = transcript /\ pieces' = pieces /\ seen' = seen /\ secret' = secret
      /\ rx' = rx /\ mutex' = mutex /\ ended' = ended /\ tx' = [tx EXCEPT !["server"] = Advance(@)]
  BY DEF AfterHandshake, session
<1>3. PICK r : r = Seal(tx["server"], "handshake", server.after)
  OBVIOUS
<1>4. r.type = "data" /\ r.key = tx["server"].key /\ r.seq = tx["server"].seq
  BY <1>3, SealIs
<1>5. SendAll("server", r) \/ SendCut("server", r)
  BY <1>3 DEF AfterHandshake
<1>6. tx'["server"] = Advance(tx["server"]) /\ tx'["client"] = tx["client"] /\ tx'["server"].key = tx["server"].key
  <2>1. IsKey(tx["server"])
    BY <1>1, <1>2, HoldsGives DEF Live
  <2>2. tx'["server"] = Advance(tx["server"]) /\ tx'["client"] = tx["client"]
    BY <1>1, <1>2, Domains
  <2>3. QED
    BY <2>1, <2>2, Advanced
<1>7. Online("server")
  BY <1>1, <1>2, <1>6 DEF Online, Same, Noted, Owned, Live
<1>8. QED
  BY <1>1, <1>2, <1>4, <1>5, <1>6, <1>7, LiveSends

LEMMA ReadMoreHolds ==
  ASSUME SInv, NEW s \in Servers, Holds(s), NEW e \in Ends, NEW k, ReadMore(e, k)
  PROVE  Holds(s)'
<1>1. Noted /\ Owned /\ server = s /\ Stands(s)
  BY HoldsGives DEF Holds
<1>2. /\ server' = server /\ pc' = pc /\ Receive(e, k) /\ down' = down /\ faulty' = faulty
      /\ transcript' = transcript /\ next' = next /\ pieces' = pieces /\ seen' = seen /\ secret' = secret
      /\ tx' = tx /\ rx' = rx /\ mutex' = mutex /\ ended' = ended /\ reader[e] = "recv"
  BY DEF ReadMore, Receive, InLoop, handshake, keys, session
<1>3. pc[e] \in Live
  BY <1>2, Domains DEF Reading, Live
<1>4. Online(e)
  BY <1>1, <1>2, <1>3 DEF Online, Same, Noted, Owned
<1>5. Roomy' /\ Laden(s)' /\ Steady(e)
  BY <1>1, <1>2, ReceiveStands
<1>6. Onward(s, e, s)
  BY <1>2, <1>4, <1>5, LiveKeeps DEF Onward
<1>7. InOrder(s) => Unharmed(e)
  BY <1>2 DEF InOrder, Lockstep, Unhurt, Unharmed
<1>8. QED
  BY <1>2, <1>4, <1>5, <1>6, <1>7, LiveStep

LEMMA TakeRecordHolds ==
  ASSUME SInv, NEW s \in Servers, Holds(s), NEW e \in Ends, TakeRecord(e)
  PROVE  Holds(s)'
<1> DEFINE u == Under(buf[e])
           f == Peer(e)
<1>1. /\ Noted /\ Owned /\ server = s /\ Stands(s) /\ WireShaped /\ At(s, e) /\ f \in Ends /\ f # e /\ Peer(f) = e
  BY HoldsGives, PeerIs DEF Holds
<1>2. /\ server' = server /\ pc' = pc /\ HasRecord(buf[e]) /\ DropRecord(e) /\ chan' = chan /\ down' = down
      /\ faulty' = faulty /\ transcript' = transcript /\ next' = next /\ pieces' = pieces /\ seen' = seen
      /\ secret' = secret /\ tx' = tx /\ mutex' = mutex /\ reader[e] = "recv"
      /\ rx' = [rx EXCEPT ![e] = IF u.type = "data" THEN Advance(@) ELSE @]
  BY DEF TakeRecord, InLoop, wires, handshake
<1>3. pc[e] = "open" /\ pc[e] \in Live
  BY <1>2, Domains DEF Reading, Live
<1>4. IsKey(rx[e])
  BY <1>3, HoldsGives
<1>5. /\ rx'[e] = (IF u.type = "data" THEN Advance(rx[e]) ELSE rx[e]) /\ rx'[f] = rx[f]
      /\ rx'[e].key = rx[e].key
  <2>1. rx'[e] = (IF u.type = "data" THEN Advance(rx[e]) ELSE rx[e]) /\ rx'[f] = rx[f]
    BY <1>1, <1>2, Domains
  <2>2. Advance(rx[e]).key = rx[e].key
    BY <1>4, Advanced
  <2>3. QED
    BY <2>1, <2>2
<1>6. ended'[f] = ended[f] /\ (ended'[e] \in {ended[e], "notify", "update"} \/ (u.type = "data" /\ ~Opens(rx[e], buf[e])))
  <2>1. DOMAIN ended = Ends
    BY Domains
  <2>2. \/ ended' = ended
        \/ \E how \in {"notify", "update"} : ended' = [ended EXCEPT ![e] = how]
        \/ u.type = "data" /\ ~Opens(rx[e], buf[e]) /\ ended' = [ended EXCEPT ![e] = "auth"]
    BY DEF TakeRecord, End
  <2>3. QED
    BY <1>1, <2>1, <2>2
<1> HIDE DEF u
<1>7. Online(e)
  BY <1>1, <1>2, <1>3, <1>5, <1>6 DEF Online, Same, Noted, Owned
<1>8. Roomy' /\ Laden(s)' /\ Takes2(e) /\ Pipe(f)[1].of = Under(buf[e])
  BY <1>1, <1>2, DropStands DEF Under
<1>9. SendsNone(s, e)
  BY <1>2, <1>7, LiveKeeps
<1>10. ASSUME InOrder(s) PROVE Unharmed(e) /\ TakesOne(s, e, u)
  <2>1. Lane(s, f) /\ Unhurt /\ pc[e] # "closed"
    BY <1>1, <1>3, <1>10 DEF InOrder, Lockstep
  <2>2. PICK a \in Nat : WasTaken(s, e, a) /\ Whole(buf[e]) /\ IsNth(s, f, u, a + 1)
    BY <1>1, <1>2, <2>1, LaneFront DEF u
  <2>3. a = Openings(s, f) + rx[e].seq
    BY <1>1, <1>3, <2>2 DEF WasTaken, HasTaken
  <2>4. Openings(s, f) \in Nat /\ rx[e].seq \in Nat
    BY <1>1, <1>4, FlightIs DEF IsKey, Ends
  <2>5. u.type = "data" /\ u.key = DataKey(s, f) /\ u.seq = rx[e].seq
    <3>1. PICK i \in Nat : i = a + 1
      BY <2>2
    <3>2. ~(i <= Openings(s, f)) /\ i - Openings(s, f) - 1 = rx[e].seq
      BY <2>3, <2>4, <3>1
    <3>3. IsNth(s, f, u, i)
      BY <2>2, <3>1
    <3>4. QED
      BY <3>2, <3>3 DEF IsNth
  <2>6. rx[e].key = DataKey(s, f)
    BY <1>1, <1>3, AtSession DEF InSession
  <2>7. Opens(rx[e], buf[e])
    BY <2>2, <2>5, <2>6 DEF Opens, u
  <2>8. Unharmed(e)
    BY <1>2, <1>6, <2>1, <2>7 DEF Unharmed, Unhurt
  <2>9. rx'[e].seq = rx[e].seq + 1
    BY <1>4, <1>5, <2>5, Advanced
  <2>10. TakesOne(s, e, u)
    BY <1>4, <1>7, <2>9, LiveTakes
  <2>11. QED
    BY <2>8, <2>10
<1>11. InOrder(s) => Onward(s, e, u)
  BY <1>8, <1>9, <1>10 DEF Onward, u
<1>12. QED
  BY <1>2, <1>7, <1>8, <1>10, <1>11, LiveStep

LEMMA CloseHolds ==
  ASSUME SInv, NEW s \in Servers, Holds(s), NEW e \in Ends, Close(e)
  PROVE  Holds(s)'
<1> DEFINE f == Peer(e)
<1>1. /\ Noted /\ server = s /\ Stands(s) /\ WireShaped /\ At(s, e) /\ At(s, f)
      /\ f \in Ends /\ f # e /\ Peer(f) = e /\ \A d \in Ends : d = e \/ d = f
  BY HoldsGives, PeerIs DEF Holds
<1>2. PICK r : r = Seal(tx[e], "alert", "close_notify")
  OBVIOUS
<1>3. /\ server' = server /\ pc[e] = "closing" /\ pc' = [pc EXCEPT ![e] = "closed"] /\ mutex' = None
      /\ (chan' = chan /\ down' = down /\ faulty' = faulty) \/ SendAll(e, r) \/ SendCut(e, r)
      /\ transcript' = transcript /\ next' = next /\ pieces' = pieces /\ seen' = seen /\ secret' = secret
      /\ tx' = [tx EXCEPT ![e] = None] /\ rx' = [rx EXCEPT ![e] = None]
      /\ buf' = [buf EXCEPT ![e] = <<>>] /\ ended' = [ended EXCEPT ![e] = "none"]
  BY <1>2 DEF Close, Goto, wires, handshake
<1>4. /\ pc'[e] = "closed" /\ pc'[f] = pc[f] /\ tx'[f] = tx[f] /\ rx'[f] = rx[f]
      /\ buf'[e] = <<>> /\ buf'[f] = buf[f] /\ DOMAIN buf' = Ends
      /\ ended'[e] = "none" /\ ended'[f] = ended[f]
  BY <1>1, <1>3, Domains DEF WireShaped
<1>5. Same(f) /\ Noted' /\ Owned' /\ pc[e] \in Live
  BY <1>1, <1>3, <1>4 DEF Same, Noted, Owned, Live
<1>6. At(s, e)'
  BY <1>4, AtGone
<1>7. IsKey(tx[e]) /\ tx[e].seq \in Nat /\ tx[e].key = DataKey(s, e) /\ Openings(s, e) \in Nat
  <2>1. IsKey(tx[e])
    BY <1>5, HoldsGives
  <2>2. tx[e].key = DataKey(s, e)
    BY <1>1, <1>5, AtSession DEF InSession
  <2>3. QED
    BY <2>1, <2>2, FlightIs DEF IsKey, Ends
<1>8. r.type = "data" /\ r.key = DataKey(s, e) /\ r.seq = tx[e].seq
  BY <1>2, <1>7, SealIs
<1>9. LoadOk(s, e, r)
  BY <1>8, LoadsAre
<1>e. IsSeq(<<>>) /\ Len(<<>>) <= Window + 1
  <2>1. IsSeq(<<>>) /\ Len(<<>>) = 0
    BY SeqOne
  <2>2. Window \in Nat
    BY TlsAssumption DEF TlsAssumption
  <2>3. QED
    BY <2>1, <2>2
<1> HIDE DEF f
<1>10. /\ Roomy' /\ LaneOk(s, e, Pipe(e)') /\ chan'[e] = chan[e] /\ down' = down /\ (faulty => faulty')
       /\ ~faulty' => Pipe(e)' = Pipe(e) \o Cells(r) \/ Pipe(e)' = Pipe(e)
  <2>1. CASE SendAll(e, r) \/ SendCut(e, r)
    <3>1. DOMAIN buf' = Ends /\ IsSeq(buf'[e]) /\ Len(buf'[e]) <= Window + 1 /\ buf'[Peer(e)] = buf[Peer(e)]
      BY <1>4, <1>e DEF f
    <3>2. QED
      BY <1>1, <1>9, <2>1, <3>1, SendPuts
  <2>2. CASE chan' = chan /\ down' = down /\ faulty' = faulty
    <3>1. Pipe(e)' = Pipe(e)
      BY <1>4, <2>2 DEF Pipe, f
    <3>2. LaneOk(s, e, Pipe(e)')
      BY <1>1, <3>1 DEF Stands, Laden
    <3>3. Roomy'
      BY <1>1, <1>4, <1>e, <2>2 DEF Stands, Roomy
    <3>4. QED
      BY <2>2, <3>1, <3>2, <3>3
  <2>3. QED
    BY <1>3, <2>1, <2>2
<1>11. Laden(s)'
  <2>1. TakesUpTo(f, Len(buf[e]))
    BY <1>1, <1>4, <1>10, DropsAll DEF f
  <2>2. LaneOk(s, f, Pipe(f)')
    <3>1. Moves(f, Plain("ccs", None))
      BY <2>1 DEF Moves
    <3>2. LoadOk(s, f, Plain("ccs", None)) /\ LaneOk(s, f, Pipe(f))
      BY <1>1, LoadsAre DEF Stands, Laden
    <3>3. QED
      BY <1>1, <3>1, <3>2, LaneOkMoves
  <2>3. QED
    BY <1>1, <1>10, <2>2 DEF Laden
<1>12. ASSUME InOrder(s), ~faulty' PROVE Lockstep(s)'
  <2>1. Lane(s, e) /\ Unhurt
    BY <1>12 DEF InOrder, Lockstep
  <2>2. TakesNone(s, Peer(e)) /\ pc'[Peer(e)] = pc[Peer(e)]
    BY <1>1, <1>4, <1>5, IdleTells DEF f
  <2>3. Lane(s, e)'
    <3>1. ASSUME NEW b \in Nat, WasSent(s, e, b)
          PROVE  b = Openings(s, e) + tx[e].seq
      BY <1>5, <3>1 DEF WasSent, HasSent
    <3>2. CASE Pipe(e)' = Pipe(e)
      <4>1. SendsNone(s, e)
        <5> SUFFICES ASSUME NEW b \in Nat, WasSent(s, e, b) PROVE WasSent(s, e, b)'
          BY DEF SendsNone
        <5>1. b >= Openings(s, e)
          BY <1>7, <3>1
        <5>2. QED
          BY <1>4, <5>1 DEF WasSent, HasSent, Live
      <4>2. QED
        BY <2>1, <2>2, <3>2, <4>1, LaneStill
    <3>3. CASE Pipe(e)' = Pipe(e) \o Cells(r)
      <4>1. SendsOne(s, e, r)
        <5> SUFFICES ASSUME NEW b \in Nat, WasSent(s, e, b)
                     PROVE  WasSent(s, e, b + 1)' /\ IsNth(s, e, r, b + 1)
          BY DEF SendsOne
        <5>1. PICK i \in Nat : i = b + 1
          OBVIOUS
        <5>2. i >= Openings(s, e) /\ ~(i <= Openings(s, e)) /\ i - Openings(s, e) - 1 = tx[e].seq
          BY <1>7, <3>1, <5>1
        <5>3. WasSent(s, e, i)'
          BY <1>4, <5>2 DEF WasSent, HasSent, Live
        <5>4. IsNth(s, e, r, i)
          BY <1>8, <5>2 DEF IsNth
        <5>5. QED
          BY <5>1, <5>3, <5>4
      <4>2. QED
        BY <1>1, <2>1, <2>2, <3>3, <4>1, LanePut
    <3>4. QED
      BY <1>10, <1>12, <3>2, <3>3
  <2>4. Lane(s, f)'
    BY <1>1, <1>4 DEF Lane
  <2>5. \A d \in Ends : pc'[d] # "failed" /\ (down'[d] => pc'[d] \in Settled) /\ ended'[d] # "auth"
    <3>1. pc'[e] # "failed" /\ pc'[e] \in Settled /\ ended'[e] # "auth"
      BY <1>4 DEF Settled
    <3>2. pc'[f] # "failed" /\ (down'[f] => pc'[f] \in Settled) /\ ended'[f] # "auth"
      BY <1>1, <1>4, <1>10, <2>1 DEF Unhurt
    <3>3. QED
      BY <1>1, <3>1, <3>2
  <2>6. pc'["server"] \in Settled => pc'["client"] \in Settled
    <3>1. pc[e] \in Settled /\ pc'[e] \in Settled /\ "client" \in Ends /\ "server" \in Ends
      BY <1>4, <1>5, PeerIs DEF Settled
    <3>2. QED
      BY <1>1, <1>4, <2>1, <3>1 DEF Unhurt
  <2>7. QED
    BY <1>1, <2>3, <2>4, <2>5, <2>6 DEF Lockstep, Unhurt
<1>13. QED
  BY <1>3, <1>5, <1>6, <1>10, <1>11, <1>12, StepHolds DEF f

LEMMA SlipsHold ==
  ASSUME SInv, NEW s \in Servers, Holds(s), NEW e \in Ends, CloseSocket(e) \/ UNCHANGED vars
  PROVE  Holds(s)'
<1>1. /\ Noted /\ Owned /\ server = s /\ Stands(s) /\ WireShaped /\ At(s, e) /\ At(s, Peer(e))
      /\ Peer(e) \in Ends /\ DOMAIN down = Ends /\ \A d \in Ends : d = e \/ d = Peer(e)
  BY HoldsGives, PeerIs DEF Holds
<1>2. /\ server' = server /\ pc' = pc /\ buf' = buf /\ chan' = chan /\ faulty' = faulty
      /\ transcript' = transcript /\ next' = next /\ pieces' = pieces /\ seen' = seen
      /\ secret' = secret /\ tx' = tx /\ rx' = rx /\ mutex' = mutex /\ ended' = ended
      /\ down' = down \/ (pc[e] \in {"failed", "closed"} /\ down' = [down EXCEPT ![e] = TRUE])
  BY DEF CloseSocket, vars, wires, handshake, keys, session
<1>3. Same(e) /\ Same(Peer(e)) /\ Noted' /\ Owned'
  BY <1>1, <1>2 DEF Same, Noted, Owned
<1>4. At(s, e)'
  BY <1>1, <1>3, AtSame
<1>5. Roomy' /\ Laden(s)' /\ Steady(e)
  BY <1>1, <1>2, StillStands
<1>6. DOMAIN down' = DOMAIN down /\ \A d \in Ends : down'[d] => down[d] \/ pc[d] \in {"failed", "closed"}
  BY <1>1, <1>2
<1>7. ASSUME InOrder(s) PROVE Lockstep(s)'
  <2>1. SendsNone(s, e) /\ TakesNone(s, e)
    BY <1>1, <1>3, IdleTells
  <2>2. Onward(s, e, s)
    BY <1>5, <2>1 DEF Onward
  <2>3. Lane(s, e) /\ Lane(s, Peer(e)) /\ (pc'[e] # "closed" => pc[e] # "closed")
    BY <1>1, <1>2, <1>7 DEF InOrder, Lockstep
  <2>4. \A d \in Ends : Lane(s, d)'
    BY <1>1, <1>3, <2>2, <2>3, LanesGoOn
  <2>5. Unhurt'
    BY <1>2, <1>6, <1>7 DEF InOrder, Lockstep, Unhurt, Settled
  <2>6. QED
    BY <2>4, <2>5 DEF Lockstep
<1>8. QED
  BY <1>1, <1>2, <1>3, <1>4, <1>5, <1>6, <1>7, StepHolds

LEMMA HoldsNext ==
  ASSUME SInv, NEW s \in Servers, Holds(s), [Next]_vars
  PROVE  Holds(s)'
<1>1. CASE Handshake
  BY <1>1, HandshakeHolds
<1>2. CASE AfterHandshake
  BY <1>2, AfterHandshakeHolds
<1>3. ASSUME NEW e \in Ends, Calls(e) PROVE Holds(s)'
  <2>1. CASE SendPiece(e)
    BY <2>1, SendPieceHolds
  <2>2. CASE CutOff(e)
    BY <2>2, EmptyReadHolds
  <2>3. CASE TakeRecord(e)
    BY <2>3, TakeRecordHolds
  <2>4. CASE Return(e)
    BY <2>4, CallsHold
  <2>5. CASE Close(e)
    BY <2>5, CloseHolds
  <2>6. ASSUME NEW k, ReadMore(e, k) PROVE Holds(s)'
    BY <2>6, ReadMoreHolds
  <2>7. QED
    BY <1>3, <2>1, <2>2, <2>3, <2>4, <2>5, <2>6 DEF Calls
<1>4. ASSUME NEW e \in Ends, Program(e) PROVE Holds(s)'
  <2>1. ASSUME NEW n, CallSend(e, n) \/ CallRecv(e, n) PROVE Holds(s)'
    BY <2>1, CallsHold
  <2>2. CASE ShutDown(e)
    BY <2>2, ShutDownHolds
  <2>3. CASE CallClose(e)
    BY <2>3, CallCloseHolds
  <2>4. CASE RecvGaveUp(e)
    BY <2>4, EmptyReadHolds
  <2>5. QED
    BY <1>4, <2>1, <2>2, <2>3, <2>4 DEF Program
<1>5. ASSUME NEW e \in Ends, CloseSocket(e) PROVE Holds(s)'
  BY <1>5, SlipsHold
<1>6. CASE UNCHANGED vars
  <2>1. "client" \in Ends
    BY PeerIs
  <2>2. QED
    BY <1>6, <2>1, SlipsHold
<1>7. QED
  BY <1>1, <1>2, <1>3, <1>4, <1>5, <1>6 DEF Next

LEMMA HoldsInit ==
  ASSUME Init
  PROVE  server \in Servers /\ Holds(server)
<1> SUFFICES ASSUME NEW s \in Servers, s = server PROVE Holds(s)
  BY DEF Init
<1>1. /\ "client" \in Ends /\ "server" \in Ends /\ Peer("client") = "server" /\ Peer("server") = "client"
  BY PeerIs
<1>2. IsSeq(<<>>) /\ Len(<<>>) = 0 /\ Window \in Nat
  BY SeqOne, TlsAssumption DEF TlsAssumption
<1>3. /\ \A e \in Ends : chan[e] = <<>> /\ buf[e] = <<>> /\ ~down[e] /\ ended[e] = "none" /\ transcript[e] = <<>>
      /\ pc["client"] = "start" /\ pc["server"] = "hello" /\ next = 1 /\ mutex = None /\ DOMAIN down = Ends
      /\ pieces = <<>> /\ ~seen.finished /\ ~seen.asked /\ ~seen.proven /\ Noted
  BY <1>1 DEF Init, Noted
<1>4. Roomy /\ Owned
  BY <1>2, <1>3 DEF Roomy, Owned
<1>5. \A e \in Ends : IsSeq(Pipe(e)) /\ Len(Pipe(e)) = 0
  <2> SUFFICES ASSUME NEW e \in Ends PROVE IsSeq(Pipe(e)) /\ Len(Pipe(e)) = 0
    OBVIOUS
  <2>1. Pipe(e) = <<>> \o <<>>
    BY <1>3, PeerIs DEF Pipe
  <2>2. <<>> \o <<>> = <<>>
    BY ConcatEmptySeq, <1>2 DEF IsSeq
  <2>3. QED
    BY <1>2, <2>1, <2>2
<1>6. Laden(s)
  BY <1>5 DEF Laden, LaneOk
<1>7. ClientAt(s)
  BY <1>1, <1>3 DEF ClientAt, ClientPlaces, Live
<1>8. ServerAt(s)
  BY <1>1, <1>3 DEF ServerAt, ServerPlaces, Live
<1>9. \A e \in Ends : Lane(s, e)
  <2> SUFFICES ASSUME NEW e \in Ends PROVE Lane(s, e)
    OBVIOUS
  <2>1. Lined(s, e, Pipe(e), 0, 0)
    BY <1>5 DEF Lined
  <2>2. WasSent(s, e, 0) /\ WasTaken(s, Peer(e), 0)
    BY <1>1, <1>3 DEF WasSent, HasSent, WasTaken, HasTaken, Live, Ends
  <2>3. QED
    BY <2>1, <2>2 DEF Lane, WasSent, WasTaken
<1>10. Unhurt
  BY <1>1, <1>3 DEF Unhurt, Settled, Live, Ends
<1>11. QED
  BY <1>3, <1>4, <1>6, <1>7, <1>8, <1>9, <1>10 DEF Holds, Local, Lockstep

(* The invariant of the connection: where either end is, what is on its    *)
(* way, and - as long as nothing has failed - that the lanes are in order. *)
THEOREM HInvariance == Spec => [](SInv /\ HInv)
<1>1. Init => HInv
  BY HoldsInit DEF HInv
<1>2. SInv /\ HInv /\ [Next]_vars => HInv'
  BY HoldsNext DEF HInv
<1>3. QED
  BY <1>1, <1>2, SInvariance, PTL DEF Spec

-----------------------------------------------------------------------------
(* What follows                                                            *)

(* A record on its way in a lane has one head.                             *)
LEMMA HeadsOfLane ==
  ASSUME NEW q, NEW n \in Nat, Len(q) = 2 * n,
         \A i \in 1 .. n : q[2 * i - 1].part = "head" /\ q[2 * i].part = "body" /\ q[2 * i - 1].of.type = "data"
  PROVE  Cardinality({i \in 1 .. Len(q) : q[i].part = "head" /\ q[i].of.type = "data"}) = n
<1> DEFINE T == {i \in 1 .. Len(q) : q[i].part = "head" /\ q[i].of.type = "data"}
           f == [i \in 1 .. n |-> 2 * i - 1]
<1>1. ASSUME NEW i \in 1 .. n PROVE f[i] \in T
  <2>1. f[i] = 2 * i - 1 /\ 2 * i - 1 \in 1 .. Len(q)
    OBVIOUS
  <2>2. q[2 * i - 1].part = "head" /\ q[2 * i - 1].of.type = "data"
    OBVIOUS
  <2>3. QED
    BY <2>1, <2>2
<1>2. ASSUME NEW i \in 1 .. n, NEW j \in 1 .. n, f[i] = f[j] PROVE i = j
  <2>1. 2 * i - 1 = 2 * j - 1
    BY <1>2
  <2>2. QED
    BY <2>1
<1>3. ASSUME NEW k \in T PROVE \E i \in 1 .. n : f[i] = k
  <2>1. k \in 1 .. 2 * n /\ q[k].part = "head"
    OBVIOUS
  <2>2. PICK i \in 1 .. n : k = 2 * i - 1 \/ k = 2 * i
    <3>1. \E i \in 1 .. n : k = 2 * i - 1 \/ k = 2 * i
      <4>1. (k + 1) \div 2 \in 1 .. n /\ (k = 2 * ((k + 1) \div 2) - 1 \/ k = 2 * ((k + 1) \div 2))
        BY <2>1
      <4>2. QED
        BY <4>1
    <3>2. QED
      BY <3>1
  <2>3. k # 2 * i
    BY <2>1
  <2>4. QED
    BY <2>2, <2>3
<1> DEFINE S == 1 .. n
<1>4. f \in [S -> T]
  BY <1>1
<1> HIDE DEF f, T
<1>5. ExistsBijection(S, T)
  <2>1. f \in Injection(S, T) /\ f \in Surjection(S, T)
    BY <1>2, <1>3, <1>4 DEF Injection, IsInjective, Surjection
  <2>2. QED
    BY <2>1 DEF ExistsBijection, Bijection
<1>6. Cardinality(T) = n
  BY <1>5, FS_CountingElements
<1>7. QED
  BY <1>6 DEF T

(* In the handshake the only failures are those of the sockets, and of a   *)
(* server that does not prove its identity (tls.cpp:640-1219, 250).        *)
THEOREM OnlyFaultsDoHurt == Spec => []OnlyFaultsHurt
<1>1. ASSUME SInv, HInv PROVE OnlyFaultsHurt
  <2>1. PICK s \in Servers : Holds(s)
    BY <1>1 DEF HInv
  <2>2. Proves <=> Proven(s)
    <3>1. DOMAIN s.messages = 1 .. Len(s.messages)
      <4>1. s.messages \in Seq(STRING)
        BY FlightIs
      <4>2. QED
        BY <4>1
    <3>2. QED
      BY <2>1, <3>1 DEF Holds, Proves, Proven, Named
  <2>3. ASSUME NEW e \in Ends, pc[e] = "failed" \/ ended[e] = "auth" PROVE faulty \/ ~Proves
    BY <2>1, <2>2, <2>3 DEF Holds, Lockstep, Unhurt
  <2>4. ~Proves => pc["client"] # "open"
    BY <2>1, <2>2 DEF Holds, Local, ClientAt, Live
  <2>5. QED
    BY <2>3, <2>4 DEF OnlyFaultsHurt
<1>2. QED
  BY <1>1, HInvariance, PTL

LEMMA StepsMatch ==
  ASSUME SInv, NEW s \in Servers, Holds(s), NEW e \in Ends, pc["client"] = "open", pc["server"] = "open"
  PROVE  tx[e].key = rx[Peer(e)].key /\ (faulty \/ tx[e].seq = rx[Peer(e)].seq + InFlight(e))
<1> DEFINE f == Peer(e)
<1>1. /\ f \in Ends /\ Peer(f) = e /\ pc[e] \in Live /\ pc[f] \in Live /\ pc[f] # "closed"
  BY PeerIs DEF Ends, Live
<1>2. At(s, e) /\ At(s, f) /\ IsKey(tx[e]) /\ IsKey(rx[f]) /\ At(s, "client") /\ pc["client"] \in Live
  BY <1>1, HoldsGives DEF Live
<1>3. tx[e].key = DataKey(s, e) /\ rx[f].key = DataKey(s, e) /\ Proven(s)
  <2>1. InSession(s, e) /\ InSession(s, f)
    BY <1>1, <1>2, AtSession
  <2>2. Proven(s)
    BY <1>1, <2>1, PeerIs DEF InSession, Ends
  <2>3. QED
    BY <1>1, <2>1, <2>2 DEF InSession
<1> HIDE DEF f
<1>4. ASSUME ~faulty PROVE tx[e].seq = rx[f].seq + InFlight(e)
  <2>1. Lane(s, e)
    BY <1>3, <1>4 DEF Holds, Lockstep
  <2>2. PICK a \in Nat, b \in Nat : Lined(s, e, Pipe(e), a, b) /\ WasSent(s, e, b) /\ WasTaken(s, f, a)
    BY <1>1, <2>1 DEF Lane, WasSent, WasTaken, f
  <2>3. PICK o \in Nat, x \in Nat, y \in Nat : o = Openings(s, e) /\ x = tx[e].seq /\ y = rx[f].seq
    BY <1>2, FlightIs DEF IsKey, Ends
  <2>4. b = o + x /\ a = o + y
    BY <1>1, <2>2, <2>3 DEF WasSent, HasSent, WasTaken, HasTaken
  <2>5. PICK q : q = Pipe(e)
    OBVIOUS
  <2>6. PICK n \in Nat : n = b - a
    BY <2>2 DEF Lined
  <2>7. /\ Len(q) = 2 * n
        /\ \A i \in 1 .. n : /\ q[2 * i - 1].part = "head" /\ q[2 * i].part = "body"
                             /\ IsNth(s, e, q[2 * i - 1].of, a + i)
    BY <2>2, <2>5, <2>6 DEF Lined
  <2>8. ASSUME NEW i \in 1 .. n PROVE q[2 * i - 1].of.type = "data"
    <3>1. PICK j \in Nat : j = a + i
      OBVIOUS
    <3>2. ~(j <= Openings(s, e))
      BY <2>3, <2>4, <3>1
    <3>3. IsNth(s, e, q[2 * i - 1].of, j)
      BY <2>7, <3>1
    <3>4. QED
      BY <3>2, <3>3 DEF IsNth
  <2>9. \A i \in 1 .. n : q[2 * i - 1].part = "head" /\ q[2 * i].part = "body" /\ q[2 * i - 1].of.type = "data"
    BY <2>7, <2>8
  <2>10. Cardinality({i \in 1 .. Len(q) : q[i].part = "head" /\ q[i].of.type = "data"}) = n
    <3>1. Len(q) = 2 * n
      BY <2>7
    <3>2. QED
      BY <2>9, <3>1, HeadsOfLane
  <2>11. InFlight(e) = n
    BY <2>5, <2>10 DEF InFlight, Pipe
  <2>12. x = y + n
    BY <2>4, <2>6
  <2>13. QED
    BY <2>3, <2>11, <2>12
<1>5. QED
  BY <1>3, <1>4 DEF f

(* The ends of an open connection use the same keys, the number the reader *)
(* expects is behind by the records on the way, and what recv() returns is *)
(* what was said (tls.cpp:233-250, 1231-1340).                             *)
THEOREM RecordsStaySound == Spec => []RecordsAreSound
<1>1. ASSUME SInv, HInv PROVE TypeOK /\ InStep
  <2>1. PICK s \in Servers : Holds(s)
    BY <1>1 DEF HInv
  <2>2. ASSUME NEW e \in Ends, pc[e] = "open" PROVE tx[e].key[3] = secret[e] /\ Len(secret[e]) > 2
    <3>1. InSession(s, e)
      BY <1>1, <2>1, <2>2, HoldsGives, AtSession DEF Live
    <3>2. tx[e].key = DataKey(s, e) /\ secret[e] = Full(s)
      BY <3>1 DEF InSession
    <3>3. DataKey(s, e)[3] = Full(s)
      BY KeysAre
    <3>4. Len(Full(s)) > 2
      <4>1. PICK k \in 0 .. Len(s.messages) : k = Len(s.messages) /\ k > 0
        BY FlightIs
      <4>2. Len(Tale(s, k)) = k + 2
        BY TaleIs
      <4>3. QED
        BY <4>1, <4>2 DEF Full
    <3>5. QED
      BY <3>2, <3>3, <3>4
  <2>3. TypeOK
    BY <2>1, <2>2 DEF TypeOK, Holds, Roomy, Owned
  <2>4. InStep
    BY <1>1, <2>1, StepsMatch DEF InStep
  <2>5. QED
    BY <2>3, <2>4
<1>2. QED
  BY <1>1, HInvariance, DataIsGenuine, PTL DEF RecordsAreSound
===============================================================================
