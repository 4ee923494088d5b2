--------------------------- MODULE WebSocketProofs ---------------------------
(* Theorems about a websocket session for any frames, limits and cuts of   *)
(* the stream.  The first invariant, IInv, is about the buffer and the     *)
(* handshake: a refused frame stays refused, the closing handshake is made *)
(* once, and the read buffer stays bounded.  The second, Sound, relates    *)
(* what lies ahead of the reader to what was sent, returned and answered:  *)
(* recv() returns the messages of the server, and answers its pings.       *)
EXTENDS WebSocket, SequenceTheorems, WellFoundedInduction, TLAPS

-----------------------------------------------------------------------------
(* The inductive invariant                                                 *)

CellSet ==
  [frame : Nat, part : {"head", "ext", "key", "data", "line", "blank"}, clear : BOOLEAN]
Sends == [op : {"text", "pong", "close"}, payload : Payloads]

OfUpgrade(c) == c.part \in {"line", "blank"}

Typed ==
  /\ TypeOK
  /\ buf \in Seq(CellSet) /\ wire \in Seq(CellSet) /\ answers \in Seq(Sends)

(* Where in its life a session is while the reader is somewhere.           *)
Phased ==
  /\ InRecv => life = "open" /\ ~closed
  /\ pc = "upgrade" => life = "new"
  /\ life = "new" =>
       /\ pc \in {"idle", "upgrade"} /\ outcome = "none" /\ ~closed
       /\ pos = 0 /\ message = <<>> /\ answers = <<>>
       /\ pc = "idle" => buf = <<>>
  /\ life = "freed" => pc = "done"

(* Every cell is of a frame the server sent or of its upgrade response,    *)
(* of which none is left behind the parse position of an open session.     *)
Known ==
  /\ \A n \in DOMAIN buf : ~OfUpgrade(buf[n]) => buf[n].frame \in DOMAIN sent
  /\ \A n \in DOMAIN wire : ~OfUpgrade(wire[n]) => wire[n].frame \in DOMAIN sent

Parsed ==
  life = "open" =>
    /\ \A n \in pos + 1 .. Len(buf) : ~OfUpgrade(buf[n])
    /\ \A n \in DOMAIN wire : ~OfUpgrade(wire[n])

(* While the upgrade is read its response is two cells, then frames.       *)
Upgrading ==
  pc = "upgrade" /\ response = "switches" =>
    /\ Len(buf) <= 1
    /\ link = "up" => Len(buf) + Len(wire) >= 2
    /\ \A n \in DOMAIN buf : buf[n].part = "line"
    /\ \A n \in DOMAIN wire : /\ wire[n].part = "line" <=> n + Len(buf) = 1
                              /\ wire[n].part = "blank" <=> n + Len(buf) = 2

(* The body of a frame is waited for only once its head was accepted, so   *)
(* what is buffered is one frame, one read and a small prefix.             *)
Accepted == pc = "body" => Unread >= 1 /\ ~Flawed(Current)

Bounded == life = "open" => Len(buf) <= CompactAt + MaxFrame + Chunk + 1

(* After a refusal the refused frame is still the one to be parsed, and    *)
(* enough of it is there to be refused without another read.               *)
Refusing ==
  outcome = "refused" /\ life = "open" =>
    /\ Unread >= 1 /\ message = <<>>
    /\ \/ Flawed(Current) /\ Unread >= HeadLen(Current) /\ pc # "body"
       \/ Current.op \in {"cont", "unknown"} /\ Unread >= FrameLen(Current)

(* A close frame was sent by a session that is closed or gone.             *)
Closing == (\E i \in DOMAIN answers : answers[i].op = "close") => closed \/ life = "freed"

IInv ==
  /\ Typed /\ Phased /\ Known /\ Parsed /\ Upgrading /\ Accepted /\ Bounded
  /\ Refusing /\ Closing /\ CloseOnce

-----------------------------------------------------------------------------
(* Frames as cells                                                         *)

KeyLen(f) == IF f.masked THEN 1 ELSE 0
Length(f) == HeadLen(f) + KeyLen(f) + f.len

LEMMA FrameType ==
  ASSUME NEW f \in Frames
  PROVE  /\ f.op \in Data \cup Control \cup {"cont", "unknown"}
         /\ f.fin \in BOOLEAN /\ f.len \in Nat /\ f.masked \in BOOLEAN /\ f.rsv \in BOOLEAN
  BY WebSocketAssumption

LEMMA OneOrNone ==
  ASSUME NEW S, NEW e \in S
  PROVE  /\ <<e>> \in Seq(S) /\ Len(<<e>>) = 1
         /\ <<>> \in Seq(S) /\ Len(<<>>) = 0
  OBVIOUS

(* A cell as it was sent: only the payload of a masked frame is not clear. *)
Fresh(f, z) == IF z.part = "data" /\ f.masked THEN z.clear = FALSE ELSE z.clear = TRUE

LEMMA CellsShape ==
  ASSUME NEW f \in Frames, NEW i \in Nat
  PROVE  /\ Cells(i, f) \in Seq(CellSet)
         /\ Len(Cells(i, f)) = Length(f)
         /\ \A n \in DOMAIN Cells(i, f) : 
              Cells(i, f)[n].frame = i /\ ~OfUpgrade(Cells(i, f)[n]) /\ Fresh(f, Cells(i, f)[n])
<1> DEFINE D == [frame : {i}, part : {"head", "ext", "key", "data"}, clear : BOOLEAN]
           C == {z \in D : Fresh(f, z)}
           h == Cell(i, "head", TRUE)
           x == Cell(i, "ext", TRUE)
           y == Cell(i, "key", TRUE)
           d(n) == Cell(i, "data", ~f.masked)
           ext == IF f.len > Short THEN <<x>> ELSE <<>>
           key == IF f.masked THEN <<y>> ELSE <<>>
           data == [n \in 1 .. f.len |-> d(n)]
<1>1. /\ h \in C /\ x \in C /\ y \in C
      /\ \A n \in 1 .. f.len : d(n) \in C
  <2>1. h \in D /\ x \in D /\ y \in D /\ h.part = "head" /\ x.part = "ext" /\ y.part = "key"
        /\ h.clear = TRUE /\ x.clear = TRUE /\ y.clear = TRUE
    BY DEF Cell
  <2>2. \A n \in 1 .. f.len : d(n) \in D /\ d(n).part = "data" /\ d(n).clear = ~f.masked
    BY FrameType DEF Cell
  <2>3. f.masked \in BOOLEAN
    BY FrameType
  <2> HIDE DEF h, x, y, d
  <2>4. \A n \in 1 .. f.len : Fresh(f, d(n))
    BY <2>2, <2>3 DEF Fresh
  <2>5. QED
    BY <2>1, <2>2, <2>4 DEF Fresh
<1>2. C \subseteq CellSet /\ \A c \in C : c.frame = i /\ ~OfUpgrade(c) /\ Fresh(f, c)
  BY DEF CellSet, OfUpgrade
<1>3. Cells(i, f) = <<h>> \o ext \o key \o data
  BY DEF Cells
<1> HIDE DEF C, D, h, x, y, d
<1>4. /\ <<h>> \in Seq(C) /\ Len(<<h>>) = 1
      /\ ext \in Seq(C) /\ Len(ext) = IF f.len > Short THEN 1 ELSE 0
      /\ key \in Seq(C) /\ Len(key) = KeyLen(f)
  <2>1. CASE f.len > Short
    BY <1>1, <2>1, OneOrNone DEF KeyLen
  <2>2. CASE ~(f.len > Short)
    BY <1>1, <2>2, OneOrNone DEF KeyLen
  <2>3. QED
    BY <2>1, <2>2
<1>5. data \in Seq(C) /\ Len(data) = f.len
  <2>1. data \in [1 .. f.len -> C]
    BY <1>1
  <2>2. QED
    BY <2>1, FrameType
<1>0. HeadLen(f) \in Nat /\ KeyLen(f) \in Nat /\ f.len \in Nat
  BY FrameType DEF HeadLen, KeyLen
<1> HIDE DEF ext, key, data
<1>6. Cells(i, f) \in Seq(C) /\ Len(Cells(i, f)) = Length(f)
  <2> DEFINE head == <<h>> \o ext
             front == head \o key
  <2>1. head \in Seq(C) /\ Len(head) = HeadLen(f)
    BY SMTT(30), <1>4, ConcatProperties DEF HeadLen
  <2>2. front \in Seq(C) /\ Len(front) = HeadLen(f) + KeyLen(f)
    <3> HIDE DEF head
    <3>1. front \in Seq(C) /\ Len(front) = Len(head) + Len(key)
      BY <2>1, <1>4, ConcatProperties
    <3>2. QED
      BY <2>1, <1>4, <3>1
  <2>3. front \o data \in Seq(C) /\ Len(front \o data) = HeadLen(f) + KeyLen(f) + f.len
    <3> HIDE DEF front
    <3>1. front \o data \in Seq(C) /\ Len(front \o data) = Len(front) + Len(data)
      BY <2>2, <1>5, ConcatProperties
    <3>2. QED
      BY <2>2, <1>5, <3>1
  <2>4. QED
    BY <2>3, <1>3 DEF Length
<1>7. Cells(i, f) \in Seq(CellSet) /\ \A n \in DOMAIN Cells(i, f) : Cells(i, f)[n] \in C
  BY <1>2, <1>6
<1>8. QED
  BY <1>2, <1>6, <1>7

LEMMA FrameLenIs ==
  ASSUME NEW f \in Frames
  PROVE  /\ FrameLen(f) = Length(f) /\ FrameLen(f) \in Nat
         /\ HeadLen(f) \in 1 .. 2 /\ HeadLen(f) <= FrameLen(f) /\ FrameLen(f) <= f.len + 3
  BY SMTT(30), CellsShape, FrameType, WebSocketAssumption DEF FrameLen, Length, HeadLen, KeyLen

(* The frame under the parse position is one that was sent.                *)
LEMMA CurrentSent ==
  ASSUME Typed, Known, Parsed, life = "open", Unread >= 1
  PROVE  Number \in DOMAIN sent /\ Number \in 1 .. MaxSent /\ Current \in Frames
<1>1. pos + 1 \in pos + 1 .. Len(buf) /\ pos + 1 \in DOMAIN buf
  BY DEF Typed, TypeOK, Unread
<1>2. Number \in DOMAIN sent
  BY <1>1 DEF Known, Parsed, Number
<1>3. QED
  BY SMTT(30), <1>2, WebSocketAssumption DEF Typed, TypeOK, Current

(* What a reader that does not wait has before it.                         *)
LEMMA HeadThere ==
  ASSUME Typed, Known, Parsed, life = "open", pc = "head", ~Starved
  PROVE  Current \in Frames /\ Unread \in Nat /\ Unread >= 1 /\ Unread >= HeadLen(Current)
<1>1. Unread \in Nat
  BY DEF Unread, Typed, TypeOK
<1>2. Need = IF Unread = 0 THEN 1 ELSE HeadLen(Current)
  BY DEF Need
<1>3. ~(Unread < Need)
  BY DEF Starved
<1>4. Unread >= 1
  BY <1>1, <1>2, <1>3
<1>5. Current \in Frames
  BY <1>4, CurrentSent
<1>6. HeadLen(Current) \in 1 .. 2 /\ Need = HeadLen(Current)
  BY <1>1, <1>2, <1>4, <1>5, FrameLenIs
<1>7. QED
  BY <1>1, <1>3, <1>4, <1>5, <1>6

LEMMA FrameThere ==
  ASSUME Typed, Known, Parsed, life = "open", Accepted, pc = "body", ~Starved
  PROVE  /\ Current \in Frames /\ Unread \in Nat /\ Unread >= 1
         /\ FrameLen(Current) \in 1 .. Unread
<1>1. Unread \in Nat
  BY DEF Unread, Typed, TypeOK
<1>2. Current \in Frames /\ Unread >= 1
  BY CurrentSent DEF Accepted
<1>3. FrameLen(Current) \in Nat /\ FrameLen(Current) >= 1
  BY <1>2, FrameLenIs
<1>4. ~(Unread < FrameLen(Current))
  BY DEF Starved, Need
<1>5. QED
  BY <1>1, <1>2, <1>3, <1>4

(* Two positions at the same distance from their ends.                     *)
LEMMA Shifted ==
  ASSUME NEW a \in Nat, NEW p \in Nat, NEW b \in Nat, NEW q \in Nat, b - q = a - p, NEW n \in q + 1 .. b
  PROVE  n - q \in 1 .. a - p /\ q + (n - q) = n /\ p + (n - q) \in p + 1 .. a
  OBVIOUS

LEMMA Joined ==
  ASSUME NEW S, NEW s \in Seq(S), NEW t \in Seq(S)
  PROVE  /\ s \o t \in Seq(S) /\ Len(s) \in Nat /\ Len(t) \in Nat
         /\ Len(s \o t) = Len(s) + Len(t)
         /\ \A i \in 1 .. Len(s) : (s \o t)[i] = s[i]
         /\ \A i \in 1 .. Len(t) : (s \o t)[Len(s) + i] = t[i]
  OBVIOUS

LEMMA Piece ==
  ASSUME NEW S, NEW s \in Seq(S), NEW k \in 0 .. Len(s)
  PROVE  /\ SubSeq(s, 1, k) \in Seq(S) /\ Len(SubSeq(s, 1, k)) = k
         /\ \A i \in 1 .. k : SubSeq(s, 1, k)[i] = s[i]
         /\ SubSeq(s, k + 1, Len(s)) \in Seq(S) /\ Len(SubSeq(s, k + 1, Len(s))) = Len(s) - k
         /\ \A i \in 1 .. Len(s) - k : SubSeq(s, k + 1, Len(s))[i] = s[k + i]
  OBVIOUS

(* Compacting the buffer keeps what is unread.                             *)
Compacts(b, p, c, q) ==
  /\ c \in Seq(CellSet) /\ q \in 0 .. Len(c) /\ q < CompactAt
  /\ Len(c) - q = Len(b) - p
  /\ \A n \in 1 .. Len(b) - p : c[q + n] = b[p + n]
  /\ \A n \in 1 .. Len(c) : \E m \in 1 .. Len(b) : c[n] = b[m]

LEMMA Compacted ==
  ASSUME NEW b \in Seq(CellSet), NEW p \in 0 .. Len(b)
  PROVE  Compacts(b, p, Compact(b, p).buf, Compact(b, p).pos)
<1>0. Len(b) \in Nat /\ CompactAt \in Nat \ {0}
  BY WebSocketAssumption
<1>1. CASE p > 0 /\ (p = Len(b) \/ p >= CompactAt)
  <2> DEFINE t == SubSeq(b, p + 1, Len(b))
  <2>1. Compact(b, p).buf = t /\ Compact(b, p).pos = 0
    BY <1>1 DEF Compact
  <2>2. /\ t \in Seq(CellSet) /\ Len(t) = Len(b) - p
        /\ \A n \in 1 .. Len(b) - p : t[n] = b[p + n]
    BY Piece
  <2> HIDE DEF t
  <2>3. \A n \in 1 .. Len(t) : p + n \in 1 .. Len(b) /\ t[n] = b[p + n]
    BY <2>2, <1>0
  <2>4. \A n \in 1 .. Len(b) - p : t[0 + n] = b[p + n]
    BY <2>2, <1>0
  <2>5. Compacts(b, p, t, 0)
    BY <2>2, <2>3, <2>4, <1>0 DEF Compacts
  <2>6. QED
    BY <2>1, <2>5
<1>2. CASE ~(p > 0 /\ (p = Len(b) \/ p >= CompactAt))
  <2>1. Compact(b, p).buf = b /\ Compact(b, p).pos = p
    BY <1>2 DEF Compact
  <2>2. Compacts(b, p, b, p)
    BY <1>2, <1>0 DEF Compacts
  <2>3. QED
    BY <2>1, <2>2
<1>3. QED
  BY <1>1, <1>2

(* One read: k cells move from the wire w to behind what is unread.        *)
Refills(b, p, w, c, q, v, k) ==
  /\ c \in Seq(CellSet) /\ v \in Seq(CellSet)
  /\ q \in 0 .. Len(c) /\ q < CompactAt /\ Len(c) - q = Len(b) - p + k
  /\ \A n \in 1 .. Len(b) - p : c[q + n] = b[p + n]
  /\ \A n \in 1 .. Len(c) : (\E m \in 1 .. Len(b) : c[n] = b[m]) \/ (\E m \in 1 .. Len(w) : c[n] = w[m])
  /\ \A n \in q + 1 .. Len(c) :
       (\E m \in p + 1 .. Len(b) : c[n] = b[m]) \/ (\E m \in 1 .. Len(w) : c[n] = w[m])
  /\ \A n \in 1 .. Len(v) : \E m \in 1 .. Len(w) : v[n] = w[m]

LEMMA Refilled ==
  ASSUME NEW b \in Seq(CellSet), NEW p \in 0 .. Len(b), NEW w \in Seq(CellSet), NEW k \in 0 .. Len(w)
  PROVE  Refills(b, p, w, Compact(b, p).buf \o SubSeq(w, 1, k), Compact(b, p).pos,
                 SubSeq(w, k + 1, Len(w)), k)
<1> DEFINE c == Compact(b, p).buf
           q == Compact(b, p).pos
           new == SubSeq(w, 1, k)
           v == SubSeq(w, k + 1, Len(w))
           d == c \o new
<1>0. Len(b) \in Nat /\ Len(w) \in Nat
  OBVIOUS
<1>1. Compacts(b, p, c, q)
  BY Compacted
<1>2. /\ new \in Seq(CellSet) /\ Len(new) = k /\ \A n \in 1 .. k : new[n] = w[n]
      /\ v \in Seq(CellSet) /\ Len(v) = Len(w) - k /\ \A n \in 1 .. Len(w) - k : v[n] = w[k + n]
  BY Piece
<1> HIDE DEF c, q, new, v
<1>3. c \in Seq(CellSet) /\ q \in 0 .. Len(c) /\ q < CompactAt /\ Len(c) \in Nat
  BY <1>1 DEF Compacts
<1>4. Len(c) - q = Len(b) - p
  BY <1>1 DEF Compacts
<1>5. /\ d \in Seq(CellSet) /\ Len(d) = Len(c) + k
      /\ \A n \in 1 .. Len(c) : d[n] = c[n]
      /\ \A n \in 1 .. k : d[Len(c) + n] = w[n]
  <2>1. /\ d \in Seq(CellSet) /\ Len(d) = Len(c) + Len(new)
        /\ \A n \in 1 .. Len(c) : d[n] = c[n]
        /\ \A n \in 1 .. Len(new) : d[Len(c) + n] = new[n]
    <3>1. c \in Seq(CellSet) /\ new \in Seq(CellSet)
      BY <1>2, <1>3
    <3>2. QED
      BY <3>1, Joined
  <2> HIDE DEF d
  <2>2. QED
    BY <2>1, <1>2
<1> HIDE DEF d
<1>6. \A n \in 1 .. Len(c) : d[n] = c[n] /\ \E m \in 1 .. Len(b) : d[n] = b[m]
  BY <1>1, <1>5 DEF Compacts
<1>7. \A n \in Len(c) + 1 .. Len(d) : \E m \in 1 .. Len(w) : d[n] = w[m]
  <2> TAKE n \in Len(c) + 1 .. Len(d)
  <2>1. n - Len(c) \in 1 .. k /\ n = Len(c) + (n - Len(c)) /\ n - Len(c) \in 1 .. Len(w)
    BY <1>0, <1>3, <1>5
  <2>2. d[n] = w[n - Len(c)]
    BY <2>1, <1>5
  <2>3. QED
    BY <2>1, <2>2
<1>8. \A n \in 1 .. Len(b) - p : q + n \in 1 .. Len(c) /\ c[q + n] = b[p + n]
  BY <1>0, <1>1, <1>3, <1>4 DEF Compacts
<1>9. \A n \in q + 1 .. Len(c) : \E m \in p + 1 .. Len(b) : d[n] = b[m]
  <2> TAKE n \in q + 1 .. Len(c)
  <2>1. n - q \in 1 .. Len(b) - p /\ n = q + (n - q) /\ p + (n - q) \in p + 1 .. Len(b) /\ n \in 1 .. Len(c)
    BY <1>0, <1>3, <1>4
  <2>2. c[n] = b[p + (n - q)]
    BY <2>1, <1>8
  <2>3. QED
    BY <2>1, <2>2, <1>5
<1>10. \A n \in 1 .. Len(v) : \E m \in 1 .. Len(w) : v[n] = w[m]
  <2> TAKE n \in 1 .. Len(v)
  <2>1. k + n \in 1 .. Len(w) /\ v[n] = w[k + n]
    BY <1>0, <1>2
  <2>2. QED
    BY <2>1
<1>11. \A n \in 1 .. Len(b) - p : d[q + n] = b[p + n]
  BY <1>5, <1>8
<1>12. q \in 0 .. Len(d) /\ Len(d) - q = Len(b) - p + k
  <2>1. Len(d) = Len(c) + k
    BY <1>5
  <2>2. q \in Nat /\ p \in Nat /\ k \in Nat /\ q <= Len(c)
    BY <1>0, <1>3
  <2>3. Len(d) \in Nat /\ Len(c) \in Nat
    BY <1>3, <1>5
  <2>4. QED
    BY <2>1, <2>2, <2>3, <1>0, <1>4
<1>13. \A n \in 1 .. Len(d) : n \in 1 .. Len(c) \/ n \in Len(c) + 1 .. Len(d)
  BY <1>3, <1>5
<1>14. \A n \in q + 1 .. Len(d) : n \in q + 1 .. Len(c) \/ n \in Len(c) + 1 .. Len(d)
  BY <1>3, <1>5
<1>15. Refills(b, p, w, d, q, v, k)
  BY <1>2, <1>3, <1>5, <1>6, <1>7, <1>9, <1>10, <1>11, <1>12, <1>13, <1>14 DEF Refills
<1>16. QED
  BY <1>15 DEF c, q, new, v, d

-----------------------------------------------------------------------------
(* The steps                                                               *)

LEMMA Answered ==
  ASSUME Typed, Closing, CloseOnce, NEW a \in Sends, answers' = Append(answers, a),
         a.op = "close" => ~closed /\ life # "freed" /\ (closed' \/ life' = "freed"),
         closed => closed', life = "freed" => life' = "freed"
  PROVE  answers' \in Seq(Sends) /\ Closing' /\ CloseOnce'
<1>1. /\ answers' \in Seq(Sends) /\ Len(answers) \in Nat
      /\ DOMAIN answers = 1 .. Len(answers) /\ DOMAIN answers' = 1 .. Len(answers) + 1
      /\ \A i \in 1 .. Len(answers) : answers'[i] = answers[i]
      /\ answers'[Len(answers) + 1] = a
  BY AppendProperties DEF Typed
<1>2. CASE a.op = "close"
  <2>1. \A i \in 1 .. Len(answers) : answers'[i].op # "close"
    BY <1>1, <1>2 DEF Closing
  <2>2. CloseOnce'
    BY <1>1, <2>1 DEF CloseOnce
  <2>3. QED
    BY <1>1, <1>2, <2>2 DEF Closing
<1>3. CASE a.op # "close"
  <2>1. \A i \in DOMAIN answers' : answers'[i].op = "close" => i \in DOMAIN answers
    BY <1>1, <1>3
  <2>2. CloseOnce'
    BY <1>1, <2>1 DEF CloseOnce
  <2>3. QED
    BY <1>1, <2>1, <2>2 DEF Closing
<1>4. QED
  BY <1>2, <1>3

LEMMA NotAnswered ==
  ASSUME Typed, Closing, CloseOnce, UNCHANGED answers,
         closed => closed', life = "freed" => life' = "freed"
  PROVE  answers' \in Seq(Sends) /\ Closing' /\ CloseOnce'
  BY DEF Typed, Closing, CloseOnce

(* Steps that leave the frames, the wire and the buffer alone.             *)
Quiet ==
  \/ PeerLeaves \/ UpgradeCutOff \/ CallRecv \/ CheckHead
  \/ SendText \/ Shutdown \/ StopReading \/ CloseSession \/ UNCHANGED vars

LEMMA QuietAnswers ==
  ASSUME IInv, Quiet
  PROVE  answers' \in Seq(Sends) /\ Closing' /\ CloseOnce'
<1> DEFINE none == [frame |-> 0, clear |-> TRUE]
<1>0. none \in Payloads
  BY WebSocketAssumption DEF Payloads
<1>1. CASE SendText
  <2>1. UNCHANGED <<closed, life>>
    BY <1>1 DEF SendText, session
  <2>2. CASE SendWorks(Answer("text", none))
    <3>1. Answer("text", none) \in Sends /\ Answer("text", none).op # "close"
      BY <1>0 DEF Answer, Sends
    <3>2. QED
      BY <2>1, <2>2, <3>1, Answered DEF SendWorks, IInv
  <2>3. CASE SendFails
    BY <2>1, <2>3, NotAnswered DEF SendFails, IInv
  <2>4. QED
    BY <1>1, <2>2, <2>3 DEF SendText
<1>2. CASE CloseSession
  <2>1. life = "open" /\ life' = "freed" /\ closed' = closed
    BY <1>2 DEF CloseSession
  <2>2. CASE ~closed /\ SendWorks(Answer("close", none))
    <3>1. Answer("close", none) \in Sends
      BY <1>0 DEF Answer, Sends
    <3>2. QED
      BY <2>1, <2>2, <3>1, Answered DEF SendWorks, IInv
  <2>3. CASE UNCHANGED answers
    BY <2>1, <2>3, NotAnswered DEF IInv
  <2>4. QED
    BY <1>2, <2>2, <2>3 DEF CloseSession, SendFails
<1>3. CASE PeerLeaves \/ UpgradeCutOff \/ CallRecv \/ CheckHead \/ Shutdown \/ StopReading \/ UNCHANGED vars
  <2>1. UNCHANGED <<answers, closed>> /\ (life' = life \/ life # "freed")
    BY <1>3 DEF PeerLeaves, UpgradeCutOff, CallRecv, CheckHead, Shutdown, StopReading, vars, results, session,
           IInv, Phased
  <2>2. QED
    BY <2>1, NotAnswered DEF IInv
<1>4. QED
  BY <1>1, <1>2, <1>3 DEF Quiet

LEMMA QuietStep ==
  ASSUME IInv, Quiet
  PROVE  IInv'
<1> USE DEF IInv
<1>1. UNCHANGED <<response, sent, wire, buf, pos>>
  BY DEF Quiet, PeerLeaves, UpgradeCutOff, CallRecv, CheckHead, SendText, Shutdown, StopReading,
         CloseSession, vars, environment, session
<1>2. /\ life' \in {life, "freed"} /\ closed' = closed
      /\ pc' = "upgrade" => pc = "upgrade" /\ (link' = "up" => link = "up")
  BY DEF Quiet, PeerLeaves, UpgradeCutOff, CallRecv, CheckHead, SendText, Shutdown, StopReading,
         CloseSession, SendWorks, SendFails, Throw, vars, environment, session, Typed, TypeOK
<1>3. Typed'
  <2>1. message' \in {message, <<>>}
    BY DEF Quiet, PeerLeaves, UpgradeCutOff, CallRecv, CheckHead, SendText, Shutdown, StopReading,
           CloseSession, Throw, vars, environment, session
  <2>2. /\ link' \in {"up", "gone", "reset"} /\ shut' \in BOOLEAN
        /\ pc' \in {"idle", "upgrade", "head", "body", "done"}
        /\ outcome' \in {"none", "message", "closed", "lost", "refused", "interleaved"}
    BY DEF Quiet, PeerLeaves, UpgradeCutOff, CallRecv, CheckHead, SendText, Shutdown, StopReading,
           CloseSession, SendWorks, SendFails, Throw, vars, environment, session, results, Typed, TypeOK
  <2>3. message' \in Seq(Payloads)
    <3>1. <<>> \in Seq(Payloads) /\ message \in Seq(Payloads)
      BY DEF Typed, TypeOK
    <3>2. QED
      BY <2>1, <3>1
  <2>4. TypeOK'
    BY <1>1, <1>2, <2>2, <2>3 DEF Typed, TypeOK
  <2>5. QED
    BY <1>1, <2>4, QuietAnswers DEF Typed
<1>4. Phased'
  BY <1>1 DEF Phased, InRecv, Quiet, PeerLeaves, UpgradeCutOff, CallRecv, CheckHead, SendText, Shutdown,
              StopReading, CloseSession, SendWorks, SendFails, Throw, vars, environment, session, results
<1>5. Known' /\ Parsed' /\ Bounded'
  BY <1>1, <1>2 DEF Known, Parsed, Bounded
<1>6. Upgrading'
  BY <1>1, <1>2 DEF Upgrading
<1>7. UNCHANGED <<Unread, Number, Current>>
  BY <1>1 DEF Unread, Number, Current
<1>8. Accepted'
  <2>1. CASE CheckHead
    <3>1. pc' = "body" => pc = "head" /\ ~Starved /\ ~Flawed(Current)
      BY <2>1 DEF CheckHead, Throw
    <3>2. pc = "head" /\ ~Starved => Unread >= 1
      BY HeadThere DEF Phased, InRecv
    <3>3. QED
      BY <1>7, <3>1, <3>2 DEF Accepted
  <2>2. CASE ~CheckHead
    <3>1. pc' = "body" => pc = "body"
      BY <2>2 DEF Quiet, PeerLeaves, UpgradeCutOff, CallRecv, SendText, Shutdown, StopReading,
                  CloseSession, vars, session, environment
    <3>2. QED
      BY <1>7, <3>1 DEF Accepted
  <2>3. QED
    BY <2>1, <2>2
<1>9. Refusing'
  <2>1. CASE CheckHead
    <3>1. life = "open" /\ life' = life /\ Unread >= 1 /\ Unread >= HeadLen(Current)
      BY <2>1, HeadThere DEF CheckHead, Phased, InRecv, session
    <3>2. CASE Flawed(Current)
      BY <1>7, <2>1, <3>1, <3>2 DEF CheckHead, Throw, Refusing
    <3>3. CASE ~Flawed(Current)
      BY <1>7, <2>1, <3>1, <3>3 DEF CheckHead, Refusing
    <3>4. QED
      BY <3>2, <3>3
  <2>2. CASE ~CheckHead
    <3>1. outcome' = "refused" /\ life' = "open" =>
            /\ outcome = "refused" /\ life = "open" /\ message' \in {message, <<>>}
            /\ pc' = "body" => pc = "body"
      BY <1>2, <2>2 DEF Quiet, PeerLeaves, UpgradeCutOff, CallRecv, SendText, Shutdown, StopReading,
                        CloseSession, vars, session, environment, results
    <3>2. QED
      BY <1>7, <3>1 DEF Refusing
  <2>3. QED
    BY <2>1, <2>2
<1>10. QED
  BY <1>3, <1>4, <1>5, <1>6, <1>8, <1>9, QuietAnswers

LEMMA SendFrameStep ==
  ASSUME IInv, NEW f \in Frames, SendFrame(f)
  PROVE  IInv'
<1> DEFINE i == Len(sent) + 1
           new == Cells(i, f)
<1>1. UNCHANGED <<response, link, buf, pos, closed, life, pc, message, shut, answers, delivered, outcome>>
  BY DEF SendFrame, session, results
<1>2. /\ link = "up" /\ response = "switches" /\ (pc = "upgrade" \/ life = "open")
      /\ Len(sent) < MaxSent /\ sent' = Append(sent, f) /\ wire' = wire \o new
  BY DEF SendFrame
<1>3. /\ sent' \in Seq(Frames) /\ Len(sent') = i /\ Len(sent) \in Nat /\ i \in Nat
      /\ DOMAIN sent' = 1 .. i /\ DOMAIN sent = 1 .. Len(sent)
      /\ \A n \in DOMAIN sent : sent'[n] = sent[n]
  BY <1>2, AppendProperties DEF IInv, Typed, TypeOK
<1>4. /\ new \in Seq(CellSet)
      /\ \A n \in DOMAIN new : new[n].frame = i /\ ~OfUpgrade(new[n])
  BY <1>3, CellsShape
<1>5. wire \in Seq(CellSet) /\ Len(wire) \in Nat /\ DOMAIN wire = 1 .. Len(wire) /\ Len(buf) \in Nat
  BY DEF IInv, Typed
<1> HIDE DEF new
<1>6. /\ wire' \in Seq(CellSet) /\ Len(wire') = Len(wire) + Len(new) /\ Len(new) \in Nat
      /\ DOMAIN wire' = 1 .. Len(wire')
      /\ \A n \in 1 .. Len(wire) : wire'[n] = wire[n]
      /\ \A n \in 1 .. Len(new) : wire'[Len(wire) + n] = new[n]
  BY <1>2, <1>4, <1>5, Joined
<1>7. \A n \in DOMAIN wire' :
        \/ n \in DOMAIN wire /\ wire'[n] = wire[n]
        \/ n > Len(wire) /\ wire'[n].frame = i /\ ~OfUpgrade(wire'[n])
  <2> TAKE n \in DOMAIN wire'
  <2>1. CASE n <= Len(wire)
    BY <1>5, <1>6, <2>1
  <2>2. CASE n > Len(wire)
    <3>1. n - Len(wire) \in 1 .. Len(new) /\ n = Len(wire) + (n - Len(wire))
      BY <1>5, <1>6, <2>2
    <3>2. wire'[n] = new[n - Len(wire)] /\ n - Len(wire) \in DOMAIN new
      BY <1>4, <1>6, <3>1
    <3>3. QED
      BY <1>4, <2>2, <3>2
  <2>3. QED
    BY <1>5, <1>6, <2>1, <2>2
<1>8. Typed'
  <2>1. TypeOK'
    BY <1>1, <1>2, <1>3, WebSocketAssumption DEF IInv, Typed, TypeOK
  <2>2. QED
    BY <1>1, <1>6, <2>1 DEF IInv, Typed
<1>9. Phased'
  BY <1>1 DEF IInv, Phased, InRecv
<1>10. Known' /\ Parsed'
  BY <1>1, <1>3, <1>7 DEF IInv, Known, Parsed
<1>11. Upgrading'
  <2> SUFFICES ASSUME pc = "upgrade"
               PROVE  Upgrading'
    BY <1>1 DEF Upgrading
  <2>1. /\ Len(buf) <= 1 /\ Len(buf) + Len(wire) >= 2 /\ \A n \in DOMAIN buf : buf[n].part = "line"
        /\ \A n \in DOMAIN wire : /\ wire[n].part = "line" <=> n + Len(buf) = 1
                                  /\ wire[n].part = "blank" <=> n + Len(buf) = 2
    BY <1>2 DEF IInv, Upgrading
  <2>2. Len(buf) + Len(wire') >= 2
    BY <1>5, <1>6, <2>1
  <2>3. \A n \in DOMAIN wire' : /\ wire'[n].part = "line" <=> n + Len(buf) = 1
                                /\ wire'[n].part = "blank" <=> n + Len(buf) = 2
    <3> TAKE n \in DOMAIN wire'
    <3>1. CASE n \in DOMAIN wire /\ wire'[n] = wire[n]
      BY <2>1, <3>1
    <3>2. CASE n > Len(wire) /\ ~OfUpgrade(wire'[n])
      <4>1. n + Len(buf) > 2
        BY <1>5, <1>6, <2>1, <3>2
      <4>2. QED
        BY <1>5, <1>6, <3>2, <4>1 DEF OfUpgrade
    <3>3. QED
      BY <1>7, <3>1, <3>2
  <2>4. QED
    BY <1>1, <2>1, <2>2, <2>3 DEF Upgrading
<1>12. Unread' = Unread
  BY <1>1 DEF Unread
<1>13. life = "open" /\ Unread >= 1 => Current' = Current
  <2> SUFFICES ASSUME life = "open", Unread >= 1
               PROVE  Current' = Current
    OBVIOUS
  <2>1. Number \in DOMAIN sent /\ Number' = Number
    BY <1>1, CurrentSent DEF IInv, Number
  <2>2. QED
    BY <1>3, <2>1 DEF Current
<1>14. Accepted'
  BY <1>1, <1>12, <1>13 DEF IInv, Accepted, Phased, InRecv
<1>15. Refusing'
  BY <1>1, <1>12, <1>13 DEF IInv, Refusing
<1>16. Bounded' /\ Closing' /\ CloseOnce'
  BY <1>1 DEF IInv, Bounded, Closing, CloseOnce
<1>17. QED
  BY <1>8, <1>9, <1>10, <1>11, <1>14, <1>15, <1>16 DEF IInv

LEMMA UpgradeCellsShape ==
  ASSUME response \in Responses
  PROVE  /\ UpgradeCells \in Seq(CellSet) /\ \A n \in DOMAIN UpgradeCells : OfUpgrade(UpgradeCells[n])
         /\ response = "switches" =>
              /\ Len(UpgradeCells) = 2
              /\ \A n \in DOMAIN UpgradeCells : /\ UpgradeCells[n].part = "line" <=> n = 1
                                                /\ UpgradeCells[n].part = "blank" <=> n = 2
<1> DEFINE size == IF response = "endless" THEN MaxUpgrade + 1 ELSE 2
           cell(n) == Cell(0, IF n = 2 /\ response # "endless" THEN "blank" ELSE "line", TRUE)
<1>1. size \in Nat
  BY WebSocketAssumption
<1>2. \A n \in 1 .. size : /\ cell(n) \in CellSet /\ OfUpgrade(cell(n))
                           /\ cell(n).part = IF n = 2 /\ response # "endless" THEN "blank" ELSE "line"
  BY DEF Cell, CellSet, OfUpgrade
<1>3. UpgradeCells = [n \in 1 .. size |-> cell(n)]
  BY DEF UpgradeCells
<1>4. response = "switches" => size = 2
  OBVIOUS
<1> HIDE DEF size, cell
<1>5. /\ UpgradeCells \in Seq(CellSet) /\ Len(UpgradeCells) = size /\ DOMAIN UpgradeCells = 1 .. size
      /\ \A n \in 1 .. size : UpgradeCells[n] = cell(n)
  <2>1. [n \in 1 .. size |-> cell(n)] \in [1 .. size -> CellSet]
    BY <1>2
  <2>2. QED
    BY <1>1, <1>3, <2>1
<1>6. response = "switches" =>
        \A n \in 1 .. size : /\ UpgradeCells[n].part = "line" <=> n = 1
                             /\ UpgradeCells[n].part = "blank" <=> n = 2
  BY <1>2, <1>4, <1>5
<1>7. QED
  BY <1>2, <1>4, <1>5, <1>6

LEMMA SendUpgradeStep ==
  ASSUME IInv, SendUpgrade
  PROVE  IInv'
<1>1. /\ UNCHANGED <<response, sent, buf, pos, closed, message, shut, answers, delivered, outcome>>
      /\ life = "new" /\ pc = "idle" /\ outcome = "none" /\ ~closed /\ pos = 0 /\ message = <<>>
      /\ answers = <<>> /\ buf = <<>>
  BY DEF SendUpgrade, results, IInv, Phased
<1>2. \/ pc' = "upgrade" /\ life' = "new" /\ link' = link /\ wire' = IF link = "up" THEN UpgradeCells ELSE <<>>
      \/ pc' = "done" /\ life' = "freed" /\ link' = "reset" /\ wire' = wire
  BY <1>1 DEF SendUpgrade
<1>3. <<>> \in Seq(CellSet) /\ DOMAIN <<>> = {} /\ Len(buf) = 0 /\ DOMAIN buf = {}
  BY <1>1
<1>4. response \in Responses
  BY DEF IInv, Typed, TypeOK
<1>5. Typed'
  <2>1. TypeOK'
    BY <1>1, <1>2 DEF IInv, Typed, TypeOK
  <2>2. wire' \in Seq(CellSet)
    BY <1>2, <1>3, <1>4, UpgradeCellsShape DEF IInv, Typed
  <2>3. QED
    BY <1>1, <2>1, <2>2 DEF IInv, Typed
<1>6. Phased'
  BY <1>1, <1>2 DEF Phased, InRecv
<1>7. Known'
  BY <1>1, <1>2, <1>3, <1>4, UpgradeCellsShape DEF IInv, Known
<1>8. Upgrading'
  <2>1. CASE pc' = "upgrade" /\ link' = link /\ wire' = IF link = "up" THEN UpgradeCells ELSE <<>>
    <3>1. CASE link = "up"
      <4>1. wire' = UpgradeCells
        BY <2>1, <3>1
      <4>2. response = "switches" =>
              /\ Len(wire') = 2
              /\ \A n \in DOMAIN wire' : /\ n \in Nat
                                         /\ wire'[n].part = "line" <=> n = 1
                                         /\ wire'[n].part = "blank" <=> n = 2
        BY <1>4, <4>1, UpgradeCellsShape
      <4>3. /\ Len(buf') = 0 /\ DOMAIN buf' = {} /\ response' = response
            /\ \A n \in Nat : n + Len(buf') = n
        BY <1>1, <1>3
      <4>4. CASE response = "switches"
        <5>1. \A n \in DOMAIN wire' : /\ wire'[n].part = "line" <=> n + Len(buf') = 1
                                      /\ wire'[n].part = "blank" <=> n + Len(buf') = 2
          <6> TAKE n \in DOMAIN wire'
          <6>1. n \in Nat /\ (wire'[n].part = "line" <=> n = 1) /\ (wire'[n].part = "blank" <=> n = 2)
            BY <4>2, <4>4
          <6>2. n + Len(buf') = n
            BY <4>3, <6>1
          <6>3. QED
            BY <6>1, <6>2
        <5>2. Len(buf') <= 1 /\ Len(buf') + Len(wire') >= 2 /\ \A n \in DOMAIN buf' : buf'[n].part = "line"
          BY <4>2, <4>3, <4>4
        <5>3. QED
          BY <5>1, <5>2 DEF Upgrading
      <4>5. QED
        BY <4>3, <4>4 DEF Upgrading
    <3>2. CASE link # "up"
      BY <1>1, <1>3, <2>1, <3>2 DEF Upgrading
    <3>3. QED
      BY <3>1, <3>2
  <2>2. CASE pc' = "done"
    BY <2>2 DEF Upgrading
  <2>3. QED
    BY <1>2, <2>1, <2>2
<1>9. Parsed' /\ Accepted' /\ Bounded' /\ Refusing'
  BY <1>1, <1>2 DEF Parsed, Accepted, Bounded, Refusing
<1>10. Closing' /\ CloseOnce'
  BY <1>1 DEF Closing, CloseOnce
<1>11. QED
  BY <1>5, <1>6, <1>7, <1>8, <1>9, <1>10 DEF IInv

(* A read of the upgrade response, as a fact about the cells alone.        *)
UpgradeRead(b, w, k, c, v) ==
  /\ c \in Seq(CellSet) /\ v \in Seq(CellSet)
  /\ Len(c) = Len(b) + k /\ Len(v) = Len(w) - k
  /\ \A n \in 1 .. Len(b) : c[n] = b[n]
  /\ \A n \in 1 .. k : c[Len(b) + n] = w[n]
  /\ \A n \in 1 .. Len(w) - k : v[n] = w[k + n]

LEMMA UpgradeReads ==
  ASSUME NEW b \in Seq(CellSet), NEW w \in Seq(CellSet), NEW k \in 0 .. Len(w)
  PROVE  UpgradeRead(b, w, k, b \o SubSeq(w, 1, k), SubSeq(w, k + 1, Len(w)))
<1> DEFINE new == SubSeq(w, 1, k)
           v == SubSeq(w, k + 1, Len(w))
<1>1. /\ new \in Seq(CellSet) /\ Len(new) = k /\ \A n \in 1 .. k : new[n] = w[n]
      /\ v \in Seq(CellSet) /\ Len(v) = Len(w) - k /\ \A n \in 1 .. Len(w) - k : v[n] = w[k + n]
  BY Piece
<1> HIDE DEF new, v
<1>2. /\ b \o new \in Seq(CellSet) /\ Len(b \o new) = Len(b) + Len(new)
      /\ \A n \in 1 .. Len(b) : (b \o new)[n] = b[n]
      /\ \A n \in 1 .. Len(new) : (b \o new)[Len(b) + n] = new[n]
  <2>1. new \in Seq(CellSet)
    BY <1>1
  <2>2. QED
    BY <2>1, Joined
<1>3. UpgradeRead(b, w, k, b \o new, v)
  BY <1>1, <1>2 DEF UpgradeRead
<1>4. QED
  BY <1>3 DEF new, v

(* The response ahead of any frame stays where it is, however it is cut.   *)
Marked(c, at) ==
  \A n \in 1 .. Len(c) : (c[n].part = "line" <=> n + at = 1) /\ (c[n].part = "blank" <=> n + at = 2)

LEMMA UnMarked ==
  ASSUME NEW c, Marked(c, 0)
  PROVE  \A n \in 1 .. Len(c) : (c[n].part = "line" <=> n = 1) /\ (c[n].part = "blank" <=> n = 2)
<1>1. \A n \in 1 .. Len(c) : n + 0 = n
  OBVIOUS
<1>2. QED
  BY <1>1 DEF Marked

LEMMA UpgradeMarks ==
  ASSUME NEW b \in Seq(CellSet), NEW w \in Seq(CellSet), NEW k \in 0 .. Len(w),
         NEW c \in Seq(CellSet), NEW v \in Seq(CellSet),
         UpgradeRead(b, w, k, c, v), Len(b) <= 1,
         \A n \in 1 .. Len(b) : b[n].part = "line",
         Marked(w, Len(b))
  PROVE  Marked(c, 0) /\ Marked(v, Len(c))
<1>0. Len(b) \in Nat /\ Len(w) \in Nat /\ Len(c) = Len(b) + k /\ Len(v) = Len(w) - k /\ k \in Nat
  BY DEF UpgradeRead
<1>1. ASSUME NEW n \in 1 .. Len(c)
      PROVE  (c[n].part = "line" <=> n + 0 = 1) /\ (c[n].part = "blank" <=> n + 0 = 2)
  <2>1. CASE n <= Len(b)
    <3>1. n \in 1 .. Len(b) /\ n = 1
      BY <1>0, <2>1
    <3>2. c[n].part = "line"
      BY <3>1 DEF UpgradeRead
    <3>3. QED
      BY <3>1, <3>2
  <2>2. CASE n > Len(b)
    <3> DEFINE m == n - Len(b)
    <3>1. m \in 1 .. k /\ m \in 1 .. Len(w) /\ n = Len(b) + m /\ m + Len(b) = n /\ n + 0 = n
      BY <1>0, <2>2
    <3> HIDE DEF m
    <3>2. c[n] = w[m]
      BY <3>1 DEF UpgradeRead
    <3>3. QED
      BY <3>1, <3>2 DEF Marked
  <2>3. QED
    BY <1>0, <2>1, <2>2
<1>2. ASSUME NEW n \in 1 .. Len(v)
      PROVE  (v[n].part = "line" <=> n + Len(c) = 1) /\ (v[n].part = "blank" <=> n + Len(c) = 2)
  <2>1. k + n \in 1 .. Len(w) /\ n \in 1 .. Len(w) - k /\ (k + n) + Len(b) = n + Len(c)
    BY <1>0
  <2>2. v[n] = w[k + n]
    BY <2>1 DEF UpgradeRead
  <2>3. QED
    BY <2>1, <2>2 DEF Marked
<1>3. QED
  BY <1>1, <1>2 DEF Marked

LEMMA ReadUpgradeStep ==
  ASSUME IInv, NEW k \in 1 .. Chunk, ReadUpgrade(k)
  PROVE  IInv' /\ (life' = "open" => pos' = 2 /\ response = "switches")
<1>1. /\ UNCHANGED <<response, sent, link, closed, message, shut, answers, delivered, outcome>>
      /\ life = "new" /\ pc = "upgrade" /\ outcome = "none" /\ ~closed /\ pos = 0 /\ answers = <<>>
  BY DEF ReadUpgrade, results, IInv, Phased
<1>2. /\ buf \in Seq(CellSet) /\ wire \in Seq(CellSet) /\ k \in 0 .. Len(wire)
      /\ Len(buf) \in Nat /\ Len(wire) \in Nat /\ DOMAIN buf = 1 .. Len(buf) /\ DOMAIN wire = 1 .. Len(wire)
      /\ k \in Nat /\ k <= Chunk /\ Chunk \in Nat /\ k >= 1
  BY SMTT(30), WebSocketAssumption DEF ReadUpgrade, IInv, Typed
<1>3. buf' = buf \o SubSeq(wire, 1, k) /\ wire' = SubSeq(wire, k + 1, Len(wire))
  BY DEF ReadUpgrade, Take
<1>4. UpgradeRead(buf, wire, k, buf', wire')
  BY <1>2, <1>3, UpgradeReads
<1>5. /\ buf' \in Seq(CellSet) /\ wire' \in Seq(CellSet)
      /\ Len(buf') = Len(buf) + k /\ Len(wire') = Len(wire) - k
      /\ DOMAIN buf' = 1 .. Len(buf') /\ DOMAIN wire' = 1 .. Len(wire')
      /\ Len(buf') \in Nat /\ Len(wire') \in Nat
  BY <1>2, <1>4 DEF UpgradeRead
<1>6. /\ \A n \in 1 .. Len(buf') : (\E m \in 1 .. Len(buf) : buf'[n] = buf[m])
                                   \/ (\E m \in 1 .. Len(wire) : buf'[n] = wire[m])
      /\ \A n \in 1 .. Len(wire') : \E m \in 1 .. Len(wire) : wire'[n] = wire[m]
  <2>1. ASSUME NEW n \in 1 .. Len(buf')
        PROVE  (\E m \in 1 .. Len(buf) : buf'[n] = buf[m]) \/ (\E m \in 1 .. Len(wire) : buf'[n] = wire[m])
    <3>1. CASE n <= Len(buf)
      BY <1>2, <1>4, <3>1 DEF UpgradeRead
    <3>2. CASE n > Len(buf)
      <4>1. n - Len(buf) \in 1 .. k /\ n - Len(buf) \in 1 .. Len(wire) /\ n = Len(buf) + (n - Len(buf))
        BY <1>2, <1>5, <3>2
      <4>2. buf'[n] = wire[n - Len(buf)]
        BY <1>4, <4>1 DEF UpgradeRead
      <4>3. QED
        BY <4>1, <4>2
    <3>3. QED
      BY <1>2, <3>1, <3>2
  <2>2. ASSUME NEW n \in 1 .. Len(wire')
        PROVE  \E m \in 1 .. Len(wire) : wire'[n] = wire[m]
    <3>1. k + n \in 1 .. Len(wire) /\ n \in 1 .. Len(wire) - k
      BY <1>2, <1>5
    <3>2. wire'[n] = wire[k + n]
      BY <1>4, <3>1 DEF UpgradeRead
    <3>3. QED
      BY <3>1, <3>2
  <2>3. QED
    BY <2>1, <2>2
<1>7. Known'
  BY <1>1, <1>2, <1>5, <1>6 DEF IInv, Known
<1>8. response = "switches" =>
        /\ Len(buf) <= 1 /\ (link = "up" => Len(buf) + Len(wire) >= 2)
        /\ Marked(buf', 0) /\ Marked(wire', Len(buf'))
  <2> SUFFICES ASSUME response = "switches"
               PROVE  /\ Len(buf) <= 1 /\ (link = "up" => Len(buf) + Len(wire) >= 2)
                      /\ Marked(buf', 0) /\ Marked(wire', Len(buf'))
    OBVIOUS
  <2>1. /\ Len(buf) <= 1 /\ (link = "up" => Len(buf) + Len(wire) >= 2)
        /\ \A n \in 1 .. Len(buf) : buf[n].part = "line"
        /\ Marked(wire, Len(buf))
    BY <1>1, <1>2 DEF IInv, Upgrading, Marked
  <2>2. QED
    BY <1>2, <1>4, <1>5, <2>1, UpgradeMarks
<1>9. UpgradeDone(buf') <=> \E n \in 1 .. Len(buf') : buf'[n].part = "blank"
  BY <1>5 DEF UpgradeDone
<1>10. CASE UpgradeDone(buf') /\ response = "switches"
  <2>1. /\ pos' = BlankAt(buf')
        /\ pc' = "idle" /\ life' = "open"
    BY <1>3, <1>10 DEF ReadUpgrade
  <2>2. pos' \in 1 .. Len(buf') /\ buf'[pos'].part = "blank"
    <3>1. BlankAt(buf') \in 1 .. Len(buf') /\ buf'[BlankAt(buf')].part = "blank"
      BY <1>5, <1>9, <1>10 DEF BlankAt
    <3>2. QED
      BY <2>1, <3>1
  <2>3. pos' = 2 /\ Len(buf') >= 2
    <3>1. Len(buf') \in Nat /\ pos' \in Nat /\ pos' <= Len(buf')
      BY <1>5, <2>2
    <3>2. \A n \in 1 .. Len(buf') : buf'[n].part = "blank" <=> n = 2
      BY <1>8, <1>10, UnMarked
    <3>3. pos' = 2
      BY <2>2, <3>2
    <3>4. QED
      BY <3>1, <3>3
  <2>4. \A n \in pos' + 1 .. Len(buf') : ~OfUpgrade(buf'[n])
    <3> TAKE n \in pos' + 1 .. Len(buf')
    <3>1. n \in 1 .. Len(buf') /\ n + 0 > 2
      BY <1>5, <2>3
    <3>2. (buf'[n].part = "line" <=> n + 0 = 1) /\ (buf'[n].part = "blank" <=> n + 0 = 2)
      BY <1>8, <1>10, <3>1 DEF Marked
    <3>3. n + 0 # 1 /\ n + 0 # 2
      BY <1>5, <3>1
    <3>4. QED
      BY <3>2, <3>3 DEF OfUpgrade
  <2>5. \A n \in DOMAIN wire' : ~OfUpgrade(wire'[n])
    <3> TAKE n \in DOMAIN wire'
    <3>1. n \in 1 .. Len(wire') /\ n + Len(buf') > 2
      BY <1>5, <2>3
    <3>2. QED
      BY <1>8, <1>10, <3>1 DEF Marked, OfUpgrade
  <2>6. Len(buf') <= CompactAt + MaxFrame + Chunk + 1
    <3>1. CompactAt \in Nat /\ MaxFrame \in Nat /\ CompactAt >= 1
      BY WebSocketAssumption
    <3>2. QED
      BY <1>2, <1>5, <1>8, <1>10, <3>1
  <2>7. Typed'
    <3>1. pos' \in 0 .. Len(buf')
      BY <1>5, <2>3
    <3>2. TypeOK'
      BY <1>1, <2>1, <3>1 DEF IInv, Typed, TypeOK
    <3>3. QED
      BY <1>1, <1>5, <3>2 DEF IInv, Typed
  <2>8. Phased' /\ Upgrading' /\ Accepted' /\ Refusing' /\ Closing' /\ CloseOnce'
    BY <1>1, <2>1 DEF Phased, InRecv, Upgrading, Accepted, Refusing, Closing, CloseOnce
  <2>9. Parsed' /\ Bounded'
    BY <2>4, <2>5, <2>6 DEF Parsed, Bounded
  <2>10. QED
    BY <1>7, <1>10, <2>3, <2>7, <2>8, <2>9 DEF IInv
<1>11. CASE ~(UpgradeDone(buf') /\ response = "switches")
  <2>1. /\ pos' = pos
        /\ \/ pc' = "done" /\ life' = "freed"
           \/ ~UpgradeDone(buf') /\ pc' = pc /\ life' = life
           \/ response # "switches" /\ pc' = pc /\ life' = life
    BY <1>3, <1>11 DEF ReadUpgrade
  <2>2. Typed'
    <3>1. TypeOK'
      BY <1>1, <1>5, <2>1 DEF IInv, Typed, TypeOK
    <3>2. QED
      BY <1>1, <1>5, <3>1 DEF IInv, Typed
  <2>3. Phased'
    BY <1>1, <2>1 DEF IInv, Phased, InRecv
  <2>4. Upgrading'
    <3> SUFFICES ASSUME pc' = "upgrade", response = "switches"
                 PROVE  Upgrading'
      BY <1>1 DEF Upgrading
    <3>1. ~UpgradeDone(buf')
      BY <1>11
    <3>2. Len(buf') <= 1
      <4> SUFFICES ASSUME Len(buf') >= 2
                   PROVE  FALSE
        BY <1>5
      <4>1. 2 \in 1 .. Len(buf') /\ 2 + 0 = 2
        BY <1>5
      <4>2. buf'[2].part = "blank"
        BY <1>8, <4>1 DEF Marked
      <4>3. QED
        BY <1>9, <3>1, <4>1, <4>2
    <3>3. link' = "up" => Len(buf') + Len(wire') >= 2
      BY <1>1, <1>2, <1>5, <1>8
    <3>4. \A n \in DOMAIN buf' : buf'[n].part = "line"
      <4> TAKE n \in DOMAIN buf'
      <4>1. n \in 1 .. Len(buf') /\ n + 0 = 1
        BY <1>5, <3>2
      <4>2. QED
        BY <1>8, <4>1 DEF Marked
    <3>5. \A n \in DOMAIN wire' : (wire'[n].part = "line" <=> n + Len(buf') = 1)
                                  /\ (wire'[n].part = "blank" <=> n + Len(buf') = 2)
      BY <1>5, <1>8 DEF Marked
    <3>6. QED
      BY <3>2, <3>3, <3>4, <3>5 DEF Upgrading
  <2>5. Parsed' /\ Accepted' /\ Bounded' /\ Refusing' /\ Closing' /\ CloseOnce'
    BY <1>1, <2>1 DEF Parsed, Accepted, Bounded, Refusing, Closing, CloseOnce
  <2>6. life' # "open"
    BY <1>1, <2>1
  <2>7. QED
    BY <1>7, <2>2, <2>3, <2>4, <2>5, <2>6 DEF IInv
<1>12. QED
  BY <1>10, <1>11

(* A read that is waited for is not after a refusal: the refused frame is  *)
(* there.                                                                  *)
LEMMA StarvedNotRefused ==
  ASSUME IInv, InRecv, Starved
  PROVE  outcome # "refused"
<1> SUFFICES ASSUME outcome = "refused"
             PROVE  FALSE
  OBVIOUS
<1>1. life = "open" /\ Unread >= 1 /\ Unread \in Nat
  BY DEF IInv, Phased, Refusing, Unread, Typed, TypeOK
<1>2. Current \in Frames
  BY <1>1, CurrentSent DEF IInv
<1>3. HeadLen(Current) \in Nat /\ FrameLen(Current) \in Nat /\ HeadLen(Current) <= FrameLen(Current)
  BY <1>2, FrameLenIs
<1>4. Need = IF pc = "body" THEN FrameLen(Current) ELSE HeadLen(Current)
  <2>1. Unread # 0
    BY <1>1
  <2>2. QED
    BY <2>1 DEF Need
<1>5. Unread < Need
  BY DEF Starved
<1>6. \/ Unread >= HeadLen(Current) /\ pc # "body"
      \/ Unread >= FrameLen(Current)
  BY <1>1 DEF IInv, Refusing
<1>7. QED
  BY <1>1, <1>3, <1>4, <1>5, <1>6

(* What is unread of a frame that is waited for.                           *)
LEMMA StarvedIsSmall ==
  ASSUME IInv, InRecv, Starved
  PROVE  Unread \in Nat /\ Unread <= MaxFrame + 2
<1>1. Unread \in Nat /\ life = "open"
  BY DEF IInv, Phased, Unread, Typed, TypeOK
<1>2. Unread < Need /\ MaxFrame \in Nat
  BY WebSocketAssumption DEF Starved
<1>3. CASE Unread = 0
  BY <1>1, <1>2, <1>3
<1>4. CASE Unread # 0
  <2>1. Unread >= 1
    BY <1>1, <1>4
  <2>2. Current \in Frames
    BY <1>1, <2>1, CurrentSent DEF IInv
  <2>3. /\ HeadLen(Current) \in 1 .. 2 /\ FrameLen(Current) \in Nat
        /\ FrameLen(Current) <= Current.len + 3 /\ Current.len \in Nat
    BY <2>2, FrameLenIs, FrameType
  <2>4. CASE pc = "body"
    <3>1. Need = FrameLen(Current) /\ Current.len <= MaxFrame
      <4>1. ~(Current.len > MaxFrame)
        BY <2>4 DEF IInv, Accepted, Flawed
      <4>2. QED
        BY <1>2, <2>3, <2>4, <4>1 DEF Need
    <3>2. QED
      BY <1>1, <1>2, <2>3, <3>1
  <2>5. CASE pc # "body"
    <3>1. Need = HeadLen(Current)
      BY <1>4, <2>5 DEF Need
    <3>2. QED
      BY <1>1, <1>2, <2>3, <3>1
  <2>6. QED
    BY <2>4, <2>5
<1>5. QED
  BY <1>3, <1>4

LEMMA Room ==
  ASSUME NEW u \in Nat, NEW k \in Nat, NEW q \in Nat, u <= MaxFrame + 2, k <= Chunk, q < CompactAt
  PROVE  (u + k) + q <= CompactAt + MaxFrame + Chunk + 1
<1>1. MaxFrame \in Nat /\ Chunk \in Nat /\ CompactAt \in Nat
  BY WebSocketAssumption
<1>2. QED
  BY <1>1

LEMMA FillStep ==
  ASSUME IInv, NEW k \in 1 .. Chunk, Fill(k)
  PROVE  IInv'
<1>1. /\ UNCHANGED <<response, sent, link, closed, life, pc, message, shut, answers, delivered, outcome>>
      /\ InRecv /\ Starved /\ life = "open"
  BY DEF Fill, results, IInv, Phased
<1>2. /\ buf \in Seq(CellSet) /\ wire \in Seq(CellSet) /\ pos \in 0 .. Len(buf) /\ k \in 0 .. Len(wire)
      /\ Len(buf) \in Nat /\ Len(wire) \in Nat /\ DOMAIN buf = 1 .. Len(buf) /\ DOMAIN wire = 1 .. Len(wire)
  BY SMTT(30), WebSocketAssumption DEF Fill, IInv, Typed, TypeOK
<1>3. /\ buf' = Compact(buf, pos).buf \o SubSeq(wire, 1, k) /\ pos' = Compact(buf, pos).pos
      /\ wire' = SubSeq(wire, k + 1, Len(wire))
  BY DEF Fill, Take
<1>4. Refills(buf, pos, wire, buf', pos', wire', k)
  BY <1>2, <1>3, Refilled
<1>5. /\ buf' \in Seq(CellSet) /\ wire' \in Seq(CellSet) /\ pos' \in 0 .. Len(buf') /\ pos' < CompactAt
      /\ Len(buf') - pos' = Len(buf) - pos + k
      /\ DOMAIN buf' = 1 .. Len(buf') /\ DOMAIN wire' = 1 .. Len(wire')
  BY <1>4 DEF Refills
<1>6. Typed'
  <2>1. TypeOK'
    BY <1>1, <1>5 DEF IInv, Typed, TypeOK
  <2>2. QED
    BY <1>1, <1>5, <2>1 DEF IInv, Typed
<1>7. Phased' /\ Upgrading' /\ Closing' /\ CloseOnce'
  BY <1>1 DEF IInv, Phased, InRecv, Upgrading, Closing, CloseOnce
<1>8. Known'
  <2>1. /\ \A n \in 1 .. Len(buf') :
             (\E m \in 1 .. Len(buf) : buf'[n] = buf[m]) \/ (\E m \in 1 .. Len(wire) : buf'[n] = wire[m])
        /\ \A n \in 1 .. Len(wire') : \E m \in 1 .. Len(wire) : wire'[n] = wire[m]
    BY <1>4 DEF Refills
  <2>2. QED
    BY <1>1, <1>2, <1>5, <2>1 DEF IInv, Known
<1>9. Parsed'
  <2>1. /\ \A n \in pos' + 1 .. Len(buf') :
             (\E m \in pos + 1 .. Len(buf) : buf'[n] = buf[m]) \/ (\E m \in 1 .. Len(wire) : buf'[n] = wire[m])
        /\ \A n \in 1 .. Len(wire') : \E m \in 1 .. Len(wire) : wire'[n] = wire[m]
    BY <1>4 DEF Refills
  <2>2. (\A n \in pos + 1 .. Len(buf) : ~OfUpgrade(buf[n])) /\ (\A n \in 1 .. Len(wire) : ~OfUpgrade(wire[n]))
    BY <1>1, <1>2 DEF IInv, Parsed
  <2>3. QED
    BY <1>5, <2>1, <2>2 DEF Parsed
<1>10. /\ Unread' = Unread + k /\ Unread' >= Unread /\ Unread \in Nat /\ Unread' \in Nat
       /\ k \in Nat /\ k <= Chunk /\ Chunk \in Nat /\ Len(buf') \in Nat /\ Len(buf') = Unread' + pos'
  <2>1. Len(buf) \in Nat /\ Len(buf') \in Nat /\ pos \in 0 .. Len(buf) /\ pos' \in 0 .. Len(buf') /\ k \in Nat
    BY <1>2, <1>5
  <2>2. Chunk \in Nat
    BY WebSocketAssumption
  <2>3. Len(buf') - pos' = Len(buf) - pos + k
    BY <1>5
  <2>4. Len(buf') - pos' \in Nat /\ Len(buf) - pos \in Nat
    BY <2>1
  <2>5. Unread' = Len(buf') - pos' /\ Unread = Len(buf) - pos
    BY DEF Unread
  <2>6. QED
    BY <2>1, <2>2, <2>3, <2>4, <2>5
<1>11. Bounded'
  <2>1. Unread <= MaxFrame + 2
    BY <1>1, StarvedIsSmall
  <2>2. pos' \in Nat /\ pos' < CompactAt /\ CompactAt \in Nat /\ MaxFrame \in Nat
    BY <1>5, WebSocketAssumption
  <2>3. /\ Len(buf') = Unread' + pos' /\ Unread' = Unread + k /\ Unread \in Nat /\ Unread' \in Nat
        /\ k \in Nat /\ k <= Chunk /\ Chunk \in Nat
    BY <1>10
  <2>4. Len(buf') <= CompactAt + MaxFrame + Chunk + 1
    <3>1. (Unread + k) + pos' <= CompactAt + MaxFrame + Chunk + 1
      BY <2>1, <2>2, <2>3, Room
    <3>2. QED
      BY <2>3, <3>1
  <2>5. QED
    BY <2>4 DEF Bounded
<1>12. Accepted'
  <2> SUFFICES ASSUME pc = "body"
               PROVE  Unread' >= 1 /\ ~Flawed(Current')
    BY <1>1 DEF Accepted
  <2>1. Unread >= 1 /\ ~Flawed(Current)
    BY DEF IInv, Accepted
  <2>2. Current' = Current
    <3>1. 1 \in 1 .. Len(buf) - pos
      BY <1>2, <2>1 DEF Unread
    <3>2. buf'[pos' + 1] = buf[pos + 1]
      BY <1>4, <3>1 DEF Refills
    <3>3. QED
      BY <1>1, <3>2 DEF Current, Number
  <2>3. QED
    BY <1>10, <2>1, <2>2
<1>13. Refusing'
  BY <1>1, StarvedNotRefused DEF Refusing
<1>14. QED
  BY <1>6, <1>7, <1>8, <1>9, <1>11, <1>12, <1>13 DEF IInv

LEMMA CutOffStep ==
  ASSUME IInv, CutOff
  PROVE  IInv'
<1>1. /\ UNCHANGED <<response, sent, wire, link, closed, life, shut, answers, delivered>>
      /\ pc' = "idle" /\ outcome' = "lost" /\ message' = <<>> /\ life = "open"
  BY DEF CutOff, Throw, environment, IInv, Phased
<1>2. buf \in Seq(CellSet) /\ pos \in 0 .. Len(buf) /\ DOMAIN buf = 1 .. Len(buf) /\ Len(buf) \in Nat
  BY DEF IInv, Typed, TypeOK
<1>3. Compacts(buf, pos, buf', pos')
  BY <1>2, Compacted DEF CutOff
<1>4. /\ buf' \in Seq(CellSet) /\ pos' \in 0 .. Len(buf') /\ DOMAIN buf' = 1 .. Len(buf')
      /\ Len(buf') - pos' = Len(buf) - pos /\ Len(buf') \in Nat
  BY <1>3 DEF Compacts
<1>5. Typed'
  <2>1. TypeOK'
    BY <1>1, <1>4 DEF IInv, Typed, TypeOK
  <2>2. QED
    BY <1>1, <1>4, <2>1 DEF IInv, Typed
<1>6. Phased' /\ Upgrading' /\ Accepted' /\ Refusing' /\ Closing' /\ CloseOnce'
  BY <1>1 DEF IInv, Phased, InRecv, Upgrading, Accepted, Refusing, Closing, CloseOnce
<1>7. Known'
  <2>1. \A n \in 1 .. Len(buf') : \E m \in 1 .. Len(buf) : buf'[n] = buf[m]
    BY <1>3 DEF Compacts
  <2>2. QED
    BY <1>1, <1>2, <1>4, <2>1 DEF IInv, Known
<1>8. Parsed'
  <2>1. \A n \in pos + 1 .. Len(buf) : ~OfUpgrade(buf[n])
    BY <1>1 DEF IInv, Parsed
  <2>2. \A n \in pos' + 1 .. Len(buf') : ~OfUpgrade(buf'[n])
    <3> TAKE n \in pos' + 1 .. Len(buf')
    <3>1. /\ n - pos' \in 1 .. Len(buf) - pos /\ pos' + (n - pos') = n
          /\ pos + (n - pos') \in pos + 1 .. Len(buf)
      <4>1. /\ pos \in Nat /\ pos' \in Nat /\ Len(buf) \in Nat /\ Len(buf') \in Nat
            /\ Len(buf') - pos' = Len(buf) - pos
        BY <1>2, <1>4
      <4>2. QED
        BY <4>1, Shifted
    <3>2. buf'[n] = buf[pos + (n - pos')]
      BY <1>3, <3>1 DEF Compacts
    <3>3. QED
      BY <2>1, <3>1, <3>2
  <2>3. QED
    BY <1>1, <2>2 DEF IInv, Parsed
<1>9. Bounded'
  <2>1. pos' < CompactAt /\ Len(buf') - pos' = Unread
    BY <1>3, <1>4 DEF Compacts, Unread
  <2>2. Unread \in Nat /\ Unread <= MaxFrame + 2
    BY StarvedIsSmall DEF CutOff
  <2>3. CompactAt \in Nat /\ MaxFrame \in Nat /\ Chunk \in Nat /\ Chunk >= 1
    BY WebSocketAssumption
  <2>4. Len(buf') \in Nat /\ pos' \in Nat
    BY <1>4
  <2>5. Len(buf') <= CompactAt + MaxFrame + Chunk + 1
    BY <2>1, <2>2, <2>3, <2>4
  <2>6. QED
    BY <2>5 DEF Bounded
<1>10. QED
  BY <1>5, <1>6, <1>7, <1>8, <1>9 DEF IInv

LEMMA Unmasked ==
  ASSUME Typed
  PROVE  /\ Unmask(buf) \in Seq(CellSet) /\ Len(Unmask(buf)) = Len(buf)
         /\ \A n \in 1 .. Len(buf) :
              Unmask(buf)[n].frame = buf[n].frame /\ Unmask(buf)[n].part = buf[n].part
<1> DEFINE bare(n) == IF n \in pos + 1 .. pos + FrameLen(Current) /\ buf[n].part = "data"
                      THEN [buf[n] EXCEPT !.clear = ~@] ELSE buf[n]
<1>1. buf \in Seq(CellSet) /\ DOMAIN buf = 1 .. Len(buf) /\ Len(buf) \in Nat
  BY DEF Typed
<1>2. \A n \in 1 .. Len(buf) :
        bare(n) \in CellSet /\ bare(n).frame = buf[n].frame /\ bare(n).part = buf[n].part
  <2> TAKE n \in 1 .. Len(buf)
  <2>1. buf[n] \in CellSet
    BY <1>1
  <2>2. QED
    BY <2>1 DEF CellSet
<1>3. Unmask(buf) = IF Current.masked THEN [n \in 1 .. Len(buf) |-> bare(n)] ELSE buf
  BY <1>1 DEF Unmask
<1> HIDE DEF bare
<1>4. [n \in 1 .. Len(buf) |-> bare(n)] \in Seq(CellSet) /\ Len([n \in 1 .. Len(buf) |-> bare(n)]) = Len(buf)
  <2>1. [n \in 1 .. Len(buf) |-> bare(n)] \in [1 .. Len(buf) -> CellSet]
    BY <1>2
  <2>2. QED
    BY <1>1, <2>1
<1>5. QED
  BY <1>1, <1>2, <1>3, <1>4

(* What the handler of a frame does, whatever the frame is.                *)
Handled(p) ==
  Ping(p) \/ Pong \/ PeerClose(p) \/ DataFrame(p) \/ Continue(p) \/ Unknown

LEMMA HandledShape ==
  ASSUME Typed, NEW p \in Payloads, Handled(p)
  PROVE  /\ pos' \in {pos, pos + FrameLen(Current)} /\ pc' \in {"idle", "head"}
         /\ link' \in {"up", "gone", "reset"} /\ closed' \in BOOLEAN /\ (closed => closed')
         /\ (closed' => closed \/ pc' = "idle")
         /\ outcome' \in {"none", "message", "closed", "lost", "refused", "interleaved"}
         /\ message' \in Seq(Payloads)
<1>0. /\ message \in Seq(Payloads) /\ <<>> \in Seq(Payloads) /\ <<p>> \in Seq(Payloads)
      /\ Append(message, p) \in Seq(Payloads)
  BY AppendProperties DEF Typed, TypeOK
<1>1. message' \in {message, <<>>, <<p>>, Append(message, p)}
  BY DEF Handled, Ping, Pong, PeerClose, DataFrame, Continue, Unknown, Return, Throw
<1>2. pos' \in {pos, pos + FrameLen(Current)}
  BY DEF Handled, Ping, Pong, PeerClose, DataFrame, Continue, Unknown, Consume
<1>3. pc' \in {"idle", "head"}
  BY DEF Handled, Ping, Pong, PeerClose, DataFrame, Continue, Unknown, NextFrame, Return, Throw
<1>4. link' \in {"up", "gone", "reset"}
  BY DEF Handled, Ping, Pong, PeerClose, DataFrame, Continue, Unknown, SendWorks, SendFails, Typed, TypeOK
<1>5. closed' \in BOOLEAN /\ (closed => closed') /\ (closed' => closed \/ pc' = "idle")
  <2>0. closed \in BOOLEAN
    BY DEF Typed, TypeOK
  <2>1. CASE PeerClose(p)
    <3>1. (closed' = TRUE /\ pc' = "idle") \/ closed' = closed
      BY <2>1 DEF PeerClose, Throw
    <3>2. CASE closed' = TRUE /\ pc' = "idle"
      BY <3>2
    <3>3. CASE closed' = closed
      BY <2>0, <3>3
    <3>4. QED
      BY <3>1, <3>2, <3>3
  <2>2. CASE ~PeerClose(p)
    <3>1. closed' = closed
      BY <2>2 DEF Handled, Ping, Pong, DataFrame, Continue, Unknown
    <3>2. QED
      BY <2>0, <3>1
  <2>3. QED
    BY <2>1, <2>2
<1>6. outcome' \in {"none", "message", "closed", "lost", "refused", "interleaved"}
  BY DEF Handled, Ping, Pong, PeerClose, DataFrame, Continue, Unknown, NextFrame, Return, Throw, Typed, TypeOK
<1>7. QED
  BY <1>0, <1>1, <1>2, <1>3, <1>4, <1>5, <1>6

LEMMA HandledAnswers ==
  ASSUME IInv, life = "open", ~closed, life' = life, NEW p \in Payloads, Handled(p)
  PROVE  answers' \in Seq(Sends) /\ Closing' /\ CloseOnce'
<1>1. CASE Ping(p) /\ SendWorks(Answer("pong", p))
  <2>1. Answer("pong", p) \in Sends /\ Answer("pong", p).op # "close"
    BY DEF Answer, Sends
  <2>2. closed' = closed
    BY <1>1 DEF Ping
  <2>3. QED
    BY <1>1, <2>1, <2>2, Answered DEF SendWorks, IInv
<1>2. CASE PeerClose(p) /\ SendWorks(Answer("close", p)) /\ closed' = TRUE
  <2>1. Answer("close", p) \in Sends
    BY DEF Answer, Sends
  <2>2. QED
    BY <1>2, <2>1, Answered DEF SendWorks, IInv
<1>3. CASE UNCHANGED <<answers, closed>>
  BY <1>3, NotAnswered DEF IInv
<1>4. QED
  <2>1. CASE Ping(p)
    BY <1>1, <1>3, <2>1 DEF Ping, SendFails
  <2>2. CASE PeerClose(p)
    BY <1>2, <1>3, <2>2 DEF PeerClose, SendFails
  <2>3. CASE Pong \/ DataFrame(p) \/ Continue(p) \/ Unknown
    BY <1>3, <2>3 DEF Pong, DataFrame, Continue, Unknown
  <2>4. QED
    BY <2>1, <2>2, <2>3 DEF Handled

(* A refused frame is left where it is, and refused again.                 *)
LEMMA HandledRefusal ==
  ASSUME IInv, life = "open", pc = "body", NEW p \in Payloads, Handled(p)
  PROVE  /\ outcome' = "refused" =>
              pos' = pos /\ message' = <<>> /\ Current.op \in {"cont", "unknown"}
         /\ outcome = "refused" => delivered' = delivered
<1>1. outcome = "refused" => Current.op \in {"cont", "unknown"} /\ message = <<>>
  BY DEF IInv, Refusing
<1>2. CASE Ping(p)
  BY <1>1, <1>2 DEF Ping, Throw, NextFrame
<1>3. CASE Pong
  BY <1>1, <1>3 DEF Pong, NextFrame
<1>4. CASE PeerClose(p)
  BY <1>1, <1>4 DEF PeerClose, Throw
<1>5. CASE DataFrame(p)
  BY <1>1, <1>5 DEF DataFrame, Throw, Return, NextFrame, Data
<1>6. CASE Continue(p)
  <2>1. CASE outcome = "refused" \/ Unwelcome
    <3>1. Unwelcome
      BY <1>1, <2>1 DEF Unwelcome
    <3>2. Throw("refused") /\ UNCHANGED <<pos, delivered>> /\ Current.op = "cont"
      BY <1>6, <3>1 DEF Continue
    <3>3. QED
      BY <3>2 DEF Throw
  <2>2. CASE outcome # "refused" /\ ~Unwelcome
    BY <1>6, <2>2 DEF Continue, Return, NextFrame
  <2>3. QED
    BY <2>1, <2>2
<1>7. CASE Unknown
  BY <1>7 DEF Unknown, Throw
<1>8. QED
  BY <1>2, <1>3, <1>4, <1>5, <1>6, <1>7 DEF Handled

LEMMA Behind ==
  ASSUME NEW p \in Nat, NEW q \in Nat, NEW a \in Nat, p <= q
  PROVE  \A n \in q + 1 .. a : n \in p + 1 .. a /\ n \in 1 .. a
  OBVIOUS

LEMMA ProcessStep ==
  ASSUME IInv, Process
  PROVE  IInv' /\ (outcome = "refused" => delivered' = delivered)
<1>1. /\ UNCHANGED <<response, sent, wire, life, shut>> /\ buf' = Unmask(buf)
      /\ pc = "body" /\ ~Starved /\ life = "open" /\ ~closed
  BY DEF Process, IInv, Phased, InRecv
<1>2. Current \in Frames /\ FrameLen(Current) \in 1 .. Unread /\ Unread \in Nat /\ Unread >= 1
  BY <1>1, FrameThere DEF IInv
<1>3. Payload \in Payloads
  <2>1. Number \in 1 .. MaxSent
    BY <1>1, <1>2, CurrentSent DEF IInv
  <2>2. Number \in 0 .. MaxSent
    BY <2>1, WebSocketAssumption
  <2>3. QED
    BY <2>2 DEF Payload, Fragment, Payloads
<1>4. Handled(Payload)
  BY DEF Process, Handled
<1>5. /\ pos' \in {pos, pos + FrameLen(Current)} /\ pc' \in {"idle", "head"}
      /\ link' \in {"up", "gone", "reset"} /\ closed' \in BOOLEAN /\ (closed' => closed \/ pc' = "idle")
      /\ outcome' \in {"none", "message", "closed", "lost", "refused", "interleaved"}
      /\ message' \in Seq(Payloads)
  BY <1>3, <1>4, HandledShape DEF IInv
<1>6. /\ buf' \in Seq(CellSet) /\ Len(buf') = Len(buf) /\ Len(buf) \in Nat
      /\ DOMAIN buf' = 1 .. Len(buf) /\ DOMAIN buf = 1 .. Len(buf)
      /\ \A n \in 1 .. Len(buf) : buf'[n].frame = buf[n].frame /\ buf'[n].part = buf[n].part
  BY <1>1, Unmasked DEF IInv, Typed
<1>7. pos \in Nat /\ pos' \in Nat /\ pos <= pos' /\ pos' <= Len(buf) /\ pos' \in 0 .. Len(buf')
  <2>1. pos \in 0 .. Len(buf) /\ Unread = Len(buf) - pos
    BY DEF IInv, Typed, TypeOK, Unread
  <2>2. QED
    BY <1>2, <1>5, <1>6, <2>1
<1>8. Typed'
  <2>1. TypeOK'
    BY <1>1, <1>5, <1>7 DEF IInv, Typed, TypeOK
  <2>2. answers' \in Seq(Sends)
    BY <1>1, <1>3, <1>4, HandledAnswers
  <2>3. QED
    BY <1>1, <1>6, <2>1, <2>2 DEF IInv, Typed
<1>9. Phased'
  BY <1>1, <1>5 DEF Phased, InRecv
<1>10. Known'
  BY <1>1, <1>6 DEF IInv, Known, OfUpgrade
<1>11. Parsed'
  <2>1. \A n \in pos + 1 .. Len(buf) : ~OfUpgrade(buf[n])
    BY <1>1 DEF IInv, Parsed
  <2>2. \A n \in pos' + 1 .. Len(buf') : n \in pos + 1 .. Len(buf) /\ n \in 1 .. Len(buf)
    BY <1>6, <1>7, Behind
  <2>3. \A n \in pos' + 1 .. Len(buf') : ~OfUpgrade(buf'[n])
    BY <1>6, <2>1, <2>2 DEF OfUpgrade
  <2>4. QED
    BY <1>1, <2>3 DEF IInv, Parsed
<1>12. Bounded' /\ Upgrading' /\ Accepted'
  BY <1>1, <1>5, <1>6 DEF IInv, Bounded, Upgrading, Accepted
<1>13. Refusing'
  <2> SUFFICES ASSUME outcome' = "refused"
               PROVE  Refusing'
    BY DEF Refusing
  <2>1. pos' = pos /\ message' = <<>> /\ Current.op \in {"cont", "unknown"}
    BY <1>1, <1>3, <1>4, HandledRefusal
  <2>2. Unread' = Unread
    BY <1>6, <2>1 DEF Unread
  <2>3. Current' = Current
    <3>1. pos + 1 \in 1 .. Len(buf)
      BY <1>2, <1>6, <1>7 DEF Unread
    <3>2. buf'[pos + 1].frame = buf[pos + 1].frame
      BY <1>6, <3>1
    <3>3. QED
      BY <1>1, <2>1, <3>2 DEF Current, Number
  <2>4. Unread >= FrameLen(Current)
    BY <1>2
  <2>5. QED
    BY <1>2, <2>1, <2>2, <2>3, <2>4 DEF Refusing
<1>14. Closing' /\ CloseOnce'
  BY <1>1, <1>3, <1>4, HandledAnswers
<1>15. outcome = "refused" => delivered' = delivered
  BY <1>1, <1>3, <1>4, HandledRefusal
<1>16. QED
  BY <1>8, <1>9, <1>10, <1>11, <1>12, <1>13, <1>14, <1>15 DEF IInv

-----------------------------------------------------------------------------
(* Theorems about the buffer, refusals and the handshake                   *)

LEMMA InitHolds == Init => IInv
<1> SUFFICES ASSUME Init
             PROVE  IInv
  OBVIOUS
<1>1. /\ \A S : <<>> \in Seq(S)
      /\ Len(<<>>) = 0 /\ DOMAIN <<>> = {}
  OBVIOUS
<1>2. 0 <= MaxSent
  BY WebSocketAssumption
<1>3. /\ response \in Responses /\ sent = <<>> /\ wire = <<>> /\ link = "up"
      /\ buf = <<>> /\ pos = 0 /\ closed = FALSE /\ life = "new" /\ pc = "idle" /\ message = <<>>
      /\ shut = FALSE /\ answers = <<>> /\ outcome = "none"
  BY DEF Init
<1>4. Typed
  <2>1. message \in Seq(Payloads) /\ sent \in Seq(Frames) /\ Len(sent) = 0
    BY <1>1, <1>3
  <2>2. buf \in Seq(CellSet) /\ wire \in Seq(CellSet) /\ answers \in Seq(Sends) /\ Len(buf) = 0
    BY <1>1, <1>3
  <2>0. closed \in BOOLEAN /\ shut \in BOOLEAN
    BY <1>3
  <2>3. /\ pos \in 0 .. Len(buf) /\ Len(sent) <= MaxSent
        /\ link \in {"up", "gone", "reset"} /\ life \in {"new", "open", "freed"}
        /\ pc \in {"idle", "upgrade", "head", "body", "done"}
        /\ outcome \in {"none", "message", "closed", "lost", "refused", "interleaved"}
    BY <1>2, <1>3, <2>1, <2>2
  <2>4. TypeOK
    BY <1>3, <2>0, <2>1, <2>3 DEF TypeOK
  <2>5. QED
    BY <2>2, <2>4 DEF Typed
<1>5. Known /\ Closing /\ CloseOnce
  BY <1>1, <1>3 DEF Known, Closing, CloseOnce
<1>6. Phased /\ Parsed /\ Upgrading /\ Accepted /\ Bounded /\ Refusing
  BY <1>3 DEF Phased, InRecv, Parsed, Upgrading, Accepted, Bounded, Refusing
<1>7. QED
  BY <1>4, <1>5, <1>6 DEF IInv

(* Only a frame that was parsed, of those that are not a message in the    *)
(* making, changes what was delivered.                                     *)
LEMMA NextHolds ==
  ASSUME IInv, [Next]_vars
  PROVE  IInv' /\ (outcome = "refused" => delivered' = delivered)
<1>1. CASE \E f \in Frames : SendFrame(f)
  <2> PICK f \in Frames : SendFrame(f)
    BY <1>1
  <2>1. QED
    BY SendFrameStep DEF SendFrame, results
<1>2. CASE SendUpgrade
  BY <1>2, SendUpgradeStep DEF SendUpgrade, results
<1>3. CASE \E k \in 1 .. Chunk : ReadUpgrade(k) \/ Fill(k)
  <2> PICK k \in 1 .. Chunk : ReadUpgrade(k) \/ Fill(k)
    BY <1>3
  <2>1. CASE ReadUpgrade(k)
    BY <2>1, ReadUpgradeStep DEF ReadUpgrade, results
  <2>2. CASE Fill(k)
    BY <2>2, FillStep DEF Fill, results
  <2>3. QED
    BY <2>1, <2>2
<1>4. CASE CutOff
  BY <1>4, CutOffStep DEF CutOff
<1>5. CASE Process
  BY <1>5, ProcessStep
<1>6. CASE Quiet
  <2>1. delivered' = delivered
    BY <1>6 DEF Quiet, PeerLeaves, UpgradeCutOff, CallRecv, CheckHead, SendText, Shutdown, StopReading,
                CloseSession, vars, results
  <2>2. QED
    BY <1>6, <2>1, QuietStep
<1>7. QED
  BY <1>1, <1>2, <1>3, <1>4, <1>5, <1>6 DEF Next, Quiet

THEOREM Inductive == Spec => []IInv
<1>1. IInv /\ [Next]_vars => IInv'
  BY NextHolds
<1>2. QED
  BY InitHolds, <1>1, PTL DEF Spec

(* The state keeps its shape: the parse position never leaves the buffer.  *)
THEOREM TypeCorrect == Spec => []TypeOK
<1>1. IInv => TypeOK
  BY DEF IInv, Typed
<1>2. QED
  BY Inductive, <1>1, PTL

(* The closing handshake is made once, by recv() or by close().            *)
THEOREM ClosedOnce == Spec => []CloseOnce
<1>1. IInv => CloseOnce
  BY DEF IInv
<1>2. QED
  BY Inductive, <1>1, PTL

(* The read buffer never holds more than one frame, one read and a prefix  *)
(* too small to erase.                                                     *)
THEOREM BufferStaysBounded == Spec => []BufferBounded
<1>1. IInv => BufferBounded
  BY DEF IInv, Phased, Bounded, BufferBounded
<1>2. QED
  BY Inductive, <1>1, PTL

(* Nothing behind a frame that recv() refused is ever delivered.           *)
THEOREM RefusalStays == Spec => StaysRefused
<1>1. IInv /\ [Next]_vars => [outcome = "refused" => delivered' = delivered]_vars
  BY NextHolds
<1>2. QED
  BY Inductive, <1>1, PTL DEF Spec, StaysRefused

(* Induction: a set of numbers that is not empty has a least element.      *)
LEMMA LeastNat ==
  ASSUME NEW T, T \subseteq Nat, T # {}
  PROVE  \E k \in T : \A j \in T : k <= j
<1> DEFINE R == OpToRel(<, Nat)
<1>0. IsWellFoundedOn(R, Nat)
  BY NatLessThanWellFounded
<1>1. \A k, j \in Nat : <<j, k>> \in R <=> j < k
  BY DEF OpToRel
<1> HIDE DEF R
<1>2. PICK k \in T : \A j \in T : ~(<<j, k>> \in R)
  BY <1>0, WFMin
<1>3. ASSUME NEW j \in T PROVE k <= j
  <2>1. k \in Nat /\ j \in Nat
    OBVIOUS
  <2>2. ~(j < k)
    BY <1>1, <1>2, <2>1
  <2>3. QED
    BY <2>1, <2>2
<1>4. QED
  BY <1>3

-----------------------------------------------------------------------------
(* The size of a message: t are the totals of the first lengths of w.      *)
Sums(t, w, N) ==
  /\ t \in [0 .. N -> Nat] /\ t[0] = 0
  /\ \A n \in 1 .. N : t[n] = t[n - 1] + w[n]

LEMMA SumsExist ==
  ASSUME NEW N \in Nat, NEW w, \A n \in 1 .. N : w[n] \in Nat
  PROVE  \E t : Sums(t, w, N)
<1> DEFINE Bad == {k \in 0 .. N : ~ \E t : Sums(t, w, k)}
<1>1. \E t : Sums(t, w, 0)
  <2> DEFINE z == [i \in 0 .. 0 |-> 0]
  <2>1. Sums(z, w, 0)
    BY DEF Sums
  <2>2. QED
    BY <2>1
<1>2. ASSUME NEW k \in 1 .. N, NEW t, Sums(t, w, k - 1)
      PROVE  \E u : Sums(u, w, k)
  <2> DEFINE u == [i \in 0 .. k |-> IF i = k THEN t[k - 1] + w[k] ELSE t[i]]
  <2>1. t \in [0 .. k - 1 -> Nat] /\ t[0] = 0 /\ \A n \in 1 .. k - 1 : t[n] = t[n - 1] + w[n]
    BY <1>2 DEF Sums
  <2>2. t[k - 1] \in Nat /\ w[k] \in Nat /\ t[k - 1] + w[k] \in Nat
    BY <2>1
  <2>3. \A i \in 0 .. k : IF i = k THEN u[i] = t[k - 1] + w[k] ELSE u[i] = t[i] /\ t[i] \in Nat
    BY <2>1
  <2>4. u \in [0 .. k -> Nat]
    <3>1. \A i \in 0 .. k : (IF i = k THEN t[k - 1] + w[k] ELSE t[i]) \in Nat
      BY <2>2, <2>3
    <3>2. QED
      BY <3>1
  <2> HIDE DEF u
  <2>5. u[0] = 0
    BY <2>1, <2>3
  <2>6. ASSUME NEW n \in 1 .. k PROVE u[n] = u[n - 1] + w[n]
    <3>1. n - 1 \in 0 .. k /\ n - 1 # k /\ n \in 0 .. k
      OBVIOUS
    <3>2. u[n - 1] = t[n - 1]
      BY <2>3, <3>1
    <3>3. CASE n = k
      BY <2>3, <3>1, <3>2, <3>3
    <3>4. CASE n # k
      <4>1. n \in 1 .. k - 1
        BY <3>4
      <4>2. QED
        BY <2>1, <2>3, <3>1, <3>2, <3>4, <4>1
    <3>5. QED
      BY <3>3, <3>4
  <2>7. Sums(u, w, k)
    BY <2>4, <2>5, <2>6 DEF Sums
  <2>8. QED
    BY <2>7
<1>3. Bad = {}
  <2> SUFFICES ASSUME Bad # {} PROVE FALSE
    OBVIOUS
  <2>1. PICK k \in Bad : \A j \in Bad : k <= j
    <3>1. Bad \subseteq Nat
      OBVIOUS
    <3> HIDE DEF Bad
    <3>2. QED
      BY <3>1, LeastNat
  <2>2. k \in 1 .. N
    BY <1>1, <2>1
  <2>3. k - 1 \in 0 .. N /\ k - 1 \notin Bad
    BY <2>1, <2>2
  <2>4. PICK t : Sums(t, w, k - 1)
    BY <2>3
  <2>5. \E u : Sums(u, w, k)
    BY <1>2, <2>2, <2>4
  <2>6. QED
    BY <2>1, <2>5
<1>4. QED
  BY <1>3

LEMMA SumsAgree ==
  ASSUME NEW N \in Nat, NEW M \in Nat, N <= M, NEW t, NEW u, NEW w, NEW v,
         Sums(t, w, N), Sums(u, v, M), \A n \in 1 .. N : w[n] = v[n]
  PROVE  t[N] = u[N]
<1> DEFINE Bad == {k \in 0 .. N : t[k] # u[k]}
<1>1. t[0] = u[0]
  BY DEF Sums
<1>2. ASSUME NEW k \in 1 .. N, t[k - 1] = u[k - 1] PROVE t[k] = u[k]
  <2>1. k \in 1 .. M
    OBVIOUS
  <2>2. t[k] = t[k - 1] + w[k] /\ u[k] = u[k - 1] + v[k] /\ w[k] = v[k]
    BY <2>1 DEF Sums
  <2>3. QED
    BY <1>2, <2>2
<1>3. Bad = {}
  <2> SUFFICES ASSUME Bad # {} PROVE FALSE
    OBVIOUS
  <2>1. PICK k \in Bad : \A j \in Bad : k <= j
    <3>1. Bad \subseteq Nat
      OBVIOUS
    <3> HIDE DEF Bad
    <3>2. QED
      BY <3>1, LeastNat
  <2>2. k \in 1 .. N
    BY <1>1, <2>1
  <2>3. k - 1 \in 0 .. N /\ k - 1 \notin Bad
    BY <2>1, <2>2
  <2>4. QED
    BY <1>2, <2>1, <2>2, <2>3
<1>4. QED
  BY <1>3

Lengths(s, m) == [n \in 1 .. Len(m) |-> s[m[n].frame].len]

(* Size, with the frames as a parameter.                                   *)
Weight(s, m) ==
  LET total[n \in 0 .. Len(m)] ==
        IF n = 0 THEN 0 ELSE total[n - 1] + s[m[n].frame].len
  IN  total[Len(m)]

LEMMA SizeIsWeight ==
  /\ \A m : Size(m) = Weight(sent, m)
  BY DEF Size, Weight

LEMMA WeightIs ==
  ASSUME NEW s, NEW m \in Seq(Payloads), \A n \in 1 .. Len(m) : s[m[n].frame].len \in Nat
  PROVE  \E t : Sums(t, Lengths(s, m), Len(m)) /\ Weight(s, m) = t[Len(m)] /\ t[Len(m)] \in Nat
<1> DEFINE w == Lengths(s, m)
           N == Len(m)
           F(t) == [n \in 0 .. N |-> IF n = 0 THEN 0 ELSE t[n - 1] + s[m[n].frame].len]
<1>1. N \in Nat /\ \A n \in 1 .. N : w[n] = s[m[n].frame].len /\ w[n] \in Nat
  BY DEF Lengths
<1> HIDE DEF w
<1>2. PICK t : Sums(t, w, N)
  BY <1>1, SumsExist
<1>3. t = F(t)
  <2>1. t \in [0 .. N -> Nat] /\ t[0] = 0 /\ \A n \in 1 .. N : t[n] = t[n - 1] + w[n]
    BY <1>2 DEF Sums
  <2>2. \A n \in 0 .. N : t[n] = IF n = 0 THEN 0 ELSE t[n - 1] + s[m[n].frame].len
    BY <1>1, <2>1
  <2>3. QED
    BY <2>1, <2>2
<1> DEFINE total == CHOOSE f : f = F(f)
<1>4. total = F(total)
  BY <1>3
<1>5. Weight(s, m) = total[N]
  BY DEF Weight
<1> HIDE DEF total
<1>6. Sums(total, w, N)
  <2>1. total[0] = 0 /\ \A n \in 1 .. N : total[n] = total[n - 1] + w[n]
    <3>1. \A n \in 0 .. N : total[n] = IF n = 0 THEN 0 ELSE total[n - 1] + s[m[n].frame].len
      BY <1>4
    <3>2. QED
      BY <1>1, <3>1
  <2>2. total = t
    <3> DEFINE Bad == {k \in 0 .. N : total[k] # t[k]}
    <3>1. Bad = {}
      <4> SUFFICES ASSUME Bad # {} PROVE FALSE
        OBVIOUS
      <4>1. PICK k \in Bad : \A j \in Bad : k <= j
        <5>1. Bad \subseteq Nat
          OBVIOUS
        <5> HIDE DEF Bad
        <5>2. QED
          BY <5>1, LeastNat
      <4>2. k # 0
        BY <1>2, <2>1, <4>1 DEF Sums
      <4>3. k - 1 \in 0 .. N /\ k - 1 \notin Bad /\ k \in 1 .. N
        BY <1>1, <4>1, <4>2
      <4>4. total[k - 1] = t[k - 1]
        BY <4>3
      <4>5. QED
        BY <1>2, <2>1, <4>1, <4>3, <4>4 DEF Sums
    <3>2. \A k \in 0 .. N : total[k] = t[k]
      BY <3>1
    <3>3. F(total) = F(t)
      <4>1. \A n \in 0 .. N : n # 0 => n - 1 \in 0 .. N
        BY <1>1
      <4>2. QED
        BY <3>2, <4>1
    <3>4. QED
      BY <1>3, <1>4, <3>3
  <2>3. QED
    BY <1>2, <2>2
<1>7. total[N] \in Nat
  BY <1>1, <1>6 DEF Sums
<1>8. QED
  BY <1>5, <1>6, <1>7 DEF w

LEMMA WeightOne ==
  ASSUME NEW s, NEW p \in Payloads, s[p.frame].len \in Nat
  PROVE  Weight(s, <<p>>) = s[p.frame].len
<1>1. <<p>> \in Seq(Payloads) /\ Len(<<p>>) = 1 /\ <<p>>[1] = p
  OBVIOUS
<1> DEFINE m == <<p>>
<1> HIDE DEF m
<1>2. m \in Seq(Payloads) /\ Len(m) = 1 /\ m[1] = p
  BY <1>1 DEF m
<1>3. PICK t : Sums(t, Lengths(s, m), 1) /\ Weight(s, m) = t[1]
  <2>1. \A n \in 1 .. Len(m) : s[m[n].frame].len \in Nat
    BY <1>2
  <2>2. QED
    BY <1>2, <2>1, WeightIs
<1>4. Lengths(s, m)[1] = s[p.frame].len
  BY <1>2 DEF Lengths
<1>5. t[0] = 0 /\ t[1] = t[1 - 1] + Lengths(s, m)[1]
  BY <1>3 DEF Sums
<1>6. t[1] = s[p.frame].len
  <2> DEFINE x == s[p.frame].len
  <2>1. x \in Nat /\ t[0] = 0 /\ t[1] = t[1 - 1] + x
    BY <1>4, <1>5
  <2> HIDE DEF x
  <2>2. t[1] = x
    BY <2>1
  <2>3. QED
    BY <2>2 DEF x
<1>7. QED
  BY <1>3, <1>6 DEF m

LEMMA WeightMore ==
  ASSUME NEW s, NEW m \in Seq(Payloads), NEW p \in Payloads, s[p.frame].len \in Nat,
         \A n \in 1 .. Len(m) : s[m[n].frame].len \in Nat
  PROVE  Weight(s, Append(m, p)) = Weight(s, m) + s[p.frame].len /\ Weight(s, m) \in Nat
<1> DEFINE r == Append(m, p)
           x == s[p.frame].len
<1>1. /\ r \in Seq(Payloads) /\ Len(r) = Len(m) + 1 /\ Len(m) \in Nat /\ r[Len(m) + 1] = p
      /\ \A n \in 1 .. Len(m) : r[n] = m[n]
  BY AppendProperties
<1>0. x \in Nat
  OBVIOUS
<1> HIDE DEF r, x
<1>2. \A n \in 1 .. Len(r) : s[r[n].frame].len \in Nat
  <2> TAKE n \in 1 .. Len(r)
  <2>1. CASE n \in 1 .. Len(m)
    BY <1>1, <2>1
  <2>2. CASE n = Len(m) + 1
    BY <1>0, <1>1, <2>2 DEF x
  <2>3. QED
    BY <1>1, <2>1, <2>2
<1>3. PICK t : Sums(t, Lengths(s, m), Len(m)) /\ Weight(s, m) = t[Len(m)] /\ t[Len(m)] \in Nat
  BY WeightIs
<1>4. PICK u : Sums(u, Lengths(s, r), Len(r)) /\ Weight(s, r) = u[Len(r)]
  BY <1>1, <1>2, WeightIs
<1>5. \A n \in 1 .. Len(m) : Lengths(s, m)[n] = Lengths(s, r)[n]
  BY <1>1 DEF Lengths
<1>6. t[Len(m)] = u[Len(m)]
  BY <1>1, <1>3, <1>4, <1>5, SumsAgree
<1>7. Lengths(s, r)[Len(m) + 1] = x
  BY <1>1 DEF Lengths, x
<1>8. u[Len(m) + 1] = u[Len(m)] + x
  <2>1. Len(m) + 1 \in 1 .. Len(r) /\ (Len(m) + 1) - 1 = Len(m)
    BY <1>1
  <2>2. QED
    BY <1>4, <1>7, <2>1 DEF Sums
<1>9. QED
  BY <1>1, <1>3, <1>4, <1>6, <1>8 DEF r, x

LEMMA WeightKept ==
  ASSUME NEW s, NEW r, NEW m \in Seq(Payloads),
         \A n \in 1 .. Len(m) : s[m[n].frame].len \in Nat /\ r[m[n].frame] = s[m[n].frame]
  PROVE  Weight(r, m) = Weight(s, m)
<1>1. PICK t : Sums(t, Lengths(s, m), Len(m)) /\ Weight(s, m) = t[Len(m)]
  BY WeightIs
<1>2. PICK u : Sums(u, Lengths(r, m), Len(m)) /\ Weight(r, m) = u[Len(m)]
  <2>1. \A n \in 1 .. Len(m) : r[m[n].frame].len \in Nat
    OBVIOUS
  <2>2. QED
    BY <2>1, WeightIs
<1>3. \A n \in 1 .. Len(m) : Lengths(s, m)[n] = Lengths(r, m)[n]
  BY DEF Lengths
<1>4. Len(m) \in Nat
  OBVIOUS
<1>5. QED
  BY <1>1, <1>2, <1>3, <1>4, SumsAgree

-----------------------------------------------------------------------------
(* Messages                                                                *)

(* The fragments m are those of one message among the frames up to c.      *)
Run(s, m, c) ==
  /\ m \in Seq(Payloads) /\ m # <<>>
  /\ \A n \in 1 .. Len(m) : m[n].clear = TRUE /\ m[n].frame \in 1 .. c
  /\ s[m[1].frame].op \in Data
  /\ \A n \in 2 .. Len(m) : s[m[n].frame].op = "cont"
  /\ \A n, k \in 1 .. Len(m) : n < k => m[n].frame < m[k].frame
  /\ \A n \in 1 .. Len(m) - 1 : ~s[m[n].frame].fin
  /\ \A i \in m[1].frame .. c : (\E n \in 1 .. Len(m) : m[n].frame = i) \/ s[i].op \in Control

LastFrame(m)  == m[Len(m)].frame
Light(s, m)   == Weight(s, m) <= Max({MaxFrame, MaxMessage})
Whole(s, m)   == Run(s, m, LastFrame(m)) /\ s[LastFrame(m)].fin /\ Light(s, m)
Later(m, d)   == \A k \in 1 .. Len(d) : LastFrame(d[k]) < m[1].frame

(* The message in the making, and those that were returned, when the       *)
(* frames up to c were consumed.                                           *)
Gathered(c) ==
  message # <<>> =>
    Run(sent, message, c) /\ ~sent[LastFrame(message)].fin /\ Light(sent, message) /\ Later(message, delivered)

Handed(c) ==
  /\ delivered \in Seq(Seq(Payloads))
  /\ \A k \in 1 .. Len(delivered) : Whole(sent, delivered[k]) /\ LastFrame(delivered[k]) \in 1 .. c
  /\ \A k \in 1 .. Len(delivered) - 1 : LastFrame(delivered[k]) < delivered[k + 1][1].frame

Found(i, j, d) == \E k \in 1 .. Len(d) : FramesOf(d[k]) = Fragments(i, j)

Lossless(c) == \A i, j \in 1 .. c : Complete(i, j) => Found(i, j, delivered)

Told(c) == Gathered(c) /\ Handed(c) /\ Lossless(c)

LEMMA RunShape ==
  ASSUME NEW s, NEW c \in Nat, NEW m, Run(s, m, c)
  PROVE  /\ m \in Seq(Payloads) /\ Len(m) \in Nat /\ Len(m) >= 1
         /\ \A n \in 1 .. Len(m) : m[n] \in Payloads /\ m[n].frame \in 1 .. c
         /\ LastFrame(m) \in 1 .. c /\ m[1].frame \in 1 .. c
         /\ \A n \in 1 .. Len(m) : m[1].frame <= m[n].frame /\ m[n].frame <= LastFrame(m)
<1>1. m \in Seq(Payloads) /\ m # <<>>
  BY DEF Run
<1>2. Len(m) \in Nat /\ Len(m) >= 1 /\ \A n \in 1 .. Len(m) : m[n] \in Payloads
  BY <1>1
<1>3. \A n \in 1 .. Len(m) : m[n].frame \in 1 .. c
  BY DEF Run
<1>4. 1 \in 1 .. Len(m) /\ Len(m) \in 1 .. Len(m)
  BY <1>2
<1>5. ASSUME NEW n \in 1 .. Len(m)
      PROVE  m[1].frame <= m[n].frame /\ m[n].frame <= LastFrame(m)
  <2>1. n = 1 \/ 1 < n
    OBVIOUS
  <2>2. n = Len(m) \/ n < Len(m)
    BY <1>2
  <2>3. \A a, b \in 1 .. Len(m) : a < b => m[a].frame < m[b].frame
    BY DEF Run
  <2>4. m[1].frame <= m[n].frame
    BY <1>3, <1>4, <2>1, <2>3
  <2>5. m[n].frame <= m[Len(m)].frame
    BY <1>3, <1>4, <2>2, <2>3
  <2>6. QED
    BY <2>4, <2>5 DEF LastFrame
<1>6. QED
  BY <1>1, <1>2, <1>3, <1>4, <1>5 DEF LastFrame

(* More frames change nothing about those before.                          *)
Grows(s, r) ==
  /\ s \in Seq(Frames) /\ r \in Seq(Frames) /\ Len(s) <= Len(r)
  /\ \A n \in 1 .. Len(s) : r[n] = s[n]

LEMMA RunKept ==
  ASSUME NEW s, NEW r, Grows(s, r), NEW c \in 0 .. Len(s), NEW m, Run(s, m, c)
  PROVE  Run(r, m, c) /\ r[LastFrame(m)] = s[LastFrame(m)] /\ (Light(s, m) => Light(r, m))
<1>0. c \in Nat /\ Len(s) \in Nat
  BY DEF Grows
<1>1. /\ m \in Seq(Payloads) /\ Len(m) \in Nat /\ Len(m) >= 1
      /\ \A n \in 1 .. Len(m) : m[n].frame \in 1 .. c
      /\ LastFrame(m) \in 1 .. c /\ m[1].frame \in 1 .. c
  BY <1>0, RunShape
<1>2. \A n \in 1 .. c : n \in 1 .. Len(s) /\ r[n] = s[n]
  BY <1>0 DEF Grows
<1>3. \A n \in 1 .. Len(m) : r[m[n].frame] = s[m[n].frame] /\ s[m[n].frame].len \in Nat
  <2>1. \A n \in 1 .. Len(s) : s[n].len \in Nat
    <3>1. \A n \in 1 .. Len(s) : s[n] \in Frames
      BY DEF Grows
    <3>2. QED
      BY <3>1, FrameType
  <2>2. QED
    BY <1>1, <1>2, <2>1
<1>4. \A i \in m[1].frame .. c : r[i] = s[i]
  BY <1>0, <1>1, <1>2
<1>5. Run(r, m, c)
  <2>1. r[m[1].frame].op \in Data
    BY <1>1, <1>2 DEF Run
  <2>2. \A n \in 2 .. Len(m) : n \in 1 .. Len(m)
    OBVIOUS
  <2>3. \A n \in 2 .. Len(m) : r[m[n].frame].op = "cont"
    BY <1>3, <2>2 DEF Run
  <2>4. \A n \in 1 .. Len(m) - 1 : ~r[m[n].frame].fin
    <3>1. \A n \in 1 .. Len(m) - 1 : n \in 1 .. Len(m)
      BY <1>1
    <3>2. QED
      BY <1>3, <3>1 DEF Run
  <2>5. \A i \in m[1].frame .. c : (\E n \in 1 .. Len(m) : m[n].frame = i) \/ r[i].op \in Control
    BY <1>4 DEF Run
  <2>6. QED
    BY <2>1, <2>3, <2>4, <2>5 DEF Run
<1>6. Weight(r, m) = Weight(s, m)
  BY <1>1, <1>3, WeightKept
<1>7. QED
  BY <1>1, <1>2, <1>5, <1>6 DEF Light

LEMMA WholeKept ==
  ASSUME NEW s, NEW r, Grows(s, r), NEW m, Whole(s, m), LastFrame(m) \in 0 .. Len(s)
  PROVE  Whole(r, m)
  BY RunKept DEF Whole

LEMMA SpanKept ==
  ASSUME Grows(sent, sent'), NEW i \in 1 .. Len(sent), NEW j \in 1 .. Len(sent)
  PROVE  (Complete(i, j)' <=> Complete(i, j)) /\ Fragments(i, j)' = Fragments(i, j)
<1>1. \A n \in i .. j : sent'[n] = sent[n]
  BY DEF Grows
<1>2. sent'[i] = sent[i] /\ sent'[j] = sent[j]
  BY DEF Grows
<1>3. \A n \in i + 1 .. j : n \in i .. j
  OBVIOUS
<1>4. Fragments(i, j)' = Fragments(i, j)
  BY <1>1 DEF Fragments
<1>5. QED
  BY <1>1, <1>2, <1>3, <1>4 DEF Complete

LEMMA ToldGrows ==
  ASSUME NEW c \in 0 .. Len(sent), Told(c), Grows(sent, sent'), UNCHANGED <<message, delivered>>
  PROVE  Told(c)'
<1>0. Len(sent) \in Nat /\ c \in Nat
  BY DEF Grows
<1>1. Gathered(c)'
  <2> SUFFICES ASSUME message # <<>>
               PROVE  /\ Run(sent', message, c) /\ ~sent'[LastFrame(message)].fin
                      /\ Light(sent', message) /\ Later(message, delivered)
    BY DEF Gathered, LastFrame
  <2>1. /\ Run(sent, message, c) /\ ~sent[LastFrame(message)].fin
        /\ Light(sent, message) /\ Later(message, delivered)
    BY DEF Told, Gathered
  <2>2. QED
    BY <2>1, RunKept
<1>2. Handed(c)'
  <2>1. ASSUME NEW k \in 1 .. Len(delivered)
        PROVE  Whole(sent', delivered[k]) /\ LastFrame(delivered[k]) \in 1 .. c
    <3>1. Whole(sent, delivered[k]) /\ LastFrame(delivered[k]) \in 1 .. c
      BY DEF Told, Handed
    <3>2. LastFrame(delivered[k]) \in 0 .. Len(sent)
      BY <1>0, <3>1
    <3>3. QED
      BY <3>1, <3>2, WholeKept
  <2>2. QED
    BY <2>1 DEF Told, Handed, LastFrame
<1>3. Lossless(c)'
  <2> SUFFICES ASSUME NEW i \in 1 .. c, NEW j \in 1 .. c, Complete(i, j)'
               PROVE  Found(i, j, delivered)'
    BY DEF Lossless
  <2>1. i \in 1 .. Len(sent) /\ j \in 1 .. Len(sent)
    BY <1>0
  <2>2. Complete(i, j) /\ Fragments(i, j)' = Fragments(i, j)
    BY <2>1, SpanKept
  <2>3. Found(i, j, delivered)
    BY <2>2 DEF Told, Lossless
  <2>4. QED
    BY <2>2, <2>3 DEF Found, FramesOf
<1>4. QED
  BY <1>1, <1>2, <1>3 DEF Told

(* A frame that is no part of a message, or none: recv() goes on, or has   *)
(* thrown the fragments away.                                              *)
LEMMA ToldDrops ==
  ASSUME NEW c \in Nat, Told(c), sent' = sent, delivered' = delivered, message' \in {message, <<>>}
  PROVE  Told(c)'
<1>1. Gathered(c)'
  BY DEF Told, Gathered, LastFrame
<1>2. Handed(c)'
  BY DEF Told, Handed, LastFrame
<1>3. Lossless(c)'
  <2> SUFFICES ASSUME NEW i \in 1 .. c, NEW j \in 1 .. c, Complete(i, j)'
               PROVE  Found(i, j, delivered)'
    BY DEF Lossless
  <2>1. Complete(i, j) /\ Fragments(i, j)' = Fragments(i, j)
    BY DEF Complete, Fragments
  <2>2. Found(i, j, delivered)
    BY <2>1 DEF Told, Lossless
  <2>3. QED
    BY <2>1, <2>2 DEF Found, FramesOf
<1>4. QED
  BY <1>1, <1>2, <1>3 DEF Told

LEMMA ToldControl ==
  ASSUME NEW c \in Nat, Told(c), sent[c + 1].op \in Control
  PROVE  Told(c + 1)
<1>1. \A i \in 1 .. c + 1 : i \in 1 .. c \/ i = c + 1
  OBVIOUS
<1>2. ASSUME NEW m, Run(sent, m, c) PROVE Run(sent, m, c + 1)
  <2>1. m[1].frame \in 1 .. c
    BY <1>2, RunShape
  <2>2. \A i \in m[1].frame .. c + 1 : i \in m[1].frame .. c \/ i = c + 1
    BY <2>1
  <2>3. \A i \in m[1].frame .. c + 1 : (\E n \in 1 .. Len(m) : m[n].frame = i) \/ sent[i].op \in Control
    BY <1>2, <2>2 DEF Run
  <2>4. \A n \in 1 .. Len(m) : m[n].frame \in 1 .. c + 1
    <3>1. \A n \in 1 .. Len(m) : m[n].frame \in 1 .. c
      BY <1>2 DEF Run
    <3>2. QED
      BY <3>1
  <2>5. QED
    BY <1>2, <2>3, <2>4 DEF Run
<1>3. Gathered(c + 1)
  BY <1>2 DEF Told, Gathered
<1>4. Handed(c + 1)
  <2>1. \A k \in 1 .. Len(delivered) : LastFrame(delivered[k]) \in 1 .. c + 1
    <3>1. \A k \in 1 .. Len(delivered) : LastFrame(delivered[k]) \in 1 .. c
      BY DEF Told, Handed
    <3>2. QED
      BY <3>1
  <2>2. QED
    BY <2>1 DEF Told, Handed
<1>5. Lossless(c + 1)
  <2> SUFFICES ASSUME NEW i \in 1 .. c + 1, NEW j \in 1 .. c + 1, Complete(i, j)
               PROVE  Found(i, j, delivered)
    BY DEF Lossless
  <2>1. sent[j].op \notin Control /\ i <= j
    BY DEF Complete
  <2>2. j # c + 1
    BY <2>1
  <2>3. i \in 1 .. c /\ j \in 1 .. c
    BY <2>1, <2>2
  <2>4. QED
    BY <2>3 DEF Told, Lossless
<1>6. QED
  BY <1>3, <1>4, <1>5 DEF Told

(* The first fragment, and one more.                                       *)
LEMMA RunStarts ==
  ASSUME NEW c \in Nat, NEW p \in Payloads, p.frame = c, c >= 1, p.clear = TRUE, sent[c].op \in Data
  PROVE  Run(sent, <<p>>, c) /\ LastFrame(<<p>>) = c
<1> DEFINE m == <<p>>
<1>1. m \in Seq(Payloads) /\ m # <<>> /\ Len(m) = 1 /\ m[1] = p
  OBVIOUS
<1> HIDE DEF m
<1>2. \A n \in 1 .. Len(m) : n = 1
  BY <1>1
<1>3. c \in 1 .. c /\ \A i \in c .. c : i = c
  OBVIOUS
<1>4. \A n \in 1 .. Len(m) : m[n].clear = TRUE /\ m[n].frame \in 1 .. c
  BY <1>1, <1>2, <1>3
<1>5. \A i \in m[1].frame .. c : \E n \in 1 .. Len(m) : m[n].frame = i
  BY <1>1, <1>3
<1>6. \A n \in 2 .. Len(m) : FALSE
  BY <1>1
<1>7. \A n \in 1 .. Len(m) - 1 : FALSE
  BY <1>1
<1>8. \A n, k \in 1 .. Len(m) : ~(n < k)
  BY <1>1
<1>9. Run(sent, m, c)
  BY <1>1, <1>4, <1>5, <1>6, <1>7, <1>8 DEF Run
<1>10. QED
  BY <1>1, <1>9 DEF LastFrame, m

LEMMA RunGoesOn ==
  ASSUME NEW c \in Nat, NEW m, Run(sent, m, c), ~sent[LastFrame(m)].fin,
         NEW p \in Payloads, p.frame = c + 1, p.clear = TRUE, sent[c + 1].op = "cont"
  PROVE  /\ Run(sent, Append(m, p), c + 1) /\ LastFrame(Append(m, p)) = c + 1
         /\ Append(m, p)[1] = m[1]
<1> DEFINE r == Append(m, p)
           N == Len(m)
<1>1. /\ m \in Seq(Payloads) /\ N \in Nat /\ N >= 1 /\ \A n \in 1 .. N : m[n].frame \in 1 .. c
      /\ m[1].frame \in 1 .. c
  BY RunShape
<1>2. /\ r \in Seq(Payloads) /\ Len(r) = N + 1 /\ r[N + 1] = p /\ \A n \in 1 .. N : r[n] = m[n]
  BY <1>1, AppendProperties
<1> HIDE DEF r
<1>3. r # <<>> /\ r[1] = m[1]
  BY <1>1, <1>2
<1>4. \A n \in 1 .. Len(r) : (n \in 1 .. N /\ r[n] = m[n]) \/ (n = N + 1 /\ r[n] = p)
  BY <1>1, <1>2
<1>5. \A n \in 1 .. Len(r) : r[n].clear = TRUE /\ r[n].frame \in 1 .. c + 1
  <2>1. \A n \in 1 .. N : m[n].clear = TRUE /\ m[n].frame \in 1 .. c + 1
    <3>1. \A n \in 1 .. N : m[n].clear = TRUE /\ m[n].frame \in 1 .. c
      BY DEF Run
    <3>2. QED
      BY <3>1
  <2>2. p.clear = TRUE /\ p.frame \in 1 .. c + 1
    OBVIOUS
  <2>3. QED
    BY <1>4, <2>1, <2>2
<1>6. \A n \in 2 .. Len(r) : sent[r[n].frame].op = "cont"
  <2>1. \A n \in 2 .. N : sent[m[n].frame].op = "cont"
    BY DEF Run
  <2>2. \A n \in 2 .. Len(r) : n \in 1 .. Len(r) /\ (n \in 2 .. N \/ n = N + 1)
    BY <1>1, <1>2
  <2>3. QED
    BY <1>2, <1>4, <2>1, <2>2
<1>7. \A n, k \in 1 .. Len(r) : n < k => r[n].frame < r[k].frame
  <2> SUFFICES ASSUME NEW n \in 1 .. Len(r), NEW k \in 1 .. Len(r), n < k
               PROVE  r[n].frame < r[k].frame
    OBVIOUS
  <2>1. n \in 1 .. N /\ r[n] = m[n]
    BY <1>1, <1>2
  <2>2. CASE k \in 1 .. N /\ r[k] = m[k]
    BY <2>1, <2>2 DEF Run
  <2>3. CASE r[k] = p
    BY <1>1, <2>1, <2>3
  <2>4. QED
    BY <1>4, <2>2, <2>3
<1>8. \A n \in 1 .. Len(r) - 1 : ~sent[r[n].frame].fin
  <2>1. \A n \in 1 .. N - 1 : ~sent[m[n].frame].fin
    BY DEF Run
  <2>2. ~sent[m[N].frame].fin
    BY DEF LastFrame
  <2>3. \A n \in 1 .. Len(r) - 1 : r[n] = m[n] /\ (n \in 1 .. N - 1 \/ n = N)
    BY <1>1, <1>2
  <2>4. QED
    BY <2>1, <2>2, <2>3
<1>9. \A i \in r[1].frame .. c + 1 : (\E n \in 1 .. Len(r) : r[n].frame = i) \/ sent[i].op \in Control
  <2> SUFFICES ASSUME NEW i \in m[1].frame .. c + 1, sent[i].op \notin Control
               PROVE  \E n \in 1 .. Len(r) : r[n].frame = i
    BY <1>3
  <2>1. CASE i = c + 1
    <3>1. N + 1 \in 1 .. Len(r) /\ r[N + 1].frame = i
      BY <1>1, <1>2, <2>1
    <3>2. QED
      BY <3>1
  <2>2. CASE i # c + 1
    <3>1. i \in m[1].frame .. c
      BY <1>1, <2>2
    <3>2. PICK n \in 1 .. N : m[n].frame = i
      BY <3>1 DEF Run
    <3>3. n \in 1 .. Len(r) /\ r[n].frame = i
      BY <1>1, <1>2, <3>2
    <3>4. QED
      BY <3>3
  <2>3. QED
    BY <2>1, <2>2
<1>10. sent[r[1].frame].op \in Data
  BY <1>3 DEF Run
<1>11. Run(sent, r, c + 1)
  BY <1>2, <1>3, <1>5, <1>6, <1>7, <1>8, <1>9, <1>10 DEF Run
<1>12. LastFrame(r) = c + 1
  BY <1>2 DEF LastFrame
<1>13. QED
  BY <1>3, <1>11, <1>12 DEF r

(* A fragment that is not the last.                                        *)
LEMMA ToldMore ==
  ASSUME NEW c \in Nat, Told(c), sent' = sent, delivered' = delivered,
         NEW m, message' = m, Run(sent, m, c + 1), LastFrame(m) = c + 1, ~sent[c + 1].fin,
         Light(sent, m), Later(m, delivered), sent[c + 1].op \notin Control
  PROVE  Told(c + 1)'
<1>1. Gathered(c + 1)'
  BY DEF Gathered, LastFrame
<1>2. Handed(c + 1)'
  <2>1. \A k \in 1 .. Len(delivered) : LastFrame(delivered[k]) \in 1 .. c + 1
    <3>1. \A k \in 1 .. Len(delivered) : LastFrame(delivered[k]) \in 1 .. c
      BY DEF Told, Handed
    <3>2. QED
      BY <3>1
  <2>2. QED
    BY <2>1 DEF Told, Handed, LastFrame
<1>3. Lossless(c + 1)'
  <2> SUFFICES ASSUME NEW i \in 1 .. c + 1, NEW j \in 1 .. c + 1, Complete(i, j)'
               PROVE  Found(i, j, delivered)'
    BY DEF Lossless
  <2>1. Complete(i, j) /\ Fragments(i, j)' = Fragments(i, j)
    BY DEF Complete, Fragments
  <2>2. j # c + 1
    <3> SUFFICES ASSUME j = c + 1 PROVE FALSE
      OBVIOUS
    <3>1. i <= j /\ j \in i .. j /\ sent[j].op \notin Control
      BY <2>1 DEF Complete
    <3>2. sent[j].fin
      BY <2>1, <3>1 DEF Complete
    <3>3. QED
      BY <3>2
  <2>3. i \in 1 .. c /\ j \in 1 .. c
    BY <2>1, <2>2 DEF Complete
  <2>4. Found(i, j, delivered)
    BY <2>1, <2>3 DEF Told, Lossless
  <2>5. QED
    BY <2>1, <2>4 DEF Found, FramesOf
<1>4. QED
  BY <1>1, <1>2, <1>3 DEF Told

(* The frames of a run are those of a message that ends with it.           *)
LEMMA RunIsSpan ==
  ASSUME NEW c \in Nat, NEW m, Run(sent, m, c), LastFrame(m) = c, NEW i \in 1 .. c, Complete(i, c)
  PROVE  FramesOf(m) = Fragments(i, c)
<1>1. /\ m \in Seq(Payloads) /\ Len(m) \in Nat /\ Len(m) >= 1 /\ DOMAIN m = 1 .. Len(m)
      /\ \A n \in 1 .. Len(m) : m[n].frame \in 1 .. c /\ m[1].frame <= m[n].frame /\ m[n].frame <= c
      /\ m[1].frame \in 1 .. c
  <2>1. /\ m \in Seq(Payloads) /\ Len(m) \in Nat /\ Len(m) >= 1 /\ m[1].frame \in 1 .. c
        /\ \A n \in 1 .. Len(m) : m[n].frame \in 1 .. c /\ m[1].frame <= m[n].frame
    BY RunShape
  <2>2. \A n \in 1 .. Len(m) : m[n].frame <= c
    BY <2>1
  <2>3. QED
    BY <2>1, <2>2
<1>2. sent[m[1].frame].op \in Data /\ \A n \in 2 .. Len(m) : sent[m[n].frame].op = "cont"
  BY DEF Run
<1>3. /\ sent[i].op \in Data
      /\ \A n \in i + 1 .. c : sent[n].op \in Control \cup {"cont"}
  BY DEF Complete
<1>4. \A o \in Data : o \notin Control /\ o # "cont"
  BY DEF Data, Control
<1>5. i = m[1].frame
  <2>1. CASE i < m[1].frame
    <3>1. m[1].frame \in i + 1 .. c
      BY <1>1, <2>1
    <3>2. QED
      BY <1>2, <1>3, <1>4, <3>1
  <2>2. CASE i > m[1].frame
    <3>1. i \in m[1].frame .. c
      BY <1>1, <2>2
    <3>2. sent[i].op \notin Control
      BY <1>3, <1>4
    <3>3. PICK n \in 1 .. Len(m) : m[n].frame = i
      BY <3>1, <3>2 DEF Run
    <3>4. n \in 2 .. Len(m)
      BY <2>2, <3>3, <1>1
    <3>5. QED
      BY <1>2, <1>3, <1>4, <3>3, <3>4
  <2>3. QED
    BY <1>1, <2>1, <2>2
<1>6. ASSUME NEW f \in FramesOf(m) PROVE f \in Fragments(i, c)
  <2>1. PICK n \in 1 .. Len(m) : m[n].frame = f
    BY <1>1 DEF FramesOf
  <2>2. f \in i .. c
    BY <1>1, <1>5, <2>1
  <2>3. sent[f].op \notin Control
    <3>1. n = 1 \/ n \in 2 .. Len(m)
      BY <1>1
    <3>2. "cont" \notin Control
      BY DEF Control
    <3>3. QED
      BY <1>2, <1>4, <2>1, <3>1, <3>2
  <2>4. QED
    BY <2>2, <2>3 DEF Fragments
<1>7. ASSUME NEW f \in Fragments(i, c) PROVE f \in FramesOf(m)
  <2>1. f \in m[1].frame .. c /\ sent[f].op \notin Control
    BY <1>5 DEF Fragments
  <2>2. PICK n \in 1 .. Len(m) : m[n].frame = f
    BY <2>1 DEF Run
  <2>3. QED
    BY <1>1, <2>2 DEF FramesOf
<1>8. QED
  BY <1>6, <1>7

(* The last fragment: recv() returns the message.                          *)
LEMMA ToldReturned ==
  ASSUME NEW c \in Nat, Told(c), sent' = sent, message' = <<>>,
         NEW m, delivered' = Append(delivered, m), Run(sent, m, c + 1), LastFrame(m) = c + 1, sent[c + 1].fin,
         Light(sent, m), Later(m, delivered)
  PROVE  Told(c + 1)'
<1> DEFINE N == Len(delivered)
           d == Append(delivered, m)
<1>0. m \in Seq(Payloads)
  BY DEF Run
<1>1. /\ delivered \in Seq(Seq(Payloads)) /\ N \in Nat
      /\ d \in Seq(Seq(Payloads)) /\ Len(d) = N + 1 /\ d[N + 1] = m /\ \A k \in 1 .. N : d[k] = delivered[k]
  BY <1>0, AppendProperties DEF Told, Handed
<1>n. delivered' = d
  OBVIOUS
<1> HIDE DEF d
<1>2. \A k \in 1 .. Len(d) : (k \in 1 .. N /\ d[k] = delivered[k]) \/ (k = N + 1 /\ d[k] = m)
  BY <1>1
<1>3. Gathered(c + 1)'
  BY DEF Gathered
<1>4. Handed(c + 1)'
  <2>1. \A k \in 1 .. N : Whole(sent, delivered[k]) /\ LastFrame(delivered[k]) \in 1 .. c + 1
    <3>1. \A k \in 1 .. N : Whole(sent, delivered[k]) /\ LastFrame(delivered[k]) \in 1 .. c
      BY DEF Told, Handed
    <3>2. QED
      BY <3>1
  <2>2. Whole(sent, m) /\ LastFrame(m) \in 1 .. c + 1
    BY DEF Whole
  <2>3. \A k \in 1 .. Len(d) : Whole(sent, d[k]) /\ LastFrame(d[k]) \in 1 .. c + 1
    BY <1>2, <2>1, <2>2
  <2>4. \A k \in 1 .. Len(d) - 1 : LastFrame(d[k]) < d[k + 1][1].frame
    <3> SUFFICES ASSUME NEW k \in 1 .. N
                 PROVE  LastFrame(d[k]) < d[k + 1][1].frame
      BY <1>1
    <3>1. d[k] = delivered[k]
      BY <1>1
    <3>2. CASE k = N
      <4>1. d[k + 1] = m
        BY <1>1, <3>2
      <4>2. QED
        BY <3>1, <4>1 DEF Later
    <3>3. CASE k # N
      <4>1. k \in 1 .. N - 1 /\ k + 1 \in 1 .. N
        BY <1>1, <3>3
      <4>2. d[k + 1] = delivered[k + 1]
        BY <1>1, <4>1
      <4>3. QED
        BY <3>1, <4>1, <4>2 DEF Told, Handed
    <3>4. QED
      BY <3>2, <3>3
  <2>5. QED
    BY <1>1, <1>n, <2>3, <2>4 DEF Handed, LastFrame
<1>5. Lossless(c + 1)'
  <2> SUFFICES ASSUME NEW i \in 1 .. c + 1, NEW j \in 1 .. c + 1, Complete(i, j)'
               PROVE  Found(i, j, delivered)'
    BY DEF Lossless
  <2>1. Complete(i, j) /\ Fragments(i, j)' = Fragments(i, j)
    BY DEF Complete, Fragments
  <2>2. \E k \in 1 .. Len(d) : FramesOf(d[k]) = Fragments(i, j)
    <3>1. CASE j = c + 1
      <4>1. FramesOf(m) = Fragments(i, j)
        BY <2>1, <3>1, RunIsSpan
      <4>2. N + 1 \in 1 .. Len(d) /\ d[N + 1] = m
        BY <1>1
      <4>3. QED
        BY <4>1, <4>2
    <3>2. CASE j # c + 1
      <4>1. i \in 1 .. c /\ j \in 1 .. c
        BY <2>1, <3>2 DEF Complete
      <4>2. Found(i, j, delivered)
        BY <2>1, <4>1 DEF Told, Lossless
      <4>3. PICK k \in 1 .. N : FramesOf(delivered[k]) = Fragments(i, j)
        BY <4>2 DEF Found
      <4>4. k \in 1 .. Len(d) /\ d[k] = delivered[k]
        BY <1>1
      <4>5. QED
        BY <4>3, <4>4
    <3>3. QED
      BY <3>1, <3>2
  <2>3. QED
    BY <1>n, <2>1, <2>2 DEF Found, FramesOf
<1>6. QED
  BY <1>3, <1>4, <1>5 DEF Told

-----------------------------------------------------------------------------
(* Pongs                                                                   *)

(* The pings among the frames up to c are answered.                        *)
Ponged(c) ==
  /\ \A i \in 1 .. c : sent[i].op = "ping" =>
       \E n \in 1 .. Len(answers) : IsPong(n) /\ answers[n].payload.frame = i
  /\ \A n \in 1 .. Len(answers) : IsPong(n) =>
       /\ answers[n].payload.clear = TRUE /\ answers[n].payload.frame \in 1 .. c
       /\ sent[answers[n].payload.frame].op = "ping"
  /\ \A n, m \in 1 .. Len(answers) :
       IsPong(n) /\ IsPong(m) /\ n < m => answers[n].payload.frame < answers[m].payload.frame

LEMMA PongedGrows ==
  ASSUME NEW c \in 0 .. Len(sent), Ponged(c), Grows(sent, sent'), answers' = answers
  PROVE  Ponged(c)'
<1>0. \A i \in 1 .. c : sent'[i] = sent[i]
  <2>1. \A i \in 1 .. c : i \in 1 .. Len(sent)
    BY DEF Grows
  <2>2. QED
    BY <2>1 DEF Grows
<1>1. \A i \in 1 .. c : sent[i].op = "ping" =>
        \E n \in 1 .. Len(answers) : IsPong(n) /\ answers[n].payload.frame = i
  BY DEF Ponged
<1>2. \A n \in 1 .. Len(answers) : IsPong(n) =>
        /\ answers[n].payload.clear = TRUE /\ answers[n].payload.frame \in 1 .. c
        /\ sent[answers[n].payload.frame].op = "ping"
  BY DEF Ponged
<1>3. \A n \in 1 .. Len(answers) : IsPong(n)' <=> IsPong(n)
  BY DEF IsPong
<1>4. \A i \in 1 .. c : sent'[i].op = "ping" =>
        \E n \in 1 .. Len(answers) : IsPong(n)' /\ answers[n].payload.frame = i
  BY <1>0, <1>1, <1>3
<1>5. \A n \in 1 .. Len(answers) : IsPong(n)' =>
        /\ answers[n].payload.clear = TRUE /\ answers[n].payload.frame \in 1 .. c
        /\ sent'[answers[n].payload.frame].op = "ping"
  BY <1>0, <1>2, <1>3
<1>6. QED
  BY <1>3, <1>4, <1>5 DEF Ponged

(* A frame that is no ping, and an answer that is no pong, or neither.     *)
LEMMA PongedElse ==
  ASSUME NEW c \in Nat, NEW e \in {c, c + 1}, Ponged(c), e = c + 1 => sent[c + 1].op # "ping",
         sent' = sent, answers \in Seq(Sends), NEW a \in Sends, a.op # "pong",
         answers' \in {answers, Append(answers, a)}
  PROVE  Ponged(e)'
<1> DEFINE N == Len(answers)
<1>0. N \in Nat
  OBVIOUS
<1>1. /\ N \in Nat /\ N <= Len(answers') /\ \A n \in 1 .. N : answers'[n] = answers[n]
      /\ \A n \in 1 .. Len(answers') : n \in 1 .. N \/ answers'[n].op # "pong"
  <2>1. CASE answers' = answers
    BY <1>0, <2>1
  <2>2. CASE answers' = Append(answers, a)
    <3>1. /\ Len(answers') = N + 1 /\ answers'[N + 1] = a /\ \A n \in 1 .. N : answers'[n] = answers[n]
      BY <2>2, AppendProperties
    <3>2. QED
      BY <1>0, <3>1
  <2>3. QED
    BY <2>1, <2>2
<1>2. \A n \in 1 .. Len(answers') : IsPong(n)' <=> n \in 1 .. N /\ IsPong(n)
  BY <1>1 DEF IsPong
<1>3. \A n \in 1 .. N : n \in 1 .. Len(answers')
  BY <1>1
<1>4. \A i \in 1 .. e : sent[i].op = "ping" =>
        \E n \in 1 .. Len(answers') : IsPong(n)' /\ answers'[n].payload.frame = i
  <2> SUFFICES ASSUME NEW i \in 1 .. e, sent[i].op = "ping"
               PROVE  \E n \in 1 .. Len(answers') : IsPong(n)' /\ answers'[n].payload.frame = i
    OBVIOUS
  <2>1. i \in 1 .. c
    OBVIOUS
  <2>2. PICK n \in 1 .. N : IsPong(n) /\ answers[n].payload.frame = i
    BY <2>1 DEF Ponged
  <2>3. n \in 1 .. Len(answers') /\ IsPong(n)' /\ answers'[n] = answers[n]
    BY <1>1, <1>2, <1>3, <2>2
  <2>4. QED
    BY <2>2, <2>3
<1>5. ASSUME NEW n \in 1 .. Len(answers'), IsPong(n)'
      PROVE  /\ answers'[n].payload.clear = TRUE /\ answers'[n].payload.frame \in 1 .. e
             /\ sent[answers'[n].payload.frame].op = "ping"
  <2>1. n \in 1 .. N /\ IsPong(n) /\ answers'[n] = answers[n]
    BY <1>1, <1>2, <1>5
  <2>2. /\ answers[n].payload.clear = TRUE /\ answers[n].payload.frame \in 1 .. c
        /\ sent[answers[n].payload.frame].op = "ping"
    BY <2>1 DEF Ponged
  <2>3. QED
    BY <2>1, <2>2
<1>6. ASSUME NEW n \in 1 .. Len(answers'), NEW m \in 1 .. Len(answers'), IsPong(n)', IsPong(m)', n < m
      PROVE  answers'[n].payload.frame < answers'[m].payload.frame
  <2>1. /\ n \in 1 .. N /\ IsPong(n) /\ answers'[n] = answers[n]
        /\ m \in 1 .. N /\ IsPong(m) /\ answers'[m] = answers[m]
    BY <1>1, <1>2, <1>6
  <2>2. QED
    BY <1>6, <2>1 DEF Ponged
<1>7. QED
  BY <1>4, <1>5, <1>6 DEF Ponged

LEMMA PongedPing ==
  ASSUME NEW c \in Nat, Ponged(c), sent[c + 1].op = "ping", sent' = sent, answers \in Seq(Sends),
         NEW p \in Payloads, p.frame = c + 1, p.clear = TRUE, answers' = Append(answers, Answer("pong", p))
  PROVE  Ponged(c + 1)'
<1> DEFINE a == Answer("pong", p)
<1>n. PICK N \in Nat : N = Len(answers)
  OBVIOUS
<1>0. a \in Sends /\ a.op = "pong" /\ a.payload = p /\ N \in Nat
  BY DEF Answer, Sends
<1> HIDE DEF a
<1>1. Len(answers') = N + 1 /\ answers'[N + 1] = a /\ \A n \in 1 .. N : answers'[n] = answers[n]
  BY <1>0, <1>n, AppendProperties DEF a
<1>2. \A n \in 1 .. Len(answers') : (n \in 1 .. N /\ answers'[n] = answers[n]) \/ (n = N + 1 /\ answers'[n] = a)
  BY <1>0, <1>1
<1>3. \A n \in 1 .. N : n \in 1 .. Len(answers') /\ (IsPong(n)' <=> IsPong(n))
  BY <1>0, <1>1 DEF IsPong
<1>4. N + 1 \in 1 .. Len(answers') /\ IsPong(N + 1)'
  BY <1>0, <1>1 DEF IsPong
<1>5. \A i \in 1 .. c + 1 : sent[i].op = "ping" =>
        \E n \in 1 .. Len(answers') : IsPong(n)' /\ answers'[n].payload.frame = i
  <2> SUFFICES ASSUME NEW i \in 1 .. c + 1, sent[i].op = "ping"
               PROVE  \E n \in 1 .. Len(answers') : IsPong(n)' /\ answers'[n].payload.frame = i
    OBVIOUS
  <2>1. CASE i \in 1 .. c
    <3>1. PICK n \in 1 .. N : IsPong(n) /\ answers[n].payload.frame = i
      BY <1>n, <2>1 DEF Ponged
    <3>2. QED
      BY <1>1, <1>3, <3>1
  <2>2. CASE i = c + 1
    <3>1. answers'[N + 1].payload.frame = i
      BY <1>0, <1>1, <2>2
    <3>2. QED
      BY <1>4, <3>1
  <2>3. QED
    BY <2>1, <2>2
<1>6. ASSUME NEW n \in 1 .. Len(answers'), IsPong(n)'
      PROVE  /\ answers'[n].payload.clear = TRUE /\ answers'[n].payload.frame \in 1 .. c + 1
             /\ sent[answers'[n].payload.frame].op = "ping"
  <2>1. CASE n \in 1 .. N /\ answers'[n] = answers[n]
    <3>1. IsPong(n)
      BY <1>3, <1>6, <2>1
    <3>2. /\ answers[n].payload.clear = TRUE /\ answers[n].payload.frame \in 1 .. c
          /\ sent[answers[n].payload.frame].op = "ping"
      BY <1>n, <2>1, <3>1 DEF Ponged
    <3>3. QED
      BY <2>1, <3>2
  <2>2. CASE answers'[n] = a
    <3>1. answers'[n].payload = p
      BY <1>0, <2>2
    <3>2. QED
      BY <3>1
  <2>3. QED
    BY <1>2, <2>1, <2>2
<1>7. ASSUME NEW n \in 1 .. Len(answers'), NEW m \in 1 .. Len(answers'), IsPong(n)', IsPong(m)', n < m
      PROVE  answers'[n].payload.frame < answers'[m].payload.frame
  <2>1. n \in 1 .. N /\ answers'[n] = answers[n] /\ IsPong(n)
    BY <1>0, <1>1, <1>3, <1>7
  <2>2. answers[n].payload.frame \in 1 .. c
    BY <1>n, <2>1 DEF Ponged
  <2>3. CASE m \in 1 .. N /\ answers'[m] = answers[m]
    <3>1. IsPong(m)
      BY <1>3, <1>7, <2>3
    <3>2. QED
      BY <1>n, <1>7, <2>1, <2>3, <3>1 DEF Ponged
  <2>4. CASE answers'[m] = a
    <3>1. answers'[m].payload.frame = c + 1
      BY <1>0, <2>4
    <3>2. QED
      BY <2>1, <2>2, <3>1
  <2>5. QED
    BY <1>2, <2>3, <2>4
<1>8. QED
  BY <1>5, <1>6, <1>7 DEF Ponged

-----------------------------------------------------------------------------
(* Where the frames lie                                                    *)

(* The cells ahead of a reader at place q of b, with w on the way.         *)
Far(b, q, w) == (Len(b) - q) + Len(w)

Ahead(b, q, w) ==
  [n \in 1 .. Far(b, q, w) |-> IF q + n <= Len(b) THEN b[q + n] ELSE w[(q + n) - Len(b)]]

(* The L cells u are those of the frames of s behind the c-th: that of     *)
(* number i ends at off[i].                                                *)
Offsets(s, L, c, off) ==
  /\ c \in 0 .. Len(s) /\ off \in [Nat -> Nat] /\ off[c] = 0 /\ off[Len(s)] = L
  /\ \A i \in c + 1 .. Len(s) : off[i] = off[i - 1] + FrameLen(s[i])

Laid(s, u, L, c, off) ==
  /\ Offsets(s, L, c, off)
  /\ \A i \in c + 1 .. Len(s) : \A n \in off[i - 1] + 1 .. off[i] :
       u[n].frame = i /\ (i # c + 1 => Fresh(s[i], u[n]))

(* A masked frame that was unmasked and left where it is will never be     *)
(* used, whatever it holds now.                                            *)
Excused(c) ==
  \/ sent[c + 1].op = "cont" /\ message = <<>>
  \/ sent[c + 1].op = "unknown"
  \/ sent[c + 1].op \in {"ping", "close"} /\ (shut \/ link = "reset")

LEMMA OffsetsGrow ==
  ASSUME NEW s \in Seq(Frames), NEW L, NEW c, NEW off, Offsets(s, L, c, off)
  PROVE  /\ \A i \in c .. Len(s) : \A j \in i .. Len(s) : off[i] <= off[j]
         /\ \A i \in c + 1 .. Len(s) : FrameLen(s[i]) \in Nat \ {0} /\ off[i - 1] < off[i]
<1>0. Len(s) \in Nat /\ c \in Nat /\ c <= Len(s) /\ \A i \in Nat : off[i] \in Nat
  BY DEF Offsets
<1>1. ASSUME NEW i \in c + 1 .. Len(s)
      PROVE  FrameLen(s[i]) \in Nat \ {0} /\ off[i - 1] < off[i]
  <2>1. s[i] \in Frames
    BY <1>0
  <2>2. FrameLen(s[i]) \in Nat /\ HeadLen(s[i]) \in 1 .. 2 /\ HeadLen(s[i]) <= FrameLen(s[i])
    BY <2>1, FrameLenIs
  <2>3. off[i] = off[i - 1] + FrameLen(s[i])
    BY DEF Offsets
  <2>4. off[i - 1] \in Nat
    BY <1>0
  <2>5. QED
    BY <2>2, <2>3, <2>4
<1>2. ASSUME NEW i \in c .. Len(s) PROVE \A j \in i .. Len(s) : off[i] <= off[j]
  <2> DEFINE Bad == {j \in i .. Len(s) : ~(off[i] <= off[j])}
  <2>1. Bad = {}
    <3> SUFFICES ASSUME Bad # {} PROVE FALSE
      OBVIOUS
    <3>1. PICK j \in Bad : \A k \in Bad : j <= k
      <4>1. Bad \subseteq Nat
        BY <1>0
      <4> HIDE DEF Bad
      <4>2. QED
        BY <4>1, LeastNat
    <3>2. j \in i .. Len(s) /\ j # i
      BY <1>0, <3>1
    <3>3. j - 1 \in i .. Len(s) /\ j - 1 \notin Bad /\ j \in c + 1 .. Len(s)
      BY <1>0, <3>1, <3>2
    <3>4. off[i] <= off[j - 1] /\ off[j - 1] < off[j]
      BY <1>1, <3>3
    <3>5. off[i] \in Nat /\ off[j - 1] \in Nat /\ off[j] \in Nat
      BY <1>0, <3>3
    <3>6. QED
      BY <3>1, <3>4, <3>5
  <2>2. QED
    BY <2>1
<1>3. QED
  BY <1>1, <1>2

(* What lies at the front.                                                 *)
LEMMA FrontIs ==
  ASSUME NEW s \in Seq(Frames), NEW u, NEW L, NEW c, NEW off, Laid(s, u, L, c, off)
  PROVE  /\ L \in Nat /\ c \in 0 .. Len(s) /\ (L = 0 <=> c = Len(s))
         /\ c < Len(s) => /\ c + 1 \in 1 .. Len(s) /\ s[c + 1] \in Frames
                          /\ off[c + 1] = FrameLen(s[c + 1]) /\ off[c + 1] \in 1 .. L
                          /\ \A n \in 1 .. off[c + 1] : u[n].frame = c + 1
<1>0. Len(s) \in Nat /\ c \in 0 .. Len(s) /\ L \in Nat /\ off[c] = 0 /\ off[Len(s)] = L /\ Offsets(s, L, c, off)
  <2>1. Len(s) \in Nat
    OBVIOUS
  <2>2. Offsets(s, L, c, off)
    BY DEF Laid
  <2>3. c \in 0 .. Len(s) /\ off \in [Nat -> Nat] /\ off[c] = 0 /\ off[Len(s)] = L
    BY <2>2 DEF Offsets
  <2>4. QED
    BY <2>1, <2>2, <2>3
<1>1. ASSUME c < Len(s)
      PROVE  /\ c + 1 \in 1 .. Len(s) /\ s[c + 1] \in Frames
             /\ off[c + 1] = FrameLen(s[c + 1]) /\ off[c + 1] \in 1 .. L
             /\ \A n \in 1 .. off[c + 1] : u[n].frame = c + 1
  <2>1. c + 1 \in 1 .. Len(s) /\ c + 1 \in c + 1 .. Len(s) /\ (c + 1) - 1 = c /\ c + 1 \in c .. Len(s)
        /\ Len(s) \in c + 1 .. Len(s)
    BY <1>0, <1>1
  <2>2. FrameLen(s[c + 1]) \in Nat \ {0} /\ off[c + 1] <= L
    BY <1>0, <2>1, OffsetsGrow
  <2>3. off[c + 1] = off[c] + FrameLen(s[c + 1])
    BY <2>1 DEF Laid, Offsets
  <2>4. off[c + 1] = FrameLen(s[c + 1])
    BY <1>0, <2>2, <2>3
  <2>5. \A n \in off[c] + 1 .. off[c + 1] : u[n].frame = c + 1
    BY <2>1 DEF Laid
  <2>6. off[c] + 1 = 1
    BY <1>0
  <2>7. s[c + 1] \in Frames
    BY <2>1
  <2>8. QED
    BY <1>0, <2>1, <2>2, <2>4, <2>5, <2>6, <2>7
<1>2. L = 0 <=> c = Len(s)
  BY <1>0, <1>1
<1>3. QED
  BY <1>0, <1>1, <1>2

LEMMA Across ==
  ASSUME NEW q \in Nat, NEW b \in Nat, NEW r \in Nat, NEW c \in Nat, NEW k \in Nat, NEW n \in Nat,
         c - r = b - q, ~(q + n <= b), r + n <= c + k
  PROVE  (q + n) - b \in 1 .. k /\ r + n = c + ((q + n) - b)
  OBVIOUS

LEMMA Beyond ==
  ASSUME NEW q \in Nat, NEW b \in Nat, NEW r \in Nat, NEW c \in Nat, NEW k \in Nat, NEW n \in Nat, NEW l \in Nat,
         c - r = b - q, ~(r + n <= c + k), n <= (b - q) + l
  PROVE  (r + n) - (c + k) \in 1 .. l - k /\ k + ((r + n) - (c + k)) = (q + n) - b
  OBVIOUS

(* A read moves cells, and a compaction drops consumed ones: what is ahead *)
(* stays.                                                                  *)
LEMMA AheadMoves ==
  ASSUME NEW b \in Seq(CellSet), NEW q \in 0 .. Len(b), NEW w \in Seq(CellSet), NEW k \in 0 .. Len(w),
         NEW c \in Seq(CellSet), NEW r, Compacts(b, q, c, r)
  PROVE  /\ Far(c \o SubSeq(w, 1, k), r, SubSeq(w, k + 1, Len(w))) = Far(b, q, w)
         /\ Ahead(c \o SubSeq(w, 1, k), r, SubSeq(w, k + 1, Len(w))) = Ahead(b, q, w)
<1> DEFINE new == SubSeq(w, 1, k)
           v == SubSeq(w, k + 1, Len(w))
           d == c \o new
<1>0. Len(b) \in Nat /\ Len(w) \in Nat /\ Len(c) \in Nat /\ k \in Nat /\ k <= Len(w) /\ q \in Nat
  OBVIOUS
<1>1. /\ r \in 0 .. Len(c) /\ Len(c) - r = Len(b) - q /\ \A n \in 1 .. Len(b) - q : c[r + n] = b[q + n]
  BY DEF Compacts
<1>2. /\ new \in Seq(CellSet) /\ Len(new) = k /\ \A n \in 1 .. k : new[n] = w[n]
      /\ v \in Seq(CellSet) /\ Len(v) = Len(w) - k /\ \A n \in 1 .. Len(w) - k : v[n] = w[k + n]
  BY Piece
<1> HIDE DEF new, v
<1>3. /\ Len(d) = Len(c) + k
      /\ \A n \in 1 .. Len(c) : d[n] = c[n]
      /\ \A n \in 1 .. k : d[Len(c) + n] = w[n]
  <2>1. /\ Len(d) = Len(c) + Len(new)
        /\ \A n \in 1 .. Len(c) : d[n] = c[n]
        /\ \A n \in 1 .. Len(new) : d[Len(c) + n] = new[n]
    <3>1. c \in Seq(CellSet) /\ new \in Seq(CellSet)
      BY <1>2
    <3>2. QED
      BY <3>1, Joined
  <2> HIDE DEF d
  <2>2. QED
    BY <1>2, <2>1
<1> HIDE DEF d
<1>8. Len(d) = Len(c) + k /\ Len(v) = Len(w) - k /\ r \in Nat /\ r <= Len(c) /\ Len(c) - r = Len(b) - q
  BY SMTT(30), <1>1, <1>2, <1>3
<1>4. Far(d, r, v) = Far(b, q, w)
  BY SMTT(30), <1>0, <1>8 DEF Far
<1>5. ASSUME NEW n \in 1 .. Far(b, q, w)
      PROVE  (IF r + n <= Len(d) THEN d[r + n] ELSE v[(r + n) - Len(d)])
               = (IF q + n <= Len(b) THEN b[q + n] ELSE w[(q + n) - Len(b)])
  <2>0. n \in Nat /\ n >= 1 /\ n <= (Len(b) - q) + Len(w) /\ r \in Nat
    BY <1>0, <1>8 DEF Far
  <2>1. CASE q + n <= Len(b)
    <3>1. n \in 1 .. Len(b) - q /\ r + n \in 1 .. Len(c) /\ r + n <= Len(d)
      BY <1>0, <1>8, <2>0, <2>1
    <3>2. d[r + n] = c[r + n]
      BY <1>3, <3>1
    <3>3. c[r + n] = b[q + n]
      BY <1>1, <3>1
    <3>4. QED
      BY <2>1, <3>1, <3>2, <3>3
  <2>2. CASE ~(q + n <= Len(b)) /\ r + n <= Len(d)
    <3> DEFINE m == (q + n) - Len(b)
    <3>1. m \in 1 .. k /\ r + n = Len(c) + m
      <4> DEFINE x == Len(b)
                 y == Len(c)
      <4>1. x \in Nat /\ y \in Nat /\ q \in Nat /\ r \in Nat /\ k \in Nat /\ n \in Nat
        BY <1>0, <1>8, <2>0
      <4>2. y - r = x - q /\ ~(q + n <= x) /\ r + n <= y + k
        BY <1>8, <2>2
      <4> HIDE DEF x, y
      <4>3. (q + n) - x \in 1 .. k /\ r + n = y + ((q + n) - x)
        BY <4>1, <4>2, Across
      <4>4. QED
        BY <4>3 DEF x, y
    <3> HIDE DEF m
    <3>2. d[r + n] = w[m]
      BY <1>3, <3>1
    <3>3. QED
      BY <2>2, <3>2 DEF m
  <2>3. CASE ~(q + n <= Len(b)) /\ ~(r + n <= Len(d))
    <3> DEFINE m == (r + n) - Len(d)
    <3>1. m \in 1 .. Len(w) - k /\ k + m = (q + n) - Len(b)
      <4> DEFINE x == Len(b)
                 y == Len(c)
                 l == Len(w)
      <4>1. x \in Nat /\ y \in Nat /\ l \in Nat /\ q \in Nat /\ r \in Nat /\ k \in Nat /\ n \in Nat
        BY <1>0, <1>8, <2>0
      <4>2. y - r = x - q /\ ~(r + n <= y + k) /\ n <= (x - q) + l /\ Len(d) = y + k
        BY <1>8, <2>0, <2>3
      <4> HIDE DEF x, y, l
      <4>3. (r + n) - (y + k) \in 1 .. l - k /\ k + ((r + n) - (y + k)) = (q + n) - x
        BY <4>1, <4>2, Beyond
      <4>4. QED
        BY <4>2, <4>3 DEF x, l
    <3> HIDE DEF m
    <3>2. v[m] = w[k + m]
      BY <1>2, <3>1
    <3>3. QED
      BY <2>3, <3>1, <3>2 DEF m
  <2>4. QED
    BY <2>1, <2>2, <2>3
<1>6. Ahead(d, r, v) = Ahead(b, q, w)
  BY <1>4, <1>5 DEF Ahead
<1>7. QED
  BY <1>4, <1>6 DEF d, new, v

(* A read of the upgrade leaves the buffer as it is, but for what it adds. *)
LEMMA AheadReads ==
  ASSUME NEW b \in Seq(CellSet), NEW q \in Nat, NEW w \in Seq(CellSet), NEW k \in 0 .. Len(w)
  PROVE  /\ Far(b \o SubSeq(w, 1, k), q, SubSeq(w, k + 1, Len(w))) = Far(b, q, w)
         /\ Ahead(b \o SubSeq(w, 1, k), q, SubSeq(w, k + 1, Len(w))) = Ahead(b, q, w)
<1> DEFINE new == SubSeq(w, 1, k)
           v == SubSeq(w, k + 1, Len(w))
           d == b \o new
<1>0. Len(b) \in Nat /\ Len(w) \in Nat /\ k \in Nat /\ k <= Len(w)
  OBVIOUS
<1>2. /\ new \in Seq(CellSet) /\ Len(new) = k /\ \A n \in 1 .. k : new[n] = w[n]
      /\ v \in Seq(CellSet) /\ Len(v) = Len(w) - k /\ \A n \in 1 .. Len(w) - k : v[n] = w[k + n]
  BY Piece
<1> HIDE DEF new, v
<1>3. /\ Len(d) = Len(b) + k
      /\ \A n \in 1 .. Len(b) : d[n] = b[n]
      /\ \A n \in 1 .. k : d[Len(b) + n] = w[n]
  <2>1. /\ Len(d) = Len(b) + Len(new)
        /\ \A n \in 1 .. Len(b) : d[n] = b[n]
        /\ \A n \in 1 .. Len(new) : d[Len(b) + n] = new[n]
    <3>1. b \in Seq(CellSet) /\ new \in Seq(CellSet)
      BY <1>2
    <3>2. QED
      BY <3>1, Joined
  <2> HIDE DEF d
  <2>2. QED
    BY <1>2, <2>1
<1> HIDE DEF d
<1>4. Far(d, q, v) = Far(b, q, w)
  BY <1>0, <1>2, <1>3 DEF Far
<1>5. ASSUME NEW n \in 1 .. Far(b, q, w)
      PROVE  (IF q + n <= Len(d) THEN d[q + n] ELSE v[(q + n) - Len(d)])
               = (IF q + n <= Len(b) THEN b[q + n] ELSE w[(q + n) - Len(b)])
  <2>0. n \in Nat /\ n >= 1 /\ n <= (Len(b) - q) + Len(w)
    BY <1>0 DEF Far
  <2>1. CASE q + n <= Len(b)
    <3>1. q + n \in 1 .. Len(b) /\ q + n <= Len(d)
      BY <1>0, <1>3, <2>0, <2>1
    <3>2. QED
      BY <1>3, <2>1, <3>1
  <2>2. CASE ~(q + n <= Len(b)) /\ q + n <= Len(d)
    <3> DEFINE m == (q + n) - Len(b)
    <3>1. m \in 1 .. k /\ q + n = Len(b) + m
      BY <1>0, <1>3, <2>0, <2>2
    <3> HIDE DEF m
    <3>2. d[q + n] = w[m]
      BY <1>3, <3>1
    <3>3. QED
      BY <2>2, <3>2 DEF m
  <2>3. CASE ~(q + n <= Len(b)) /\ ~(q + n <= Len(d))
    <3> DEFINE m == (q + n) - Len(d)
    <3>1. m \in 1 .. Len(w) - k /\ k + m = (q + n) - Len(b)
      BY <1>0, <1>3, <2>0, <2>3
    <3> HIDE DEF m
    <3>2. v[m] = w[k + m]
      BY <1>2, <3>1
    <3>3. QED
      BY <2>3, <3>1, <3>2 DEF m
  <2>4. QED
    BY <2>1, <2>2, <2>3
<1>6. Ahead(d, q, v) = Ahead(b, q, w)
  BY <1>4, <1>5 DEF Ahead
<1>7. QED
  BY <1>4, <1>6 DEF d, new, v

(* What the server sends comes behind.                                     *)
LEMMA AheadGrows ==
  ASSUME NEW b \in Seq(CellSet), NEW q \in Nat, NEW w \in Seq(CellSet), NEW x \in Seq(CellSet),
         Far(b, q, w) \in Nat
  PROVE  /\ Far(b, q, w \o x) = Far(b, q, w) + Len(x)
         /\ \A n \in 1 .. Far(b, q, w) : Ahead(b, q, w \o x)[n] = Ahead(b, q, w)[n]
         /\ \A n \in 1 .. Len(x) : Ahead(b, q, w \o x)[Far(b, q, w) + n] = x[n]
<1> DEFINE v == w \o x
           L == Far(b, q, w)
<1>0. Len(b) \in Nat /\ Len(w) \in Nat /\ Len(x) \in Nat /\ L = (Len(b) - q) + Len(w) /\ L \in Nat
  BY DEF Far
<1>1. /\ Len(v) = Len(w) + Len(x) /\ (\A n \in 1 .. Len(w) : v[n] = w[n])
      /\ \A n \in 1 .. Len(x) : v[Len(w) + n] = x[n]
  BY Joined
<1> HIDE DEF v
<1>2. Far(b, q, v) = L + Len(x)
  BY <1>0, <1>1 DEF Far
<1>3. /\ \A n \in 1 .. L : n \in 1 .. L + Len(x)
      /\ \A n \in 1 .. Len(x) : L + n \in 1 .. L + Len(x)
  BY <1>0
<1> HIDE DEF L
<1>4. ASSUME NEW n \in 1 .. L
      PROVE  Ahead(b, q, v)[n] = Ahead(b, q, w)[n]
  <2>1. /\ Ahead(b, q, v)[n] = IF q + n <= Len(b) THEN b[q + n] ELSE v[(q + n) - Len(b)]
        /\ Ahead(b, q, w)[n] = IF q + n <= Len(b) THEN b[q + n] ELSE w[(q + n) - Len(b)]
    BY <1>2, <1>3 DEF Ahead, L
  <2>2. ~(q + n <= Len(b)) => (q + n) - Len(b) \in 1 .. Len(w)
    BY <1>0
  <2>3. QED
    BY <1>1, <2>1, <2>2
<1>5. ASSUME NEW n \in 1 .. Len(x)
      PROVE  Ahead(b, q, v)[L + n] = x[n]
  <2>1. Ahead(b, q, v)[L + n] = IF q + (L + n) <= Len(b) THEN b[q + (L + n)] ELSE v[(q + (L + n)) - Len(b)]
    BY <1>2, <1>3 DEF Ahead
  <2>2. ~(q + (L + n) <= Len(b)) /\ (q + (L + n)) - Len(b) = Len(w) + n
    BY <1>0
  <2>3. QED
    BY <1>1, <2>1, <2>2
<1>6. QED
  BY <1>2, <1>4, <1>5 DEF v, L

(* The frame that is next, as it was sent.                                 *)
Pristine(s, u, c, off) == \A n \in 1 .. off[c + 1] : Fresh(s[c + 1], u[n])

(* The cells v are the L cells u with those of the frame f behind them, or *)
(* without the F first of them, or with those overwritten.                 *)
Longer(v, u, L, f, i) ==
  /\ \A n \in 1 .. L : v[n] = u[n]
  /\ \A n \in 1 .. FrameLen(f) : v[L + n].frame = i /\ Fresh(f, v[L + n])

Shorter(v, u, L, F) == \A n \in 1 .. L - F : v[n] = u[F + n]

Redone(v, u, L, F) == \A n \in 1 .. L : v[n].frame = u[n].frame /\ (n > F => v[n] = u[n])

(* One frame more at the end.                                              *)
LEMMA LaidGrows ==
  ASSUME NEW s \in Seq(Frames), NEW f \in Frames, NEW u, NEW L, NEW c, NEW off, Laid(s, u, L, c, off),
         NEW v, Longer(v, u, L, f, Len(s) + 1)
  PROVE  \E new : /\ Laid(Append(s, f), v, L + FrameLen(f), c, new)
                  /\ c = Len(s) \/ Pristine(s, u, c, off) => Pristine(Append(s, f), v, c, new)
<1> DEFINE N == Len(s)
           F == FrameLen(f)
           r == Append(s, f)
           new == [off EXCEPT ![N + 1] = L + F]
<1>1. /\ N \in Nat /\ r \in Seq(Frames) /\ Len(r) = N + 1 /\ r[N + 1] = f
      /\ \A n \in 1 .. N : r[n] = s[n]
  BY AppendProperties
<1>2. /\ c \in 0 .. N /\ off \in [Nat -> Nat] /\ off[c] = 0 /\ off[N] = L /\ L \in Nat
      /\ Offsets(s, L, c, off)
  BY <1>1 DEF Laid, Offsets
<1>3. F \in Nat
  BY FrameLenIs
<1> HIDE DEF N, F
<1>4. /\ new \in [Nat -> Nat] /\ new[N + 1] = L + F
      /\ \A i \in 0 .. N : new[i] = off[i]
  <2>1. L + F \in Nat /\ N + 1 \in Nat
    BY <1>1, <1>2, <1>3
  <2> DEFINE x == L + F
  <2> HIDE DEF x
  <2>2. \A i \in 0 .. N : i \in Nat /\ i # N + 1
    BY <1>1
  <2>3. QED
    BY <1>2, <2>1, <2>2 DEF x
<1> HIDE DEF r, new
<1>5. \A i \in c + 1 .. Len(r) : i \in c + 1 .. N \/ i = N + 1
  BY <1>1, <1>2
<1>6. \A i \in c + 1 .. N : i \in 1 .. N /\ i \in 0 .. N /\ i - 1 \in 0 .. N
  BY <1>1, <1>2
<1>7. Offsets(r, L + F, c, new)
  <2>1. \A i \in c + 1 .. N : new[i] = new[i - 1] + FrameLen(r[i])
    BY <1>1, <1>2, <1>4, <1>6 DEF Offsets, N
  <2>2. new[N + 1] = new[(N + 1) - 1] + FrameLen(r[N + 1])
    <3>1. (N + 1) - 1 = N /\ new[N] = L /\ FrameLen(r[N + 1]) = F
      BY <1>1, <1>2, <1>4 DEF F
    <3>2. QED
      BY <1>4, <3>1
  <2>3. \A i \in c + 1 .. Len(r) : new[i] = new[i - 1] + FrameLen(r[i])
    BY <1>5, <2>1, <2>2
  <2>4. new[c] = 0 /\ new[Len(r)] = L + F /\ c \in 0 .. Len(r)
    BY <1>1, <1>2, <1>4
  <2>5. QED
    BY <1>4, <2>3, <2>4 DEF Offsets
<1>8. ASSUME NEW i \in c + 1 .. N, NEW n \in off[i - 1] + 1 .. off[i]
      PROVE  n \in 1 .. L /\ v[n] = u[n]
  <2>1. off[i] <= off[N]
    <3>1. i \in c .. N /\ N \in i .. N
      BY <1>1, <1>2
    <3>2. QED
      BY <1>2, <3>1, OffsetsGrow DEF N
  <2>2. off[i] \in Nat /\ off[i - 1] \in Nat
    BY <1>2, <1>6
  <2>3. n \in 1 .. L
    BY <1>2, <2>1, <2>2
  <2>4. QED
    BY <2>3 DEF Longer
<1>9. Laid(r, v, L + F, c, new)
  <2>1. ASSUME NEW i \in c + 1 .. N, NEW n \in new[i - 1] + 1 .. new[i]
        PROVE  v[n].frame = i /\ (i # c + 1 => Fresh(r[i], v[n]))
    <3>1. n \in off[i - 1] + 1 .. off[i]
      BY <1>4, <1>6
    <3>2. v[n] = u[n]
      BY <1>8, <3>1
    <3>3. u[n].frame = i /\ (i # c + 1 => Fresh(s[i], u[n]))
      BY <3>1 DEF Laid, N
    <3>4. r[i] = s[i]
      BY <1>1, <1>6
    <3>5. QED
      BY <3>2, <3>3, <3>4
  <2>2. ASSUME NEW n \in new[N] + 1 .. new[N + 1]
        PROVE  v[n].frame = N + 1 /\ Fresh(r[N + 1], v[n])
    <3>1. new[N] = L /\ new[N + 1] = L + F
      BY <1>1, <1>2, <1>4
    <3>2. n - L \in 1 .. F /\ n = L + (n - L)
      BY <1>2, <1>3, <3>1
    <3>3. v[L + (n - L)].frame = N + 1 /\ Fresh(f, v[L + (n - L)])
      BY <3>2 DEF Longer, N, F
    <3>4. QED
      BY <1>1, <3>2, <3>3
  <2>3. \A i \in c + 1 .. Len(r) : \A n \in new[i - 1] + 1 .. new[i] :
          v[n].frame = i /\ (i # c + 1 => Fresh(r[i], v[n]))
    <3> SUFFICES ASSUME NEW i \in c + 1 .. Len(r), NEW n \in new[i - 1] + 1 .. new[i]
                 PROVE  v[n].frame = i /\ (i # c + 1 => Fresh(r[i], v[n]))
      OBVIOUS
    <3>1. CASE i \in c + 1 .. N
      BY <2>1, <3>1
    <3>2. CASE i = N + 1
      <4>1. i - 1 = N
        BY <1>1, <3>2
      <4>2. QED
        BY <2>2, <3>2, <4>1
    <3>3. QED
      BY <1>5, <3>1, <3>2
  <2>4. QED
    BY <1>7, <2>3 DEF Laid
<1>10. ASSUME c = N PROVE Pristine(r, v, c, new)
  <2>1. ASSUME NEW n \in 1 .. new[c + 1] PROVE Fresh(r[c + 1], v[n])
    <3>1. L = 0 /\ new[c + 1] = F /\ r[c + 1] = f
      <4>1. L = 0 /\ new[c + 1] = L + F /\ r[c + 1] = f
        BY <1>1, <1>2, <1>4, <1>10
      <4>2. QED
        BY <1>3, <4>1
    <3>2. n \in 1 .. F /\ L + n = n
      BY <1>3, <3>1
    <3>3. Fresh(f, v[L + n])
      BY <3>2 DEF Longer, F
    <3>4. QED
      BY <3>1, <3>2, <3>3
  <2>2. QED
    BY <2>1 DEF Pristine
<1>11. ASSUME c # N, Pristine(s, u, c, off) PROVE Pristine(r, v, c, new)
  <2>1. c + 1 \in c + 1 .. N /\ (c + 1) - 1 = c
    BY <1>1, <1>2, <1>11
  <2>2. new[c + 1] = off[c + 1] /\ r[c + 1] = s[c + 1]
    BY <1>1, <1>4, <1>6, <2>1
  <2>3. \A n \in 1 .. off[c + 1] : v[n] = u[n]
    <3>1. off[c] + 1 = 1
      BY <1>2
    <3>2. QED
      BY <1>8, <2>1, <3>1
  <2>4. QED
    BY <1>11, <2>2, <2>3 DEF Pristine
<1>12. QED
  BY <1>9, <1>10, <1>11 DEF r, N, F

(* The next frame is consumed.                                             *)
LEMMA LaidNext ==
  ASSUME NEW s \in Seq(Frames), NEW u, NEW L, NEW c, NEW off, Laid(s, u, L, c, off), c < Len(s),
         NEW v, Shorter(v, u, L, FrameLen(s[c + 1]))
  PROVE  \E new : /\ Laid(s, v, L - FrameLen(s[c + 1]), c + 1, new)
                  /\ c + 1 < Len(s) => Pristine(s, v, c + 1, new)
<1> DEFINE N == Len(s)
           F == FrameLen(s[c + 1])
           new == [i \in Nat |-> IF i \in c + 1 .. N THEN off[i] - F ELSE 0]
<1>0. N \in Nat
  OBVIOUS
<1>1. /\ N \in Nat /\ c \in 0 .. N /\ off \in [Nat -> Nat] /\ off[N] = L /\ L \in Nat
      /\ Offsets(s, L, c, off)
  <2>1. Offsets(s, L, c, off)
    BY DEF Laid
  <2>2. c \in 0 .. N /\ off \in [Nat -> Nat] /\ off[N] = L
    BY <2>1 DEF Offsets
  <2>3. QED
    BY <1>0, <2>1, <2>2
<1>2. off[c + 1] = F /\ F \in 1 .. L /\ F \in Nat
  BY FrontIs
<1>n. c < N
  OBVIOUS
<1> HIDE DEF F, N
<1>3. \A i \in c + 1 .. N : off[i] \in Nat /\ F <= off[i] /\ off[i] <= L /\ i \in Nat
  <2>1. c + 1 \in c .. N /\ N \in c .. N
    BY <1>1, <1>n
  <2>2. \A i \in c + 1 .. N : i \in c .. N /\ i \in c + 1 .. N /\ N \in i .. N /\ i \in Nat
    BY <1>1
  <2>3. \A i \in c + 1 .. N : off[c + 1] <= off[i] /\ off[i] <= off[N]
    BY <2>1, <2>2, <1>1, OffsetsGrow DEF N
  <2>4. QED
    BY <1>1, <1>2, <2>2, <2>3
<1>4. new \in [Nat -> Nat] /\ \A i \in c + 1 .. N : new[i] = off[i] - F
  <2>1. \A i \in Nat : (IF i \in c + 1 .. N THEN off[i] - F ELSE 0) \in Nat
    BY <1>2, <1>3
  <2>2. QED
    BY <1>3, <2>1
<1> HIDE DEF new
<1>5. \A i \in (c + 1) + 1 .. N : i \in c + 1 .. N /\ i - 1 \in c + 1 .. N /\ i # c + 1
  BY <1>1
<1>6. Offsets(s, L - F, c + 1, new)
  <2>1. ASSUME NEW i \in (c + 1) + 1 .. N PROVE new[i] = new[i - 1] + FrameLen(s[i])
    <3>1. new[i] = off[i] - F /\ new[i - 1] = off[i - 1] - F
      BY <1>4, <1>5
    <3>2. off[i] = off[i - 1] + FrameLen(s[i])
      BY <1>1, <1>5 DEF Offsets, N
    <3>3. s[i] \in Frames
      BY <1>1 DEF N
    <3>4. FrameLen(s[i]) \in Nat /\ off[i - 1] \in Nat
      BY <1>3, <1>5, <3>3, FrameLenIs
    <3>5. QED
      BY <1>2, <3>1, <3>2, <3>4
  <2>2. new[c + 1] = 0 /\ new[N] = L - F /\ c + 1 \in 0 .. N
    <3>1. c + 1 \in c + 1 .. N /\ N \in c + 1 .. N /\ c + 1 \in 0 .. N
      BY <1>1, <1>n
    <3>2. QED
      BY <1>1, <1>2, <1>4, <3>1
  <2>3. QED
    BY <1>4, <2>1, <2>2 DEF Offsets, N
<1>7. ASSUME NEW i \in (c + 1) + 1 .. N, NEW n \in new[i - 1] + 1 .. new[i]
      PROVE  v[n].frame = i /\ Fresh(s[i], v[n])
  <2>1. new[i] = off[i] - F /\ new[i - 1] = off[i - 1] - F
    BY <1>4, <1>5
  <2>2. /\ off[i] \in Nat /\ off[i - 1] \in Nat /\ F <= off[i - 1] /\ off[i] <= L
    BY <1>3, <1>5
  <2>3. F + n \in off[i - 1] + 1 .. off[i] /\ n \in 1 .. L - F
    <3> DEFINE x == off[i]
               y == off[i - 1]
    <3>1. x \in Nat /\ y \in Nat /\ F <= y /\ x <= L /\ n \in (y - F) + 1 .. x - F /\ F \in Nat /\ L \in Nat
      BY <1>1, <1>2, <2>1, <2>2
    <3> HIDE DEF x, y
    <3>2. F + n \in y + 1 .. x /\ n \in 1 .. L - F
      BY <3>1
    <3>3. QED
      BY <3>2 DEF x, y
  <2>4. v[n] = u[F + n]
    BY <2>3 DEF F, Shorter
  <2>5. u[F + n].frame = i /\ Fresh(s[i], u[F + n])
    BY <1>5, <2>3 DEF Laid, N
  <2>6. QED
    BY <2>4, <2>5
<1>8. Laid(s, v, L - F, c + 1, new)
  BY <1>6, <1>7 DEF Laid, N
<1>9. ASSUME c + 1 < N PROVE Pristine(s, v, c + 1, new)
  <2>1. (c + 1) + 1 \in (c + 1) + 1 .. N /\ ((c + 1) + 1) - 1 = c + 1 /\ c + 1 \in c + 1 .. N
    BY <1>1, <1>9
  <2>2. new[c + 1] + 1 = 1
    BY <1>6 DEF Offsets
  <2>3. \A n \in 1 .. new[(c + 1) + 1] : Fresh(s[(c + 1) + 1], v[n])
    BY <1>7, <2>1, <2>2
  <2>4. QED
    BY <2>3 DEF Pristine
<1>10. QED
  BY <1>8, <1>9 DEF F, N

(* The next frame is unmasked where it lies.                               *)
LEMMA LaidSame ==
  ASSUME NEW s \in Seq(Frames), NEW u, NEW L, NEW c, NEW off, Laid(s, u, L, c, off), c < Len(s),
         NEW v, Redone(v, u, L, FrameLen(s[c + 1]))
  PROVE  Laid(s, v, L, c, off)
<1> DEFINE N == Len(s)
           F == FrameLen(s[c + 1])
<1>0. N \in Nat
  OBVIOUS
<1>1. /\ N \in Nat /\ c \in 0 .. N /\ off \in [Nat -> Nat] /\ off[c] = 0 /\ off[N] = L /\ L \in Nat
      /\ Offsets(s, L, c, off)
  <2>1. Offsets(s, L, c, off)
    BY DEF Laid
  <2>2. c \in 0 .. N /\ off \in [Nat -> Nat] /\ off[c] = 0 /\ off[N] = L
    BY <2>1 DEF Offsets
  <2>3. QED
    BY <1>0, <2>1, <2>2
<1>2. off[c + 1] = F /\ F \in Nat
  BY FrontIs
<1>n. c < N
  OBVIOUS
<1> HIDE DEF F, N
<1>3. ASSUME NEW i \in c + 1 .. N, NEW n \in off[i - 1] + 1 .. off[i]
      PROVE  v[n].frame = i /\ (i # c + 1 => Fresh(s[i], v[n]))
  <2>1. off[i] <= off[N]
    <3>1. i \in c .. N /\ N \in i .. N
      BY <1>1
    <3>2. QED
      BY <1>1, <3>1, OffsetsGrow DEF N
  <2>2. off[i] \in Nat /\ off[i - 1] \in Nat
    BY <1>1
  <2>3. n \in 1 .. L
    BY SMTT(30), <1>1, <2>1, <2>2
  <2>4. u[n].frame = i /\ (i # c + 1 => Fresh(s[i], u[n]))
    BY DEF Laid, N
  <2>5. CASE i = c + 1
    BY <2>3, <2>4, <2>5 DEF Redone
  <2>6. CASE i # c + 1
    <3>1. c + 1 \in c .. N /\ i - 1 \in c + 1 .. N
      BY <1>1, <1>n, <2>6
    <3>2. off[c + 1] <= off[i - 1]
      BY <1>1, <3>1, OffsetsGrow DEF N
    <3>3. n > F
      BY <1>2, <2>2, <3>2
    <3>4. v[n] = u[n]
      BY <2>3, <3>3 DEF F, Redone
    <3>5. QED
      BY <2>4, <3>4
  <2>7. QED
    BY <2>5, <2>6
<1>4. QED
  BY <1>1, <1>3 DEF Laid, N

-----------------------------------------------------------------------------
(* What was sent, what lies ahead and what was returned agree              *)

(* Ahead of place q lie the frames behind the c-th, the next one as it was *)
(* sent unless it is excused.                                              *)
Lies(q, c) ==
  \E off :
    /\ Laid(sent, Ahead(buf, q, wire), Far(buf, q, wire), c, off)
    /\ c < Len(sent) => Excused(c) \/ Pristine(sent, Ahead(buf, q, wire), c, off)

Streaming == life = "open" => \E c \in Nat : Lies(pos, c) /\ Told(c) /\ Ponged(c)

Starting == life = "new" => delivered = <<>> /\ (pc = "idle" => sent = <<>> /\ wire = <<>>)

(* The upgrade response is two cells.                                      *)
Unheard == sent = <<>> /\ buf = <<>> /\ wire = <<>> /\ link # "up"

Arriving == pc = "upgrade" /\ response = "switches" => Unheard \/ Lies(2, 0)

Ended == life = "freed" => Handed(Len(sent))

Sound == Streaming /\ Starting /\ Arriving /\ Ended

LEMMA LiesIn ==
  ASSUME NEW q, NEW c, Lies(q, c)
  PROVE  c \in 0 .. Len(sent)
  BY DEF Lies, Laid, Offsets

LEMMA HandedMore ==
  ASSUME NEW c \in Nat, NEW e \in Nat, c <= e, Handed(c)
  PROVE  Handed(e)
<1>1. \A k \in 1 .. Len(delivered) : LastFrame(delivered[k]) \in 1 .. e
  <2>1. \A k \in 1 .. Len(delivered) : LastFrame(delivered[k]) \in 1 .. c
    BY DEF Handed
  <2>2. QED
    BY <2>1
<1>2. QED
  BY <1>1 DEF Handed

LEMMA NoneHanded ==
  ASSUME NEW c, delivered = <<>>
  PROVE  Handed(c)
<1>1. delivered \in Seq(Seq(Payloads)) /\ Len(delivered) = 0
  OBVIOUS
<1>2. \A k \in 1 .. Len(delivered) : FALSE
  BY <1>1
<1>3. \A k \in 1 .. Len(delivered) - 1 : FALSE
  BY <1>1
<1>4. QED
  BY <1>1, <1>2, <1>3 DEF Handed

LEMMA NoneTold ==
  ASSUME delivered = <<>>, message = <<>>
  PROVE  Told(0)
<1>1. Handed(0)
  BY NoneHanded
<1>2. Gathered(0)
  BY DEF Gathered
<1>3. Lossless(0)
  BY DEF Lossless
<1>4. QED
  BY <1>1, <1>2, <1>3 DEF Told

LEMMA NonePonged ==
  ASSUME answers = <<>>
  PROVE  Ponged(0)
<1>1. \A n \in 1 .. Len(answers) : FALSE
  OBVIOUS
<1>2. QED
  BY <1>1 DEF Ponged

LEMMA PongedPast ==
  ASSUME NEW c \in Nat, Ponged(c), sent[c + 1].op # "ping", sent' = sent, answers \in Seq(Sends), answers' = answers
  PROVE  Ponged(c + 1)'
<1> DEFINE a == Answer("text", [frame |-> 0, clear |-> TRUE])
<1>1. a \in Sends /\ a.op # "pong"
  BY WebSocketAssumption DEF Answer, Sends, Payloads
<1> HIDE DEF a
<1>2. QED
  BY <1>1, PongedElse

-----------------------------------------------------------------------------
(* Its steps                                                               *)

(* The reader's steps that move no cell, and those of the program.         *)
LEMMA QuietSound ==
  ASSUME IInv, Sound, Quiet
  PROVE  Sound'
<1> DEFINE none == [frame |-> 0, clear |-> TRUE]
<1>1. UNCHANGED <<response, sent, wire, buf, pos, delivered>>
  BY DEF Quiet, PeerLeaves, UpgradeCutOff, CallRecv, CheckHead, SendText, Shutdown, StopReading,
         CloseSession, vars, environment, session, results
<1>2. /\ life' \in {life, "freed"} /\ (pc' = "upgrade" => pc = "upgrade" /\ (link' = "up" => link = "up"))
      /\ life = "new" /\ life' = "new" => pc' = pc
      /\ message' \in {message, <<>>}
      /\ shut \/ link = "reset" => shut' \/ link' = "reset"
  BY DEF Quiet, PeerLeaves, UpgradeCutOff, CallRecv, CheckHead, SendText, Shutdown, StopReading,
         CloseSession, SendWorks, SendFails, Throw, vars, environment, session, IInv, Phased, Typed, TypeOK
<1>3. \E a \in Sends : a.op # "pong" /\ answers' \in {answers, Append(answers, a)}
  <2>0. none \in Payloads
    BY WebSocketAssumption DEF Payloads
  <2> HIDE DEF none
  <2>1. /\ Answer("text", none) \in Sends /\ Answer("text", none).op # "pong"
        /\ Answer("close", none) \in Sends /\ Answer("close", none).op # "pong"
    BY <2>0 DEF Answer, Sends
  <2>2. CASE SendText
    BY <2>1, <2>2 DEF SendText, SendWorks, SendFails, none
  <2>3. CASE CloseSession
    BY <2>1, <2>3 DEF CloseSession, SendWorks, SendFails, none
  <2>4. CASE ~SendText /\ ~CloseSession
    <3>1. answers' = answers
      BY <2>4 DEF Quiet, PeerLeaves, UpgradeCutOff, CallRecv, CheckHead, Shutdown, StopReading,
                  vars, environment, session, results
    <3>2. QED
      BY <2>1, <3>1
  <2>5. QED
    BY <2>2, <2>3, <2>4
<1>4. ASSUME NEW c, Excused(c) PROVE Excused(c)'
  BY <1>1, <1>2, <1>4 DEF Excused
<1>5. ASSUME NEW c, Lies(2, c) PROVE Lies(2, c)'
  <2>1. PICK off :
          /\ Laid(sent, Ahead(buf, 2, wire), Far(buf, 2, wire), c, off)
          /\ c < Len(sent) => Excused(c) \/ Pristine(sent, Ahead(buf, 2, wire), c, off)
    BY <1>5 DEF Lies
  <2>2. Ahead(buf', 2, wire') = Ahead(buf, 2, wire) /\ Far(buf', 2, wire') = Far(buf, 2, wire)
    BY <1>1
  <2>3. QED
    BY <1>1, <1>4, <2>1, <2>2 DEF Lies
<1>6. ASSUME NEW c, Lies(pos, c) PROVE Lies(pos, c)'
  <2>1. PICK off :
          /\ Laid(sent, Ahead(buf, pos, wire), Far(buf, pos, wire), c, off)
          /\ c < Len(sent) => Excused(c) \/ Pristine(sent, Ahead(buf, pos, wire), c, off)
    BY <1>6 DEF Lies
  <2>2. Ahead(buf', pos', wire') = Ahead(buf, pos, wire) /\ Far(buf', pos', wire') = Far(buf, pos, wire)
    BY <1>1
  <2>3. QED
    BY <1>1, <1>4, <2>1, <2>2 DEF Lies
<1>7. Streaming'
  <2> SUFFICES ASSUME life' = "open" PROVE \E c \in Nat : (Lies(pos, c) /\ Told(c) /\ Ponged(c))'
    BY DEF Streaming
  <2>1. PICK c \in Nat : Lies(pos, c) /\ Told(c) /\ Ponged(c)
    BY <1>2 DEF Sound, Streaming
  <2>2. Told(c)'
    BY <1>1, <1>2, <2>1, ToldDrops
  <2>3. Ponged(c)'
    <3>1. answers \in Seq(Sends)
      BY DEF IInv, Typed
    <3>2. QED
      BY <1>1, <1>3, <2>1, <3>1, PongedElse
  <2>4. QED
    BY <1>6, <2>1, <2>2, <2>3
<1>8. Starting' /\ Arriving'
  BY <1>1, <1>2, <1>5 DEF Sound, Starting, Arriving, Unheard
<1>9. Ended'
  <2> SUFFICES ASSUME life' = "freed" PROVE Handed(Len(sent))'
    BY DEF Ended
  <2>1. Len(sent) \in Nat
    BY DEF IInv, Typed, TypeOK
  <2>2. Handed(Len(sent))
    <3>1. CASE life = "open"
      <4>1. PICK c \in Nat : Lies(pos, c) /\ Told(c)
        BY <3>1 DEF Sound, Streaming
      <4>2. c <= Len(sent)
        BY <4>1, <2>1, LiesIn
      <4>3. QED
        BY <2>1, <4>1, <4>2, HandedMore DEF Told
    <3>2. CASE life = "new"
      BY <3>2, NoneHanded DEF Sound, Starting
    <3>3. CASE life = "freed"
      BY <3>3 DEF Sound, Ended
    <3>4. QED
      BY <3>1, <3>2, <3>3 DEF IInv, Typed, TypeOK
  <2>3. QED
    BY <1>1, <2>2 DEF Handed, LastFrame
<1>10. QED
  BY <1>7, <1>8, <1>9 DEF Sound

LEMMA PongedSame ==
  ASSUME NEW c \in Nat, Ponged(c), sent' = sent, answers \in Seq(Sends), answers' = answers
  PROVE  Ponged(c)'
<1> DEFINE a == Answer("text", [frame |-> 0, clear |-> TRUE])
<1>1. a \in Sends /\ a.op # "pong"
  BY WebSocketAssumption DEF Answer, Sends, Payloads
<1> HIDE DEF a
<1>2. QED
  BY <1>1, PongedElse

LEMMA LiesGrows ==
  ASSUME IInv, NEW f \in Frames, SendFrame(f), NEW q \in Nat, NEW c, Lies(q, c)
  PROVE  \E off : /\ Laid(sent', Ahead(buf', q, wire'), Far(buf', q, wire'), c, off)
                  /\ c < Len(sent') => Excused(c)' \/ Pristine(sent', Ahead(buf', q, wire'), c, off)
<1> DEFINE i == Len(sent) + 1
           new == Cells(i, f)
           u == Ahead(buf, q, wire)
           L == Far(buf, q, wire)
           v == Ahead(buf, q, wire \o new)
<1>1. /\ sent' = Append(sent, f) /\ wire' = wire \o new /\ UNCHANGED <<buf, message, shut, link>>
      /\ sent \in Seq(Frames) /\ buf \in Seq(CellSet) /\ wire \in Seq(CellSet) /\ Len(sent) \in Nat /\ i \in Nat
  BY DEF SendFrame, session, results, IInv, Typed, TypeOK
<1>2. /\ new \in Seq(CellSet) /\ Len(new) = FrameLen(f) /\ FrameLen(f) \in Nat
      /\ \A n \in 1 .. Len(new) : new[n].frame = i /\ Fresh(f, new[n])
  <2>1. /\ new \in Seq(CellSet) /\ Len(new) = Length(f)
        /\ \A n \in DOMAIN new : new[n].frame = i /\ Fresh(f, new[n])
    BY <1>1, CellsShape
  <2> HIDE DEF new
  <2>2. DOMAIN new = 1 .. Len(new)
    BY <2>1
  <2>3. QED
    BY <2>1, <2>2, FrameLenIs
<1>3. PICK off : /\ Laid(sent, u, L, c, off)
                 /\ c < Len(sent) => Excused(c) \/ Pristine(sent, u, c, off)
  BY DEF Lies
<1>4. L \in Nat /\ c \in 0 .. Len(sent)
  BY <1>1, <1>3, FrontIs
<1> HIDE DEF new, i
<1>5. /\ Far(buf, q, wire \o new) = L + Len(new)
      /\ \A n \in 1 .. L : v[n] = u[n]
      /\ \A n \in 1 .. Len(new) : v[L + n] = new[n]
  <2>1. buf \in Seq(CellSet) /\ wire \in Seq(CellSet) /\ new \in Seq(CellSet) /\ Far(buf, q, wire) \in Nat
    BY <1>1, <1>2, <1>4
  <2>2. QED
    BY SMTT(30), <2>1, AheadGrows
<1> HIDE DEF u, v, L
<1>6. Longer(v, u, L, f, i)
  BY <1>2, <1>5 DEF Longer
<1>7. PICK n2 : /\ Laid(Append(sent, f), v, L + FrameLen(f), c, n2)
                /\ c = Len(sent) \/ Pristine(sent, u, c, off) => Pristine(Append(sent, f), v, c, n2)
  BY <1>1, <1>3, <1>6, LaidGrows DEF i
<1>8. c < Len(sent) => (Excused(c) => Excused(c)')
  <2> SUFFICES ASSUME c < Len(sent), Excused(c) PROVE Excused(c)'
    OBVIOUS
  <2>1. c + 1 \in 1 .. Len(sent)
    BY <1>1, <1>4
  <2>2. sent'[c + 1] = sent[c + 1]
    BY <1>1, <2>1, AppendProperties
  <2>3. QED
    BY <1>1, <2>2 DEF Excused
<1>9. /\ Laid(sent', Ahead(buf', q, wire'), Far(buf', q, wire'), c, n2)
      /\ c < Len(sent') => Excused(c)' \/ Pristine(sent', Ahead(buf', q, wire'), c, n2)
  <2>1. Ahead(buf', q, wire') = v /\ Far(buf', q, wire') = L + FrameLen(f)
    BY <1>1, <1>2, <1>5 DEF v
  <2>2. c < Len(sent) \/ c = Len(sent)
    BY <1>1, <1>4
  <2>3. QED
    BY <1>1, <1>3, <1>7, <1>8, <2>1, <2>2
<1>10. QED
  BY <1>9

LEMMA SendFrameSound ==
  ASSUME IInv, Sound, NEW f \in Frames, SendFrame(f)
  PROVE  Sound'
<1>1. /\ UNCHANGED <<response, link, buf, pos, closed, life, pc, message, shut, answers, delivered, outcome>>
      /\ link = "up" /\ (pc = "upgrade" \/ life = "open") /\ sent' = Append(sent, f)
  BY DEF SendFrame, session, results
<1>2. /\ sent \in Seq(Frames) /\ Len(sent) \in Nat /\ pos \in Nat /\ 2 \in Nat
  BY DEF IInv, Typed, TypeOK
<1>3. Grows(sent, sent')
  BY <1>1, <1>2, AppendProperties DEF Grows
<1>4. Streaming'
  <2> SUFFICES ASSUME life = "open" PROVE \E c \in Nat : (Lies(pos, c) /\ Told(c) /\ Ponged(c))'
    BY <1>1 DEF Streaming
  <2>1. PICK c \in Nat : Lies(pos, c) /\ Told(c) /\ Ponged(c)
    BY DEF Sound, Streaming
  <2>2. c \in 0 .. Len(sent)
    BY <2>1, LiesIn
  <2>3. Told(c)' /\ Ponged(c)'
    BY <1>1, <1>3, <2>1, <2>2, ToldGrows, PongedGrows
  <2>4. Lies(pos, c)'
    <3>1. \E off : /\ Laid(sent', Ahead(buf', pos, wire'), Far(buf', pos, wire'), c, off)
                   /\ c < Len(sent') => Excused(c)' \/ Pristine(sent', Ahead(buf', pos, wire'), c, off)
      BY <1>2, <2>1, LiesGrows
    <3>2. pos' = pos
      BY <1>1
    <3>3. QED
      BY <3>1, <3>2 DEF Lies
  <2>5. QED
    BY <2>3, <2>4
<1>5. Arriving'
  <2> SUFFICES ASSUME pc = "upgrade", response = "switches" PROVE Lies(2, 0)'
    BY <1>1 DEF Arriving
  <2>1. Lies(2, 0)
    BY <1>1 DEF Sound, Arriving, Unheard
  <2>2. \E off : /\ Laid(sent', Ahead(buf', 2, wire'), Far(buf', 2, wire'), 0, off)
                 /\ 0 < Len(sent') => Excused(0)' \/ Pristine(sent', Ahead(buf', 2, wire'), 0, off)
    BY <1>2, <2>1, LiesGrows
  <2>3. QED
    BY <2>2 DEF Lies
<1>6. Starting' /\ Ended'
  BY <1>1 DEF IInv, Phased, Sound, Starting, Ended
<1>7. QED
  BY <1>4, <1>5, <1>6 DEF Sound

LEMMA SendUpgradeSound ==
  ASSUME IInv, Sound, SendUpgrade
  PROVE  Sound'
<1>1. /\ UNCHANGED <<response, sent, buf, pos, closed, message, shut, answers, delivered, outcome>>
      /\ life = "new" /\ pc = "idle" /\ buf = <<>> /\ sent = <<>> /\ wire = <<>> /\ delivered = <<>>
      /\ response \in Responses
  BY DEF SendUpgrade, results, IInv, Phased, Sound, Starting, Typed, TypeOK
<1>2. \/ pc' = "upgrade" /\ life' = "new" /\ link' = link /\ wire' = IF link = "up" THEN UpgradeCells ELSE <<>>
      \/ pc' = "done" /\ life' = "freed" /\ link' = "reset" /\ wire' = wire
  BY <1>1 DEF SendUpgrade
<1>3. Starting' /\ Streaming'
  BY <1>1, <1>2 DEF Starting, Streaming
<1>4. Ended'
  <2>1. Handed(Len(sent))
    BY <1>1, NoneHanded
  <2>2. QED
    BY <1>1, <2>1 DEF Ended, Handed, LastFrame
<1>5. Arriving'
  <2> SUFFICES ASSUME pc' = "upgrade", response = "switches", link = "up"
               PROVE  Lies(2, 0)'
    BY <1>1, <1>2 DEF Arriving, Unheard
  <2>1. Len(wire') = 2 /\ Len(buf') = 0 /\ sent' = <<>> /\ Len(sent') = 0
    BY <1>1, <1>2, UpgradeCellsShape
  <2>2. Far(buf', 2, wire') = 0
    BY <2>1 DEF Far
  <2> DEFINE zero == [n \in Nat |-> 0]
  <2>3. Laid(sent', Ahead(buf', 2, wire'), 0, 0, zero)
    <3>1. zero \in [Nat -> Nat] /\ zero[0] = 0
      OBVIOUS
    <3> HIDE DEF zero
    <3>2. \A i \in 0 + 1 .. 0 : FALSE
      OBVIOUS
    <3>3. Offsets(sent', 0, 0, zero)
      BY <2>1, <3>1, <3>2 DEF Offsets
    <3>4. QED
      BY <2>1, <3>2, <3>3 DEF Laid
  <2> HIDE DEF zero
  <2>4. ~(0 < Len(sent'))
    BY <2>1
  <2>5. QED
    BY <2>2, <2>3, <2>4 DEF Lies
<1>6. QED
  BY <1>3, <1>4, <1>5 DEF Sound

LEMMA ReadUpgradeSound ==
  ASSUME IInv, Sound, NEW k \in 1 .. Chunk, ReadUpgrade(k), life' = "open" => pos' = 2 /\ response = "switches"
  PROVE  Sound'
<1>1. /\ UNCHANGED <<response, sent, link, closed, message, shut, answers, delivered, outcome>>
      /\ life = "new" /\ pc = "upgrade" /\ delivered = <<>> /\ answers = <<>> /\ message = <<>>
      /\ buf \in Seq(CellSet) /\ wire \in Seq(CellSet) /\ answers \in Seq(Sends)
  BY DEF ReadUpgrade, results, IInv, Phased, Sound, Starting, Typed
<1>2. k \in Nat /\ k >= 1 /\ k <= Len(wire) /\ k \in 0 .. Len(wire)
  BY <1>1, WebSocketAssumption DEF ReadUpgrade
<1>3. buf' = buf \o SubSeq(wire, 1, k) /\ wire' = SubSeq(wire, k + 1, Len(wire))
  BY DEF ReadUpgrade, Take
<1>4. Far(buf', 2, wire') = Far(buf, 2, wire) /\ Ahead(buf', 2, wire') = Ahead(buf, 2, wire)
  BY <1>1, <1>2, <1>3, AheadReads
<1>5. \/ life' = "open" /\ pc' = "idle"
      \/ life' = "freed" /\ pc' = "done"
      \/ life' = "new" /\ pc' = "upgrade"
  BY <1>1 DEF ReadUpgrade
<1>6. ASSUME response = "switches"
      PROVE  \E off : /\ Laid(sent', Ahead(buf', 2, wire'), Far(buf', 2, wire'), 0, off)
                      /\ 0 < Len(sent') => Excused(0)' \/ Pristine(sent', Ahead(buf', 2, wire'), 0, off)
  <2>1. Lies(2, 0)
    BY <1>1, <1>2, <1>6 DEF Sound, Arriving, Unheard
  <2>2. Excused(0) => Excused(0)'
    BY <1>1 DEF Excused
  <2>3. QED
    BY <1>1, <1>4, <2>1, <2>2 DEF Lies
<1>7. Arriving'
  BY <1>1, <1>6 DEF Arriving, Lies
<1>8. Starting'
  BY <1>1, <1>5 DEF Starting
<1>9. Ended'
  <2>1. Handed(Len(sent))
    BY <1>1, NoneHanded
  <2>2. QED
    BY <1>1, <2>1 DEF Ended, Handed, LastFrame
<1>10. Streaming'
  <2> SUFFICES ASSUME life' = "open" PROVE (Lies(pos, 0) /\ Told(0) /\ Ponged(0))'
    BY DEF Streaming
  <2>1. Told(0) /\ Ponged(0)
    BY <1>1, NoneTold, NonePonged
  <2>2. Told(0)' /\ Ponged(0)'
    BY <1>1, <2>1, ToldDrops, PongedSame
  <2>3. pos' = 2
    OBVIOUS
  <2>4. Lies(pos, 0)'
    BY <1>6, <2>3 DEF Lies
  <2>5. QED
    BY <2>2, <2>4
<1>11. QED
  BY <1>7, <1>8, <1>9, <1>10 DEF Sound

LEMMA FillSound ==
  ASSUME IInv, Sound, NEW k \in 1 .. Chunk, Fill(k)
  PROVE  Sound'
<1>1. /\ UNCHANGED <<response, sent, link, closed, life, pc, message, shut, answers, delivered, outcome>>
      /\ life = "open" /\ pc # "upgrade"
      /\ buf \in Seq(CellSet) /\ wire \in Seq(CellSet) /\ pos \in 0 .. Len(buf) /\ answers \in Seq(Sends)
  BY DEF Fill, InRecv, results, IInv, Phased, Typed, TypeOK
<1>2. k \in 0 .. Len(wire)
  BY <1>1, WebSocketAssumption DEF Fill
<1>3. /\ buf' = Compact(buf, pos).buf \o SubSeq(wire, 1, k) /\ pos' = Compact(buf, pos).pos
      /\ wire' = SubSeq(wire, k + 1, Len(wire))
  BY DEF Fill, Take
<1>4. Far(buf', pos', wire') = Far(buf, pos, wire) /\ Ahead(buf', pos', wire') = Ahead(buf, pos, wire)
  <2> DEFINE b == Compact(buf, pos).buf
             p == Compact(buf, pos).pos
  <2>1. Compacts(buf, pos, b, p)
    BY <1>1, Compacted
  <2> HIDE DEF b, p
  <2>2. b \in Seq(CellSet)
    BY <2>1 DEF Compacts
  <2>3. /\ Far(b \o SubSeq(wire, 1, k), p, SubSeq(wire, k + 1, Len(wire))) = Far(buf, pos, wire)
        /\ Ahead(b \o SubSeq(wire, 1, k), p, SubSeq(wire, k + 1, Len(wire))) = Ahead(buf, pos, wire)
    BY <1>1, <1>2, <2>1, <2>2, AheadMoves
  <2>4. QED
    BY <1>3, <2>3 DEF b, p
<1>5. PICK c \in Nat : Lies(pos, c) /\ Told(c) /\ Ponged(c)
  BY <1>1 DEF Sound, Streaming
<1>6. Told(c)' /\ Ponged(c)'
  BY <1>1, <1>5, ToldDrops, PongedSame
<1>7. Lies(pos, c)'
  <2>1. Excused(c) => Excused(c)'
    BY <1>1 DEF Excused
  <2>2. QED
    BY <1>1, <1>4, <1>5, <2>1 DEF Lies
<1>8. QED
  BY <1>1, <1>5, <1>6, <1>7 DEF Sound, Streaming, Starting, Arriving, Ended

LEMMA CutOffSound ==
  ASSUME IInv, Sound, CutOff
  PROVE  Sound'
<1>1. /\ UNCHANGED <<response, sent, wire, link, closed, life, shut, answers, delivered>>
      /\ life = "open" /\ pc' = "idle" /\ message' = <<>> /\ wire = <<>>
      /\ buf \in Seq(CellSet) /\ wire \in Seq(CellSet) /\ pos \in 0 .. Len(buf) /\ answers \in Seq(Sends)
      /\ buf' = Compact(buf, pos).buf /\ pos' = Compact(buf, pos).pos
  BY DEF CutOff, Throw, InRecv, environment, IInv, Phased, Typed, TypeOK
<1>4. Far(buf', pos', wire') = Far(buf, pos, wire) /\ Ahead(buf', pos', wire') = Ahead(buf, pos, wire)
  <2> DEFINE b == Compact(buf, pos).buf
             p == Compact(buf, pos).pos
  <2>1. Compacts(buf, pos, b, p)
    BY <1>1, Compacted
  <2> HIDE DEF b, p
  <2>2. b \in Seq(CellSet)
    BY <2>1 DEF Compacts
  <2>k. PICK k \in 0 .. Len(wire) : k = 0
    BY <1>1
  <2>3. /\ SubSeq(wire, 1, k) = <<>> /\ SubSeq(wire, k + 1, Len(wire)) = <<>>
        /\ b \o <<>> = b
    BY <1>1, <2>k, <2>2, ConcatEmptySeq
  <2>4. /\ Far(b \o SubSeq(wire, 1, k), p, SubSeq(wire, k + 1, Len(wire))) = Far(buf, pos, wire)
        /\ Ahead(b \o SubSeq(wire, 1, k), p, SubSeq(wire, k + 1, Len(wire))) = Ahead(buf, pos, wire)
    <3>1. wire \in Seq(CellSet) /\ buf \in Seq(CellSet) /\ pos \in 0 .. Len(buf)
      BY <1>1
    <3>2. k \in 0 .. Len(wire)
      OBVIOUS
    <3>3. QED
      BY <3>1, <3>2, <2>1, <2>2, AheadMoves
  <2>5. Far(b, p, wire) = Far(buf, pos, wire) /\ Ahead(b, p, wire) = Ahead(buf, pos, wire)
    BY <1>1, <2>3, <2>4
  <2>6. QED
    BY <1>1, <2>5 DEF b, p
<1>5. PICK c \in Nat : Lies(pos, c) /\ Told(c) /\ Ponged(c)
  BY <1>1 DEF Sound, Streaming
<1>6. Told(c)' /\ Ponged(c)'
  BY <1>1, <1>5, ToldDrops, PongedSame
<1>7. Lies(pos, c)'
  <2>1. Excused(c) => Excused(c)'
    BY <1>1 DEF Excused
  <2>2. QED
    BY <1>1, <1>4, <1>5, <2>1 DEF Lies
<1>8. QED
  BY <1>1, <1>5, <1>6, <1>7 DEF Sound, Streaming, Starting, Arriving, Ended

LEMMA AheadSkips ==
  ASSUME NEW b \in Seq(CellSet), NEW q \in 0 .. Len(b), NEW w \in Seq(CellSet), NEW F \in 0 .. Len(b) - q
  PROVE  /\ Far(b, q + F, w) = Far(b, q, w) - F
         /\ Shorter(Ahead(b, q + F, w), Ahead(b, q, w), Far(b, q, w), F)
<1> DEFINE L == Far(b, q, w)
           l == Len(b)
           v == Ahead(b, q + F, w)
           u == Ahead(b, q, w)
<1>1. l \in Nat /\ Len(w) \in Nat /\ F \in Nat /\ q \in Nat /\ q + F <= l
  OBVIOUS
<1>2. L = (l - q) + Len(w) /\ Far(b, q + F, w) = (l - (q + F)) + Len(w)
  BY DEF Far
<1> HIDE DEF l, L
<1>3. Far(b, q + F, w) = L - F /\ L \in Nat /\ F <= L
  BY <1>1, <1>2
<1>4. ASSUME NEW n \in 1 .. L - F PROVE v[n] = u[F + n]
  <2>1. n \in 1 .. Far(b, q + F, w) /\ F + n \in 1 .. L /\ (q + F) + n = q + (F + n)
    BY <1>1, <1>3
  <2>2. v[n] = IF (q + F) + n <= l THEN b[(q + F) + n] ELSE w[((q + F) + n) - l]
    BY <2>1 DEF Ahead, l
  <2>3. u[F + n] = IF q + (F + n) <= l THEN b[q + (F + n)] ELSE w[(q + (F + n)) - l]
    BY <2>1 DEF Ahead, l, L
  <2>4. QED
    BY <2>1, <2>2, <2>3
<1>5. Shorter(v, u, L, F)
  BY <1>4 DEF Shorter
<1>6. QED
  BY <1>3, <1>5 DEF L

(* Two buffers that differ at most in what is at most F ahead.             *)
Rewritten(d, b, q, F) ==
  /\ d \in Seq(CellSet) /\ Len(d) = Len(b)
  /\ \A n \in 1 .. Len(b) : d[n].frame = b[n].frame /\ (n > q + F => d[n] = b[n])

LEMMA AheadRedone ==
  ASSUME NEW b \in Seq(CellSet), NEW q \in 0 .. Len(b), NEW w \in Seq(CellSet), NEW F \in 0 .. Len(b) - q,
         NEW d, Rewritten(d, b, q, F)
  PROVE  /\ Far(d, q, w) = Far(b, q, w)
         /\ Redone(Ahead(d, q, w), Ahead(b, q, w), Far(b, q, w), F)
<1> DEFINE L == Far(b, q, w)
           l == Len(b)
           v == Ahead(d, q, w)
           u == Ahead(b, q, w)
<1>1. l \in Nat /\ F \in Nat /\ q \in Nat /\ q + F <= l /\ Len(d) = l
  BY DEF Rewritten
<1>2. Far(d, q, w) = L
  BY <1>1 DEF Far
<1>h. \A n \in 1 .. l : d[n].frame = b[n].frame /\ (n > q + F => d[n] = b[n])
  BY DEF Rewritten
<1>3. ASSUME NEW n \in 1 .. L PROVE v[n].frame = u[n].frame /\ (n > F => v[n] = u[n])
  <2>1. v[n] = IF q + n <= l THEN d[q + n] ELSE w[(q + n) - l]
    BY <1>1, <1>2 DEF Ahead
  <2>2. u[n] = IF q + n <= l THEN b[q + n] ELSE w[(q + n) - l]
    BY DEF Ahead
  <2>n. n \in Nat /\ n >= 1
    BY DEF Far
  <2> HIDE DEF v, u, l, L
  <2>3. CASE q + n <= l
    <3>1. q + n \in 1 .. l /\ (n > F => q + n > q + F)
      BY <1>1, <2>n, <2>3
    <3>2. d[q + n].frame = b[q + n].frame /\ (n > F => d[q + n] = b[q + n])
      BY <1>h, <3>1
    <3>3. QED
      BY <2>1, <2>2, <2>3, <3>2
  <2>4. CASE ~(q + n <= l)
    BY <2>1, <2>2, <2>4
  <2>5. QED
    BY <2>3, <2>4
<1> HIDE DEF v, u, L
<1>4. Redone(v, u, L, F)
  BY <1>3 DEF Redone
<1>5. QED
  BY <1>2, <1>4 DEF v, u, L

(* The frame under the parse position is the next one.                     *)
LEMMA NextIs ==
  ASSUME Typed, NEW c, NEW off, Laid(sent, Ahead(buf, pos, wire), Far(buf, pos, wire), c, off), Unread >= 1
  PROVE  /\ c \in Nat /\ c < Len(sent) /\ Number = c + 1 /\ Current = sent[c + 1]
         /\ off[c + 1] = FrameLen(Current)
<1> DEFINE L == Far(buf, pos, wire)
           u == Ahead(buf, pos, wire)
<1>1. /\ sent \in Seq(Frames) /\ Len(sent) \in Nat /\ buf \in Seq(CellSet) /\ wire \in Seq(CellSet)
      /\ pos \in 0 .. Len(buf) /\ Len(buf) \in Nat /\ Len(wire) \in Nat
  BY DEF Typed, TypeOK
<1>2. L >= 1 /\ pos + 1 <= Len(buf) /\ 1 \in 1 .. L
  BY <1>1 DEF Far, Unread
<1>3. u[1] = buf[pos + 1]
  BY <1>2 DEF Ahead
<1> HIDE DEF L, u
<1>4. /\ L \in Nat /\ c \in 0 .. Len(sent) /\ (L = 0 <=> c = Len(sent))
      /\ c < Len(sent) => /\ off[c + 1] = FrameLen(sent[c + 1]) /\ off[c + 1] \in 1 .. L
                          /\ \A n \in 1 .. off[c + 1] : u[n].frame = c + 1
  <2>1. Laid(sent, u, L, c, off)
    BY DEF u, L
  <2>2. QED
    BY <1>1, <2>1, FrontIs
<1>5. c < Len(sent) /\ c \in Nat
  BY <1>1, <1>2, <1>4
<1>6. 1 \in 1 .. off[c + 1]
  BY <1>4, <1>5
<1>7. u[1].frame = c + 1
  BY <1>4, <1>5, <1>6
<1>8. Number = c + 1
  BY <1>3, <1>7 DEF Number
<1>9. QED
  BY <1>4, <1>5, <1>8 DEF Current

(* Unmasking touches the frame alone, and leaves a payload that was as it  *)
(* was sent in the clear.                                                  *)
LEMMA UnmaskedFrame ==
  ASSUME Typed, Current \in Frames, FrameLen(Current) \in 1 .. Unread
  PROVE  /\ Rewritten(Unmask(buf), buf, pos, FrameLen(Current))
         /\ ~Current.masked => Unmask(buf) = buf
         /\ (\A n \in pos + 1 .. pos + FrameLen(Current) : Fresh(Current, buf[n])) => Payload.clear = TRUE
<1> DEFINE F == FrameLen(Current)
           b == Unmask(buf)
           bare(n) == IF n \in pos + 1 .. pos + F /\ buf[n].part = "data"
                      THEN [buf[n] EXCEPT !.clear = ~@] ELSE buf[n]
<1>1. /\ buf \in Seq(CellSet) /\ DOMAIN buf = 1 .. Len(buf) /\ Len(buf) \in Nat /\ pos \in 0 .. Len(buf)
      /\ F \in Nat /\ pos + F <= Len(buf) /\ Current.masked \in BOOLEAN
  BY FrameType DEF Typed, TypeOK, Unread
<1>2. /\ b \in Seq(CellSet) /\ Len(b) = Len(buf)
      /\ \A n \in 1 .. Len(buf) : b[n].frame = buf[n].frame
  BY Unmasked
<1>3. ~Current.masked => b = buf
  BY DEF Unmask
<1>4. Current.masked => \A n \in 1 .. Len(buf) : b[n] = bare(n)
  <2>1. Current.masked => b = [n \in DOMAIN buf |-> bare(n)]
    BY DEF Unmask
  <2> HIDE DEF bare, b
  <2>2. QED
    BY <1>1, <2>1
<1> HIDE DEF F, b
<1>5. ASSUME NEW n \in 1 .. Len(buf), n > pos + F PROVE b[n] = buf[n]
  <2>1. ~(n \in pos + 1 .. pos + F)
    BY <1>1, <1>5
  <2>2. QED
    BY <1>3, <1>4, <2>1
<1>6. Rewritten(b, buf, pos, F)
  BY <1>2, <1>5 DEF Rewritten
<1>7. ASSUME \A n \in pos + 1 .. pos + F : Fresh(Current, buf[n])
      PROVE  Payload.clear = TRUE
  <2>1. ASSUME NEW n \in pos + 1 .. pos + F PROVE b[n].clear = TRUE
    <3>1. n \in 1 .. Len(buf) /\ buf[n] \in CellSet
      BY <1>1
    <3>2. Fresh(Current, buf[n])
      BY <1>7
    <3>3. CASE Current.masked /\ buf[n].part = "data"
      <4>1. b[n] = [buf[n] EXCEPT !.clear = ~@] /\ buf[n].clear = FALSE
        BY <1>4, <3>1, <3>2, <3>3 DEF Fresh
      <4>2. QED
        BY <3>1, <4>1 DEF CellSet
    <3>4. CASE ~(Current.masked /\ buf[n].part = "data")
      <4>1. b[n] = buf[n]
        BY <1>3, <1>4, <3>1, <3>4
      <4>2. buf[n].clear = TRUE
        BY <3>2, <3>4 DEF Fresh
      <4>3. QED
        BY <4>1, <4>2
    <3>5. QED
      BY <3>3, <3>4
  <2>2. Payload.clear = (\A n \in pos + 1 .. pos + F : b[n].clear)
    BY DEF Payload, Fragment, F, b
  <2>3. QED
    BY <2>1, <2>2
<1>8. QED
  BY <1>3, <1>6, <1>7 DEF F, b

(* What recv() has told about the frames when it is about to act on the    *)
(* c + 1-th.                                                               *)
Acting(c) ==
  /\ Typed /\ sent' = sent /\ c \in Nat /\ c + 1 \in 1 .. Len(sent) /\ Current = sent[c + 1] /\ Current \in Frames
  /\ ~Flawed(Current) /\ Payload \in Payloads /\ Payload.frame = c + 1
  /\ ~Excused(c) => Payload.clear = TRUE
  /\ Told(c) /\ Ponged(c) /\ UNCHANGED shut

(* It goes on to the next frame, or leaves this one where it is.           *)
Passed(c) == pos' = pos + FrameLen(Current) /\ Told(c + 1)' /\ Ponged(c + 1)'
Left(c)   == /\ pos' = pos /\ Told(c)' /\ Ponged(c)'
             /\ Excused(c)' \/ (~Current.masked /\ (Excused(c) => Excused(c)'))

LEMMA AboutOp ==
  /\ "ping" \in Control /\ "pong" \in Control /\ "close" \in Control /\ "cont" \notin Control
  /\ \A o \in Data : /\ o \notin Control
                     /\ o # "ping" /\ o # "pong" /\ o # "close" /\ o # "cont" /\ o # "unknown"
  BY DEF Data, Control

LEMMA ToldPast ==
  ASSUME NEW c \in Nat, Told(c), sent[c + 1].op \in Control, sent' = sent, delivered' = delivered,
         message' \in {message, <<>>}
  PROVE  Told(c + 1)'
<1>1. Told(c + 1)
  BY ToldControl
<1>2. c + 1 \in Nat
  OBVIOUS
<1>3. QED
  BY <1>1, <1>2, ToldDrops

LEMMA OnPing ==
  ASSUME NEW c, Acting(c), Ping(Payload)
  PROVE  Passed(c) \/ Left(c)
<1>1. /\ c \in Nat /\ Current = sent[c + 1] /\ Current.op = "ping" /\ sent' = sent /\ delivered' = delivered
      /\ sent[c + 1].op = "ping" /\ sent[c + 1].op \in Control /\ answers \in Seq(Sends) /\ Told(c) /\ Ponged(c)
  BY AboutOp DEF Acting, Ping, Typed
<1>2. CASE SendWorks(Answer("pong", Payload)) /\ Consume /\ message' = message
  <2>1. ~Excused(c)
    BY <1>1, <1>2, AboutOp DEF Excused, SendWorks
  <2>2. Payload \in Payloads /\ Payload.frame = c + 1 /\ Payload.clear = TRUE
    BY <2>1 DEF Acting
  <2>3. answers' = Append(answers, Answer("pong", Payload))
    BY <1>2 DEF SendWorks
  <2>4. Ponged(c + 1)'
    BY <1>1, <2>2, <2>3, PongedPing
  <2>5. Told(c + 1)'
    BY <1>1, <1>2, ToldPast
  <2>6. QED
    BY <1>2, <2>4, <2>5 DEF Passed, Consume
<1>3. CASE SendFails /\ Throw("lost") /\ UNCHANGED pos
  <2>1. message' = <<>> /\ answers' = answers /\ pos' = pos /\ (shut' \/ link' = "reset")
    BY <1>3 DEF SendFails, Throw, Acting
  <2>2. Told(c)' /\ Ponged(c)'
    BY <1>1, <2>1, ToldDrops, PongedSame
  <2>3. Excused(c)'
    BY <1>1, <2>1 DEF Excused
  <2>4. QED
    BY <2>1, <2>2, <2>3 DEF Left
<1>4. QED
  BY <1>2, <1>3 DEF Ping

LEMMA OnPong ==
  ASSUME NEW c, Acting(c), Pong
  PROVE  Passed(c)
<1>1. /\ c \in Nat /\ Current = sent[c + 1] /\ Current.op = "pong" /\ sent' = sent /\ delivered' = delivered
      /\ sent[c + 1].op # "ping" /\ sent[c + 1].op \in Control /\ answers \in Seq(Sends)
      /\ answers' = answers /\ message' = message /\ Told(c) /\ Ponged(c)
  BY AboutOp DEF Acting, Pong, Typed
<1>2. Told(c + 1)'
  BY <1>1, ToldPast
<1>3. Ponged(c + 1)'
  BY <1>1, PongedPast
<1>4. QED
  BY <1>2, <1>3 DEF Passed, Pong, Consume

LEMMA OnClose ==
  ASSUME NEW c, Acting(c), PeerClose(Payload)
  PROVE  Passed(c) \/ Left(c)
<1>1. /\ c \in Nat /\ Current = sent[c + 1] /\ Current.op = "close" /\ sent' = sent /\ delivered' = delivered
      /\ sent[c + 1].op = "close" /\ sent[c + 1].op # "ping"
      /\ sent[c + 1].op \in Control /\ answers \in Seq(Sends) /\ Told(c) /\ Ponged(c) /\ Payload \in Payloads
  BY AboutOp DEF Acting, PeerClose, Typed
<1>2. CASE SendWorks(Answer("close", Payload)) /\ Consume /\ Throw("closed")
  <2>1. Answer("close", Payload) \in Sends /\ Answer("close", Payload).op # "pong"
    BY <1>1 DEF Answer, Sends
  <2>2. answers' = Append(answers, Answer("close", Payload)) /\ message' = <<>>
    BY <1>2 DEF SendWorks, Throw
  <2>3. Ponged(c + 1)'
    BY <1>1, <2>1, <2>2, PongedElse
  <2>4. Told(c + 1)'
    BY <1>1, <2>2, ToldPast
  <2>5. QED
    BY <1>2, <2>3, <2>4 DEF Passed, Consume
<1>3. CASE SendFails /\ Throw("lost") /\ UNCHANGED pos
  <2>1. message' = <<>> /\ answers' = answers /\ pos' = pos /\ (shut' \/ link' = "reset")
    BY <1>3 DEF SendFails, Throw, Acting
  <2>2. Told(c)' /\ Ponged(c)'
    BY <1>1, <2>1, ToldDrops, PongedSame
  <2>3. Excused(c)'
    BY <1>1, <2>1 DEF Excused
  <2>4. QED
    BY <2>1, <2>2, <2>3 DEF Left
<1>4. QED
  BY <1>2, <1>3 DEF PeerClose

LEMMA OnUnknown ==
  ASSUME NEW c, Acting(c), Unknown
  PROVE  Left(c)
<1>1. /\ c \in Nat /\ Current = sent[c + 1] /\ Current.op = "unknown" /\ sent' = sent /\ delivered' = delivered
      /\ answers' = answers /\ answers \in Seq(Sends) /\ message' = <<>> /\ pos' = pos /\ Told(c) /\ Ponged(c)
  BY DEF Acting, Unknown, Throw, Typed
<1>2. Told(c)' /\ Ponged(c)'
  BY <1>1, ToldDrops, PongedSame
<1>3. Excused(c)'
  BY <1>1 DEF Excused
<1>4. QED
  BY <1>1, <1>2, <1>3 DEF Left

LEMMA Caps ==
  /\ Max({MaxFrame, MaxMessage}) \in Nat
  /\ MaxFrame <= Max({MaxFrame, MaxMessage}) /\ MaxMessage <= Max({MaxFrame, MaxMessage})
<1>1. MaxFrame \in Nat /\ MaxMessage \in Nat
  BY WebSocketAssumption
<1> DEFINE S == {MaxFrame, MaxMessage}
<1>2. \E x \in S : \A y \in S : x >= y
  <2>1. CASE MaxFrame >= MaxMessage
    BY <1>1, <2>1
  <2>2. CASE MaxMessage >= MaxFrame
    BY <1>1, <2>2
  <2>3. QED
    BY <1>1, <2>1, <2>2
<1>3. Max(S) \in S /\ \A y \in S : Max(S) >= y
  BY <1>2 DEF Max
<1>4. QED
  BY <1>1, <1>3

LEMMA OnData ==
  ASSUME NEW c, Acting(c), DataUnmasked, DataFrame(Payload)
  PROVE  Passed(c) \/ Left(c)
<1>1. /\ c \in Nat /\ Current = sent[c + 1] /\ Current \in Frames /\ Current.op \in Data /\ sent' = sent
      /\ sent[c + 1].op \in Data /\ sent[c + 1].op # "ping" /\ sent[c + 1].op \notin Control
      /\ answers \in Seq(Sends) /\ answers' = answers
      /\ Told(c) /\ Ponged(c) /\ Payload \in Payloads /\ Payload.frame = c + 1
  BY AboutOp DEF Acting, DataFrame, Typed
<1>2. ~Excused(c) /\ ~Current.masked /\ Payload.clear = TRUE
  <2>1. ~Excused(c)
    BY <1>1, AboutOp DEF Excused
  <2>2. ~Current.masked
    BY <1>1 DEF DataUnmasked
  <2>3. QED
    BY <2>1, <2>2 DEF Acting
<1>3. CASE message # <<>>
  <2>1. message' = <<>> /\ pos' = pos /\ delivered' = delivered
    BY <1>3 DEF DataFrame, Throw
  <2>2. Told(c)' /\ Ponged(c)'
    BY <1>1, <2>1, ToldDrops, PongedSame
  <2>3. QED
    BY <1>2, <2>1, <2>2 DEF Left
<1>4. CASE message = <<>>
  <2> DEFINE m == <<Payload>>
             e == c + 1
  <2>1. Run(sent, m, e) /\ LastFrame(m) = e
    <3>1. e \in Nat /\ e >= 1
      BY <1>1
    <3>2. QED
      BY <1>1, <1>2, <3>1, RunStarts
  <2>2. Light(sent, m)
    <3>1. Current.len \in Nat /\ Current.len <= MaxFrame
      BY <1>1, FrameType, WebSocketAssumption DEF Acting, Flawed
    <3>2. Weight(sent, m) = Current.len
      BY <1>1, <3>1, WeightOne
    <3>3. MaxFrame \in Nat
      BY WebSocketAssumption
    <3>4. QED
      BY <3>1, <3>2, <3>3, Caps DEF Light
  <2>3. Later(m, delivered)
    <3>1. m[1].frame = e
      BY <1>1
    <3>2. \A k \in 1 .. Len(delivered) : LastFrame(delivered[k]) \in 1 .. c
      BY <1>1 DEF Told, Handed
    <3>3. QED
      BY <1>1, <3>1, <3>2 DEF Later
  <2>4. Ponged(e)'
    BY <1>1, PongedPast
  <2> HIDE DEF m
  <2>5. CASE Current.fin
    <3>1. Consume /\ delivered' = Append(delivered, m) /\ message' = <<>>
      BY <1>4, <2>5 DEF DataFrame, Return, m
    <3>2. Told(c + 1)'
      BY <1>1, <2>1, <2>2, <2>3, <2>5, <3>1, ToldReturned
    <3>3. QED
      BY <2>4, <3>1, <3>2 DEF Passed, Consume
  <2>6. CASE ~Current.fin
    <3>1. Consume /\ delivered' = delivered /\ message' = m
      BY <1>4, <2>6 DEF DataFrame, NextFrame, m
    <3>2. Told(c + 1)'
      BY <1>1, <2>1, <2>2, <2>3, <2>6, <3>1, ToldMore
    <3>3. QED
      BY <2>4, <3>1, <3>2 DEF Passed, Consume
  <2>7. QED
    BY <2>5, <2>6
<1>5. QED
  BY <1>3, <1>4

LEMMA OnContinuation ==
  ASSUME NEW c, Acting(c), Continue(Payload)
  PROVE  Passed(c) \/ Left(c)
<1>1. /\ c \in Nat /\ Current = sent[c + 1] /\ Current \in Frames /\ Current.op = "cont" /\ sent' = sent
      /\ sent[c + 1].op = "cont" /\ sent[c + 1].op # "ping" /\ sent[c + 1].op \notin Control
      /\ answers \in Seq(Sends) /\ answers' = answers
      /\ Told(c) /\ Ponged(c) /\ Payload \in Payloads /\ Payload.frame = c + 1
  BY AboutOp DEF Acting, Continue, Typed
<1>2. CASE Unwelcome
  <2>1. message' = <<>> /\ pos' = pos /\ delivered' = delivered
    BY <1>2 DEF Continue, Throw
  <2>2. Told(c)' /\ Ponged(c)'
    BY <1>1, <2>1, ToldDrops, PongedSame
  <2>3. Excused(c)'
    BY <1>1, <2>1 DEF Excused
  <2>4. QED
    BY <2>1, <2>2, <2>3 DEF Left
<1>3. CASE ~Unwelcome
  <2> DEFINE m == Append(message, Payload)
  <2>0. message # <<>> /\ ~(Size(message) + Current.len > MaxMessage)
    BY <1>3 DEF Unwelcome
  <2>1. /\ Run(sent, message, c) /\ ~sent[LastFrame(message)].fin
        /\ Later(message, delivered) /\ message \in Seq(Payloads)
    BY <1>1, <2>0 DEF Told, Gathered, Run
  <2>2. Payload.clear = TRUE
    <3>1. ~Excused(c)
      BY <1>1, <2>0 DEF Excused
    <3>2. QED
      BY <3>1 DEF Acting
  <2>3. Run(sent, m, c + 1) /\ LastFrame(m) = c + 1 /\ m[1] = message[1]
    BY <1>1, <2>1, <2>2, RunGoesOn
  <2>4. Later(m, delivered)
    BY <2>1, <2>3 DEF Later
  <2>5. Light(sent, m)
    <3>1. Current.len \in Nat /\ MaxMessage \in Nat
      BY <1>1, FrameType, WebSocketAssumption
    <3>2. \A n \in 1 .. Len(message) : sent[message[n].frame].len \in Nat
      <4>1. \A n \in 1 .. Len(message) : message[n].frame \in 1 .. c
        BY <2>1 DEF Run
      <4>2. sent \in Seq(Frames) /\ \A n \in 1 .. c : n \in 1 .. Len(sent)
        BY <1>1 DEF Acting, Typed, TypeOK
      <4>3. \A n \in 1 .. Len(message) : sent[message[n].frame] \in Frames
        BY <4>1, <4>2
      <4>4. QED
        BY <4>3, FrameType
    <3>3. Weight(sent, m) = Weight(sent, message) + Current.len /\ Weight(sent, message) \in Nat
      BY <1>1, <2>1, <3>1, <3>2, WeightMore
    <3>4. Size(message) = Weight(sent, message)
      BY SizeIsWeight
    <3>5. Weight(sent, m) <= MaxMessage /\ Weight(sent, m) \in Nat
      BY <2>0, <3>1, <3>3, <3>4
    <3>6. QED
      BY <3>1, <3>5, Caps DEF Light
  <2>6. Ponged(c + 1)'
    BY <1>1, PongedPast
  <2> HIDE DEF m
  <2>7. CASE Current.fin
    <3>1. Consume /\ delivered' = Append(delivered, m) /\ message' = <<>>
      BY <1>3, <2>7 DEF Continue, Return, m
    <3>2. Told(c + 1)'
      BY <1>1, <2>3, <2>4, <2>5, <2>7, <3>1, ToldReturned
    <3>3. QED
      BY <2>6, <3>1, <3>2 DEF Passed, Consume
  <2>8. CASE ~Current.fin
    <3>1. Consume /\ delivered' = delivered /\ message' = m
      BY <1>3, <2>8 DEF Continue, NextFrame, m
    <3>2. Told(c + 1)'
      BY <1>1, <2>3, <2>4, <2>5, <2>8, <3>1, ToldMore
    <3>3. QED
      BY <2>6, <3>1, <3>2 DEF Passed, Consume
  <2>9. QED
    BY <2>7, <2>8
<1>4. QED
  BY <1>2, <1>3

LEMMA ProcessSound ==
  ASSUME IInv, Sound, DataUnmasked, Process
  PROVE  Sound'
<1>1. /\ UNCHANGED <<response, sent, wire, life, shut>> /\ buf' = Unmask(buf)
      /\ pc = "body" /\ ~Starved /\ life = "open" /\ pc' # "upgrade"
  BY DEF Process, Ping, Pong, PeerClose, DataFrame, Continue, Unknown, NextFrame, Throw, Return,
         IInv, Phased, InRecv
<1>2. /\ Current \in Frames /\ FrameLen(Current) \in 1 .. Unread /\ Unread \in Nat /\ Unread >= 1
      /\ ~Flawed(Current)
  BY <1>1, FrameThere DEF IInv, Accepted
<1>3. /\ Typed /\ sent \in Seq(Frames) /\ buf \in Seq(CellSet) /\ wire \in Seq(CellSet) /\ pos \in 0 .. Len(buf)
      /\ Len(sent) \in Nat /\ Len(buf) \in Nat /\ Unread = Len(buf) - pos
  BY DEF IInv, Typed, TypeOK, Unread
<1>4. PICK c \in Nat : Lies(pos, c) /\ Told(c) /\ Ponged(c)
  BY <1>1 DEF Sound, Streaming
<1> DEFINE F == FrameLen(Current)
           L == Far(buf, pos, wire)
           u == Ahead(buf, pos, wire)
           b == Unmask(buf)
           v == Ahead(b, pos, wire)
<1>5. PICK off : /\ Laid(sent, u, L, c, off)
                 /\ c < Len(sent) => Excused(c) \/ Pristine(sent, u, c, off)
  BY <1>4 DEF Lies
<1>6. c < Len(sent) /\ Number = c + 1 /\ Current = sent[c + 1] /\ off[c + 1] = F
  BY <1>2, <1>3, <1>5, NextIs
<1>7. /\ Rewritten(b, buf, pos, F)
      /\ ~Current.masked => b = buf
      /\ (\A n \in pos + 1 .. pos + F : Fresh(Current, buf[n])) => Payload.clear = TRUE
  BY <1>2, <1>3, UnmaskedFrame
<1>8. b \in Seq(CellSet) /\ Len(b) = Len(buf) /\ F \in 0 .. Len(buf) - pos /\ F \in Nat
  BY <1>2, <1>3, <1>7 DEF Rewritten
<1>9. Far(b, pos, wire) = L /\ Redone(v, u, L, F)
  <2> HIDE DEF b, F
  <2>1. QED
    BY <1>3, <1>7, <1>8, AheadRedone
<1>10. Laid(sent, v, L, c, off)
  <2> HIDE DEF u, v, L
  <2>1. QED
    BY <1>3, <1>5, <1>6, <1>9, LaidSame
<1>11. Payload \in Payloads /\ Payload.frame = c + 1
  <2>1. Number \in 1 .. MaxSent
    BY <1>1, <1>2, CurrentSent DEF IInv
  <2>2. Number \in 0 .. MaxSent
    BY <2>1, WebSocketAssumption
  <2>3. QED
    BY <1>6, <2>2 DEF Payload, Fragment, Payloads
<1>12. ~Excused(c) => Payload.clear = TRUE
  <2> SUFFICES ASSUME ~Excused(c) PROVE Payload.clear = TRUE
    OBVIOUS
  <2>1. \A n \in 1 .. F : Fresh(Current, u[n])
    BY <1>5, <1>6 DEF Pristine
  <2>2. ASSUME NEW n \in pos + 1 .. pos + F PROVE Fresh(Current, buf[n])
    <3>1. n - pos \in 1 .. F /\ pos + (n - pos) = n /\ n <= Len(buf) /\ n - pos \in 1 .. L
      BY <1>3, <1>8 DEF Far
    <3>2. u[n - pos] = buf[n]
      BY <3>1 DEF Ahead
    <3>3. Fresh(Current, u[n - pos])
      BY <2>1, <3>1
    <3>4. QED
      BY <3>2, <3>3
  <2>3. QED
    BY <1>7, <2>2
<1>13. c + 1 \in 1 .. Len(sent)
  BY <1>3, <1>6
<1>14. Acting(c)
  BY <1>1, <1>2, <1>3, <1>4, <1>6, <1>11, <1>12, <1>13 DEF Acting
<1>15. Passed(c) \/ Left(c)
  BY <1>14, OnPing, OnPong, OnClose, OnUnknown, OnData, OnContinuation DEF Process
<1>16. CASE Passed(c)
  <2> DEFINE w == Ahead(b, pos + F, wire)
  <2>1. Far(b, pos + F, wire) = L - F /\ Shorter(w, v, L, F)
    <3> HIDE DEF b, F
    <3>1. pos \in 0 .. Len(b) /\ F \in 0 .. Len(b) - pos
      BY <1>3, <1>8
    <3>2. /\ Far(b, pos + F, wire) = Far(b, pos, wire) - F
          /\ Shorter(Ahead(b, pos + F, wire), Ahead(b, pos, wire), Far(b, pos, wire), F)
      BY <1>3, <1>8, <3>1, AheadSkips
    <3>3. QED
      BY <1>9, <3>2
  <2>2. PICK new : Laid(sent, w, L - F, c + 1, new) /\ (c + 1 < Len(sent) => Pristine(sent, w, c + 1, new))
    <3> HIDE DEF w, v, L
    <3>1. Shorter(w, v, L, FrameLen(sent[c + 1]))
      BY <1>6, <2>1
    <3>2. QED
      BY <1>3, <1>6, <1>10, <3>1, LaidNext
  <2>3. pos' = pos + F
    BY <1>16 DEF Passed
  <2>4. Ahead(buf', pos', wire') = w /\ Far(buf', pos', wire') = L - F
    BY <1>1, <2>1, <2>3
  <2>5. Lies(pos, c + 1)'
    <3> HIDE DEF w, v, L, F
    <3>1. QED
      BY <1>1, <2>2, <2>4 DEF Lies
  <2>6. c + 1 \in Nat /\ Told(c + 1)' /\ Ponged(c + 1)'
    BY <1>16 DEF Passed
  <2>7. QED
    BY <1>1, <2>5, <2>6 DEF Sound, Streaming, Starting, Arriving, Ended
<1>17. CASE Left(c)
  <2>1. Ahead(buf', pos', wire') = v /\ Far(buf', pos', wire') = L
    BY <1>1, <1>9, <1>17 DEF Left
  <2>2. Excused(c)' \/ (v = u /\ (Excused(c) => Excused(c)'))
    BY <1>7, <1>17 DEF Left
  <2>3. Lies(pos, c)'
    <3> HIDE DEF v, u, L, F
    <3>1. QED
      BY <1>1, <1>5, <1>10, <2>1, <2>2 DEF Lies
  <2>4. Told(c)' /\ Ponged(c)'
    BY <1>17 DEF Left
  <2>5. QED
    BY <1>1, <2>3, <2>4 DEF Sound, Streaming, Starting, Arriving, Ended
<1>18. QED
  BY <1>15, <1>16, <1>17

LEMMA InitSound == Init => Sound
  BY DEF Init, Sound, Streaming, Starting, Arriving, Ended

LEMMA NextSound ==
  ASSUME IInv, Sound, DataUnmasked, [Next]_vars
  PROVE  Sound'
<1>1. CASE \E f \in Frames : SendFrame(f)
  BY <1>1, SendFrameSound
<1>2. CASE SendUpgrade
  BY <1>2, SendUpgradeSound
<1>3. CASE \E k \in 1 .. Chunk : ReadUpgrade(k)
  BY <1>3, ReadUpgradeStep, ReadUpgradeSound
<1>4. CASE \E k \in 1 .. Chunk : Fill(k)
  BY <1>4, FillSound
<1>5. CASE CutOff
  BY <1>5, CutOffSound
<1>6. CASE Process
  BY <1>6, ProcessSound
<1>7. CASE Quiet
  BY <1>7, QuietSound
<1>8. QED
  BY <1>1, <1>2, <1>3, <1>4, <1>5, <1>6, <1>7 DEF Next, Quiet

-----------------------------------------------------------------------------
(* What follows from it                                                    *)

(* The frames that were consumed are the first c.                          *)
LEMMA ConsumedIs ==
  ASSUME Typed, NEW c \in Nat, Lies(pos, c)
  PROVE  Consumed = 1 .. c /\ c <= Len(sent)
<1> DEFINE L == Far(buf, pos, wire)
           u == Ahead(buf, pos, wire)
<1>1. /\ sent \in Seq(Frames) /\ Len(sent) \in Nat /\ buf \in Seq(CellSet) /\ wire \in Seq(CellSet)
      /\ pos \in 0 .. Len(buf) /\ Len(buf) \in Nat /\ Len(wire) \in Nat /\ Unread = Len(buf) - pos
  BY DEF Typed, TypeOK, Unread
<1>2. PICK off : Laid(sent, u, L, c, off)
  BY DEF Lies
<1>3. CASE Unread > 0
  <2>1. Unread >= 1
    BY <1>1, <1>3
  <2>2. c < Len(sent) /\ Number = c + 1
    BY <1>2, <2>1, NextIs
  <2>3. Number - 1 = c
    BY <2>2
  <2>4. QED
    BY <1>1, <1>3, <2>2, <2>3 DEF Consumed
<1>4. CASE ~(Unread > 0) /\ wire = <<>>
  <2>1. L = 0
    BY <1>1, <1>4 DEF Far
  <2> HIDE DEF L, u
  <2>2. c = Len(sent)
    BY <1>1, <1>2, <2>1, FrontIs
  <2>3. QED
    BY <1>1, <1>4, <2>2 DEF Consumed
<1>5. CASE ~(Unread > 0) /\ wire # <<>>
  <2>1. Len(wire) >= 1 /\ pos = Len(buf)
    BY <1>1, <1>5
  <2>2. 1 \in 1 .. L /\ L = Len(wire)
    BY <1>1, <2>1 DEF Far
  <2>3. u[1] = wire[1]
    <3>1. ~(pos + 1 <= Len(buf)) /\ (pos + 1) - Len(buf) = 1
      BY <1>1, <2>1
    <3>2. QED
      BY <2>2, <3>1 DEF Ahead
  <2> HIDE DEF L, u
  <2>4. /\ c \in 0 .. Len(sent) /\ (L = 0 <=> c = Len(sent))
        /\ c < Len(sent) => /\ off[c + 1] \in 1 .. L
                            /\ \A n \in 1 .. off[c + 1] : u[n].frame = c + 1
    BY <1>1, <1>2, FrontIs
  <2>5. c < Len(sent)
    BY <1>1, <2>1, <2>2, <2>4
  <2>6. 1 \in 1 .. off[c + 1]
    BY <2>4, <2>5
  <2>7. wire[1].frame - 1 = c
    BY <2>3, <2>4, <2>5, <2>6
  <2>8. QED
    BY <1>1, <1>5, <2>5, <2>7 DEF Consumed
<1>6. QED
  BY <1>3, <1>4, <1>5

LEMMA WholeIsMessage ==
  ASSUME NEW m, Whole(sent, m)
  PROVE  Message(Numbers(m)) /\ \A n \in DOMAIN m : m[n].clear
<1> DEFINE d == Numbers(m)
           N == Len(m)
           c == LastFrame(m)
<1>1. Run(sent, m, c) /\ sent[c].fin
  BY DEF Whole
<1>2. m \in Seq(Payloads) /\ N \in Nat /\ N >= 1 /\ DOMAIN m = 1 .. N
  <2>1. m \in Seq(Payloads) /\ m # <<>>
    BY <1>1 DEF Run
  <2>2. QED
    BY <2>1
<1>3. DOMAIN d = 1 .. N /\ Len(d) = N /\ (\A n \in 1 .. N : d[n] = m[n].frame) /\ d[N] = c
  BY <1>2 DEF Numbers, LastFrame
<1> HIDE DEF d, N, c
<1>4. sent[d[1]].op \in Data /\ \A n \in 2 .. N : sent[d[n]].op = "cont"
  BY <1>1, <1>2, <1>3 DEF Run, N
<1>5. \A n \in 1 .. N : sent[d[n]].fin <=> n = N
  <2>1. \A n \in 1 .. N - 1 : n \in 1 .. N /\ ~sent[m[n].frame].fin
    BY <1>1, <1>2 DEF Run, N
  <2>2. \A n \in 1 .. N - 1 : ~sent[d[n]].fin
    BY <1>3, <2>1
  <2>3. \A n \in 1 .. N : n \in 1 .. N - 1 \/ n = N
    BY <1>2
  <2>4. \A n \in 1 .. N - 1 : n # N
    BY <1>2
  <2>5. QED
    BY <1>1, <1>3, <2>2, <2>3, <2>4
<1>6. \A n \in 1 .. N - 1 : d[n] < d[n + 1]
  <2>1. \A n, k \in 1 .. N : n < k => m[n].frame < m[k].frame
    BY <1>1 DEF Run, N
  <2>2. \A n \in 1 .. N - 1 : n \in 1 .. N /\ n + 1 \in 1 .. N /\ n < n + 1
    BY <1>2
  <2>3. QED
    BY <1>3, <2>1, <2>2
<1>7. \A i \in d[1] .. d[N] : (\E n \in 1 .. N : d[n] = i) \/ sent[i].op \in Control
  <2>1. d[1] = m[1].frame /\ d[N] = c
    BY <1>2, <1>3
  <2>2. \A i \in m[1].frame .. c : (\E n \in 1 .. N : m[n].frame = i) \/ sent[i].op \in Control
    BY <1>1 DEF Run, N
  <2>3. QED
    BY <1>3, <2>1, <2>2
<1>8. Message(d)
  BY <1>3, <1>4, <1>5, <1>6, <1>7 DEF Message
<1>9. \A n \in DOMAIN m : m[n].clear
  <2>1. \A n \in 1 .. N : m[n].clear = TRUE
    BY <1>1 DEF Run, N
  <2>2. QED
    BY <1>2, <2>1
<1>10. QED
  BY <1>8, <1>9 DEF d

LEMMA HandedIsGenuine ==
  ASSUME NEW c, Handed(c)
  PROVE  Genuine
<1>1. delivered \in Seq(Seq(Payloads)) /\ DOMAIN delivered = 1 .. Len(delivered) /\ Len(delivered) \in Nat
  BY DEF Handed
<1>2. \A k \in 1 .. Len(delivered) : Whole(sent, delivered[k])
  BY DEF Handed
<1>3. \A k \in DOMAIN delivered :
        Message(Numbers(delivered[k])) /\ \A n \in DOMAIN delivered[k] : delivered[k][n].clear
  BY <1>1, <1>2, WholeIsMessage
<1>4. \A k \in 1 .. Len(delivered) - 1 : Last(delivered[k]).frame < Head(delivered[k + 1]).frame
  <2> TAKE k \in 1 .. Len(delivered) - 1
  <2>1. k + 1 \in 1 .. Len(delivered)
    BY <1>1
  <2>2. delivered[k + 1] \in Seq(Payloads) /\ delivered[k + 1] # <<>>
    BY <1>2, <2>1 DEF Whole, Run
  <2>3. Head(delivered[k + 1]) = delivered[k + 1][1]
    BY <2>2
  <2>4. Last(delivered[k]) = delivered[k][Len(delivered[k])]
    BY DEF Last
  <2>5. LastFrame(delivered[k]) < delivered[k + 1][1].frame
    BY DEF Handed
  <2>6. QED
    BY <2>3, <2>4, <2>5 DEF LastFrame
<1>5. \A k \in DOMAIN delivered : Size(delivered[k]) <= Max({MaxFrame, MaxMessage})
  BY <1>1, <1>2, SizeIsWeight DEF Whole, Light
<1>6. QED
  BY <1>3, <1>4, <1>5 DEF Genuine

LEMMA SoundIsGenuine ==
  ASSUME IInv, Sound
  PROVE  Genuine
<1>1. \E c \in Nat : Handed(c)
  <2>1. CASE life = "open"
    BY <2>1 DEF Sound, Streaming, Told
  <2>2. CASE life = "new"
    BY <2>2, NoneHanded DEF Sound, Starting
  <2>3. CASE life = "freed"
    <3>1. Len(sent) \in Nat
      BY DEF IInv, Typed, TypeOK
    <3>2. QED
      BY <2>3, <3>1 DEF Sound, Ended
  <2>4. QED
    BY <2>1, <2>2, <2>3 DEF IInv, Typed, TypeOK
<1>2. QED
  BY <1>1, HandedIsGenuine

LEMMA SoundLosesNothing ==
  ASSUME IInv, Sound
  PROVE  NothingLost
<1> SUFFICES ASSUME life = "open", NEW i \in Consumed, NEW j \in Consumed, Complete(i, j)
             PROVE  \E k \in DOMAIN delivered : FramesOf(delivered[k]) = Fragments(i, j)
  BY DEF NothingLost
<1>1. PICK c \in Nat : Lies(pos, c) /\ Told(c)
  BY DEF Sound, Streaming
<1>2. Consumed = 1 .. c
  BY <1>1, ConsumedIs DEF IInv
<1>3. Found(i, j, delivered)
  BY <1>1, <1>2 DEF Told, Lossless
<1>4. DOMAIN delivered = 1 .. Len(delivered)
  BY <1>1 DEF Told, Handed
<1>5. QED
  BY <1>3, <1>4 DEF Found

LEMMA SoundPongs ==
  ASSUME IInv, Sound
  PROVE  PongsInOrder
<1> SUFFICES ASSUME life = "open" PROVE PongsInOrder
  BY DEF PongsInOrder
<1>1. PICK c \in Nat : Lies(pos, c) /\ Ponged(c)
  BY DEF Sound, Streaming
<1>2. Consumed = 1 .. c
  BY <1>1, ConsumedIs DEF IInv
<1>3. DOMAIN answers = 1 .. Len(answers)
  BY DEF IInv, Typed
<1>4. \A i \in 1 .. c : sent[i].op = "ping" =>
        \E n \in 1 .. Len(answers) : IsPong(n) /\ answers[n].payload.frame = i
  BY <1>1 DEF Ponged
<1>5. \A n \in 1 .. Len(answers) : IsPong(n) =>
        /\ answers[n].payload.clear
        /\ answers[n].payload.frame \in 1 .. c /\ sent[answers[n].payload.frame].op = "ping"
  BY <1>1 DEF Ponged
<1>6. \A n, m \in 1 .. Len(answers) :
        IsPong(n) /\ IsPong(m) /\ n < m => answers[n].payload.frame < answers[m].payload.frame
  BY <1>1 DEF Ponged
<1>7. QED
  BY <1>2, <1>3, <1>4, <1>5, <1>6 DEF PongsInOrder

-----------------------------------------------------------------------------
(* Theorems about what recv() returns and answers                          *)

(* From a server that does not mask its data, recv() returns whole         *)
(* messages, in order, each once, unmasked and within the caps, and loses  *)
(* none, however the stream is cut, whatever is between the fragments and  *)
(* whatever failed before; and its buffer stays bounded (websocket.cpp,    *)
(* recv() and ensure()).                                                   *)
THEOREM MessagesStaySound == ASSUME DataUnmasked PROVE Spec => []MessagesAreSound
<1>1. IInv /\ Sound => MessagesAreSound
  <2>1. ASSUME IInv PROVE BufferBounded
    BY <2>1 DEF IInv, Phased, Bounded, BufferBounded
  <2>2. QED
    BY <2>1, SoundIsGenuine, SoundLosesNothing DEF IInv, Typed, MessagesAreSound
<1>2. IInv /\ Sound /\ [Next]_vars => Sound'
  BY NextSound
<1>3. IInv /\ [Next]_vars => IInv'
  BY NextHolds
<1>4. QED
  BY <1>1, <1>2, <1>3, InitHolds, InitSound, PTL DEF Spec

(* From such a server every ping is answered once, in order and with its   *)
(* payload, one that was not consumed is not, and the closing handshake is *)
(* made once (websocket.cpp, the control frames of recv(), and close()).   *)
THEOREM ControlIsAnswered == ASSUME DataUnmasked PROVE Spec => []ControlAnswered
<1>1. IInv /\ Sound => ControlAnswered
  BY SoundPongs DEF IInv, ControlAnswered
<1>2. IInv /\ Sound /\ [Next]_vars => Sound'
  BY NextSound
<1>3. IInv /\ [Next]_vars => IInv'
  BY NextHolds
<1>4. QED
  BY <1>1, <1>2, <1>3, InitHolds, InitSound, PTL DEF Spec
==============================================================================
