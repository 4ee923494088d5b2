---------------------------------- MODULE Tls ----------------------------------
(***************************************************************************)
(* A TLS connection from ClientHello to close(): the two handshakes, the   *)
(* record layer with its sequence numbers, and the sessions a reader and   *)
(* an owner thread share.  Both ends live in one process, under the one    *)
(* mutex of the session registry.                                          *)
(*                                                                         *)
(* A record is two cells, its header and its payload; a read returns any   *)
(* number of cells.  A hash is the transcript it is taken of; a key names  *)
(* the label, the suite and the transcript it is derived from.  A faulty   *)
(* variant of an operator, used nowhere, stands before it.                 *)
(***************************************************************************)
EXTENDS Integers, Sequences, FiniteSets

CONSTANTS
  Servers,     \* the servers a client may meet: the cipher suite they choose, the
               \* messages of their flight, how many halves of messages each record
               \* goes up to, what they send after it, and whether the client takes
               \* their chain, because it is valid or with `insecure' unseen:
               \* [suite, messages, upto, after, trusted]
  MaxPlain,    \* the most data of one record (16384)
  Payloads,    \* the lengths a program passes to send()
  MaxSaid,     \* bound: how much data the two ends send in all
  Bufsizes,    \* the sizes a program passes to recv()
  Window,      \* how many cells the kernel holds in one direction
  Timeouts,    \* set_timeout() was called on the sockets
  None

Ends    == {"client", "server"}
Peer(e) == CHOOSE f \in Ends : f # e

ASSUME TlsAssumption ==
  /\ {MaxPlain, Window} \subseteq Nat \ {0} /\ MaxSaid \in Nat
  /\ Payloads \subseteq Nat \ {0} /\ Bufsizes \subseteq Nat \ {0} /\ Timeouts \in BOOLEAN
  /\ None \notin Ends

(* Servers go by the protocol: Finished ends the flight, CertificateVerify *)
(* follows a Certificate at once, no record of the flight is empty, and    *)
(* the suite is one that was offered (RFC 8446).                           *)
Offered == {"aes256", "aes128", "chacha"}

WellFormed(s) ==
  /\ s.suite \in Offered /\ s.messages \in Seq(STRING) /\ s.upto \in Seq(Nat \ {0})
  /\ s.messages # <<>> /\ s.upto # <<>> /\ s.upto[Len(s.upto)] = 2 * Len(s.messages)
  /\ \A i, j \in DOMAIN s.upto : i < j => s.upto[i] < s.upto[j]
  /\ \A i \in DOMAIN s.messages :
       /\ s.messages[i] = "Fin" <=> i = Len(s.messages)
       /\ s.messages[i] = "CV" => i > 1 /\ s.messages[i - 1] = "Cert"

ASSUME ServersAssumption == \A s \in Servers : WellFormed(s)

VARIABLES
  server,      \* the server of this behaviour
  chan,        \* the cells on their way to each end
  down,        \* the end has shut its socket down
  faulty,      \* a send has failed or a read timed out
  pc,          \* where the handshake, then the owner of the session, is
  buf,         \* buffer, later read_buffer: cells read, not yet a record
  transcript,  \* the handshake messages so far
  tx, rx,      \* Keys of the two directions: [key, seq]
  next,        \* the server's flight: its next record
  pieces,      \* handshake_bytes of the client
  seen,        \* the client's [cert, proven, asked, finished]: the transcript at
               \* Certificate, verified_cert, cert_requested, server_finished
  secret,      \* the transcript the application secrets are derived from
  mutex,       \* registry().mutex, when it is held over a send
  reader,      \* the thread that calls recv(): "idle", "recv"
  want,        \* its bufsize
  pending,     \* app_pending
  closed,      \* Session::closed
  ended,       \* what closed it: "none", "notify", "eof", "auth", "update"
  eof,         \* recv() has returned ""
  rest,        \* what a send() has still to seal
  said, got    \* the data given to send(), and returned by recv()

wires     == <<chan, down, faulty>>
handshake == <<transcript, next, pieces, seen, secret>>
keys      == <<tx, rx>>
session   == <<reader, want, pending, closed, ended, eof>>
talk      == <<rest, said, got>>
vars      == <<server, wires, pc, buf, handshake, keys, mutex, session, talk>>

-----------------------------------------------------------------------------
(* Records and keys                                                        *)

Message(name, over) == [name |-> name, over |-> over]

(* Of the suites a ClientHello offers, the one this library's server picks. *)
Choose(offered) == IF "chacha" \in offered THEN "chacha" ELSE "aes128"

(* A message travels in two halves, which a record boundary may part.      *)
Halves(m) == <<m, m>>

Key(label, suite, over) == [key |-> <<label, suite, over>>, seq |-> 0]

HandshakeKey(e, suite, over) == Key(IF e = "client" THEN "c hs" ELSE "s hs", suite, over)
AppKey(e, suite, over)       == Key(IF e = "client" THEN "c ap" ELSE "s ap", suite, over)

Plain(type, content) == [type |-> type, content |-> content]

(* seal_record()                                                           *)
Seal(k, inner, content) ==
  [type |-> "data", key |-> k.key, seq |-> k.seq, inner |-> inner, content |-> content]

Advance(k) == [k EXCEPT !.seq = @ + 1]

Cell(r, part) == [of |-> r, part |-> part]
Cells(r)      == <<Cell(r, "head"), Cell(r, "body")>>

HasRecord(b) == Len(b) >= 2

(* What lies under the read position; a header that is followed by another *)
(* header, because its record was cut off, does not authenticate.          *)
Under(b) == b[1].of
Whole(b) == b[1].part = "head" /\ b[2].part = "body"

(* open_record() succeeds.                                                 *)
Opens(k, b) == Whole(b) /\ Under(b).key = k.key /\ Under(b).seq = k.seq

-----------------------------------------------------------------------------
(* The sockets                                                             *)

(* sendall(): all of it, when there is room.                               *)
SendAll(e, r) ==
  /\ ~down[e] /\ Len(chan[Peer(e)]) + 2 <= Window
  /\ chan' = [chan EXCEPT ![Peer(e)] = @ \o Cells(r)]
  /\ UNCHANGED <<down, faulty>>

(* A send fails because an end is down, or because its timeout passed with *)
(* the window full; a part of the record may have left by then.            *)
SendCut(e, r) ==
  /\ faulty' = TRUE
  /\ \/ (down[e] \/ down[Peer(e)]) /\ UNCHANGED chan
     \/ /\ Timeouts /\ ~down[e] /\ Len(chan[Peer(e)]) + 2 > Window
        /\ \/ UNCHANGED chan
           \/ /\ Len(chan[Peer(e)]) < Window
              /\ chan' = [chan EXCEPT ![Peer(e)] = Append(@, Cell(r, "head"))]
  /\ UNCHANGED down

(* recv() of the socket, in read_record().                                 *)
Receive(e, k) ==
  /\ ~HasRecord(buf[e]) /\ k \in 1 .. Len(chan[e])
  /\ buf'  = [buf EXCEPT ![e] = @ \o SubSeq(chan[e], 1, k)]
  /\ chan' = [chan EXCEPT ![e] = SubSeq(@, k + 1, Len(@))]
  /\ UNCHANGED <<down, faulty>>

Dry(e) == ~HasRecord(buf[e]) /\ chan[e] = <<>>

EndedByPeer(e) == Dry(e) /\ down[Peer(e)]

(* The socket returns nothing: the stream has ended, or a timeout.         *)
Ended(e)    == Dry(e) /\ (down[e] \/ down[Peer(e)])
TimedOut(e) == Dry(e) /\ Timeouts /\ faulty' = TRUE /\ UNCHANGED <<chan, down>>

DropRecord(e) == buf' = [buf EXCEPT ![e] = SubSeq(@, 3, Len(@))]

Init ==
  /\ server \in Servers
  /\ chan = [e \in Ends |-> <<>>] /\ down = [e \in Ends |-> FALSE] /\ faulty = FALSE
  /\ pc = [e \in Ends |-> IF e = "client" THEN "start" ELSE "hello"]
  /\ buf = [e \in Ends |-> <<>>] /\ transcript = [e \in Ends |-> <<>>]
  /\ tx = [e \in Ends |-> None] /\ rx = [e \in Ends |-> None]
  /\ next = 1 /\ pieces = <<>> /\ secret = [e \in Ends |-> <<>>]
  /\ seen = [cert |-> <<>>, proven |-> FALSE, asked |-> FALSE, finished |-> FALSE]
  /\ mutex = None /\ reader = [e \in Ends |-> "idle"] /\ want = [e \in Ends |-> 0]
  /\ pending = [e \in Ends |-> <<>>] /\ closed = [e \in Ends |-> FALSE]
  /\ ended = [e \in Ends |-> "none"] /\ eof = [e \in Ends |-> FALSE]
  /\ rest = [e \in Ends |-> <<>>] /\ said = [e \in Ends |-> 0] /\ got = [e \in Ends |-> <<>>]

-----------------------------------------------------------------------------
(* Steps both handshakes have                                              *)

Goto(e, where) == pc' = [pc EXCEPT ![e] = where]
Log(e, m)      == transcript' = [transcript EXCEPT ![e] = Append(@, m)]
Suite(e)       == tx[e].key[2]
Hello(e)       == SubSeq(transcript[e], 1, 2)

(* The handshake keys follow from the transcript through ServerHello.      *)
Schedule(e, suite) ==
  LET hello == Append(transcript[e], "SH")
  IN  /\ tx' = [tx EXCEPT ![e] = HandshakeKey(e, suite, hello)]
      /\ rx' = [rx EXCEPT ![e] = HandshakeKey(Peer(e), suite, hello)]

FinishedOf(e, suite, hello, over) == Message("Fin", <<HandshakeKey(e, suite, hello).key, over>>)

(* The application keys follow from the transcript through the server's    *)
(* Finished.                                                               *)
SessionKeys(e) == [tx |-> AppKey(e, Suite(e), secret[e]), rx |-> AppKey(Peer(e), Suite(e), secret[e])]

(* Then the session is stored under the mutex. Until then it is nobody's:  *)
(* every call on it begins by taking the same mutex, so an end that is     *)
(* "open" while another holds the mutex still waits to register.           *)
Register(e) ==
  /\ Goto(e, "open")
  /\ tx' = [tx EXCEPT ![e] = SessionKeys(e).tx] /\ rx' = [rx EXCEPT ![e] = SessionKeys(e).rx]

(* Where an end waits for a record, and what it can go on with.            *)
Awaits(e) == pc[e] \in {"hello", "finished"} \/ (pc[e] = "flight" /\ ~seen.finished /\ Len(pieces) < 2)

Awaited(e) ==
  IF pc[e] = "hello"
  THEN /\ Under(buf[e]).type = "handshake" /\ Whole(buf[e])
       /\ (e = "client" => Under(buf[e]).content.over \in Offered)
  ELSE Under(buf[e]).type = "data" /\ Opens(rx[e], buf[e])

Arrived(e, where) == pc[e] = where /\ Awaits(e) /\ HasRecord(buf[e]) /\ Awaited(e) /\ DropRecord(e)

Fill(e, k) ==
  /\ Awaits(e) /\ Receive(e, k)
  /\ UNCHANGED <<server, pc, handshake, keys, mutex, session, talk>>

(* ChangeCipherSpec, sent for the sake of middleboxes.                     *)
SkipChange(e) ==
  /\ Awaits(e) /\ HasRecord(buf[e]) /\ Under(buf[e]).type = "ccs"
  /\ DropRecord(e)
  /\ UNCHANGED <<server, wires, pc, handshake, keys, mutex, session, talk>>

GiveUp(e) ==
  /\ Awaits(e)
  /\ \/ Ended(e) /\ UNCHANGED <<wires, buf>>
     \/ TimedOut(e) /\ UNCHANGED buf
     \/ /\ HasRecord(buf[e]) /\ Under(buf[e]).type # "ccs" /\ ~Awaited(e)
        /\ DropRecord(e) /\ UNCHANGED wires
  /\ Goto(e, "failed")
  /\ UNCHANGED <<server, handshake, keys, mutex, session, talk>>

-----------------------------------------------------------------------------
(* handshake()                                                             *)

ClientHello ==
  /\ pc["client"] = "start"
  /\ LET r == Plain("handshake", Message("CH", Offered))
     IN  \/ SendAll("client", r) /\ Log("client", "CH") /\ Goto("client", "hello")
         \/ SendCut("client", r) /\ Goto("client", "failed") /\ UNCHANGED transcript
  /\ UNCHANGED <<server, buf, next, pieces, seen, secret, keys, mutex, session, talk>>

TakeServerHello ==
  /\ Arrived("client", "hello")
  /\ Schedule("client", Under(buf["client"]).content.over)
  /\ Log("client", "SH") /\ Goto("client", "flight")
  /\ UNCHANGED <<server, wires, next, pieces, seen, secret, mutex, session, talk>>

(* A record of the server's flight joins handshake_bytes.                  *)
TakeFlight ==
  /\ Arrived("client", "flight")
  /\ rx' = [rx EXCEPT !["client"] = Advance(@)]
  /\ pieces' = pieces \o Under(buf["client"]).content
  /\ UNCHANGED <<server, wires, pc, transcript, next, seen, secret, tx, mutex, session, talk>>

(* CertificateVerify signs the transcript through Certificate.             *)
Signed(m) == m.over = seen.cert

(* Finished authenticates the whole transcript before it.                  *)
Authentic(m) ==
  m = FinishedOf("server", Suite("client"), Hello("client"), transcript["client"])

(* One complete message of the flight.                                     *)
TakeMessage ==
  /\ pc["client"] = "flight" /\ Len(pieces) >= 2
  /\ pieces' = SubSeq(pieces, 3, Len(pieces))
  /\ LET m    == Head(pieces)
         here == Append(transcript["client"], m.name)
         good == (m.name = "CV" => Signed(m)) /\ (m.name = "Fin" => Authentic(m))
     IN  /\ transcript' = [transcript EXCEPT !["client"] = here]
         /\ seen' = [seen EXCEPT !.cert     = IF m.name = "Cert" THEN here ELSE @,
                                 !.asked    = @ \/ m.name = "Req",
                                 !.proven   = @ \/ m.name = "CV",
                                 !.finished = @ \/ m.name = "Fin"]
         /\ secret' = [secret EXCEPT !["client"] = IF m.name = "Fin" THEN here ELSE @]
         /\ IF good THEN UNCHANGED pc ELSE Goto("client", "failed")
  /\ UNCHANGED <<server, wires, buf, next, keys, mutex, session, talk>>

FlightOver == pc["client"] = "flight" /\ seen.finished /\ Len(pieces) < 2

(* The server must have signed, and its chain must lead to a trusted root  *)
(* unless the caller opted out of that (insecure).                         *)
Accepted == seen.proven /\ server.trusted

Reject ==
  /\ FlightOver /\ ~Accepted /\ Goto("client", "failed")
  /\ UNCHANGED <<server, wires, buf, handshake, keys, mutex, session, talk>>

ReplyUnlogged(over) == over

(* The empty Certificate counts in the transcript of the Finished.         *)
Reply(over) == Append(over, "Cert")

(* A certificate that was asked for is declined first.                     *)
Decline ==
  /\ FlightOver /\ Accepted /\ seen.asked
  /\ LET r == Seal(tx["client"], "handshake", Halves(Message("Cert", <<>>)))
     IN  \/ /\ SendAll("client", r) /\ Goto("client", "declined")
            /\ transcript' = [transcript EXCEPT !["client"] = Reply(@)]
         \/ SendCut("client", r) /\ Goto("client", "failed") /\ UNCHANGED transcript
  /\ tx' = [tx EXCEPT !["client"] = Advance(@)]
  /\ UNCHANGED <<server, buf, next, pieces, seen, secret, rx, mutex, session, talk>>

(* The client's Finished, then its session.                                *)
ClientFinish ==
  /\ (FlightOver /\ Accepted /\ ~seen.asked) \/ pc["client"] = "declined"
  /\ LET m == FinishedOf("client", Suite("client"), Hello("client"), transcript["client"])
         r == Seal(tx["client"], "handshake", Halves(m))
     IN  \/ SendAll("client", r) /\ Register("client")
         \/ SendCut("client", r) /\ Goto("client", "failed") /\ UNCHANGED keys
  /\ UNCHANGED <<server, buf, handshake, mutex, session, talk>>

-----------------------------------------------------------------------------
(* server_handshake()                                                      *)

TakeClientHello ==
  /\ Arrived("server", "hello") /\ Log("server", "CH") /\ Goto("server", "answer")
  /\ UNCHANGED <<server, wires, next, pieces, seen, secret, keys, mutex, session, talk>>

ServerHello ==
  /\ pc["server"] = "answer"
  /\ LET r == Plain("handshake", Message("SH", server.suite))
     IN  \/ /\ SendAll("server", r) /\ Log("server", "SH") /\ Goto("server", "change")
            /\ Schedule("server", server.suite)
         \/ SendCut("server", r) /\ Goto("server", "failed") /\ UNCHANGED <<transcript, keys>>
  /\ UNCHANGED <<server, buf, next, pieces, seen, secret, mutex, session, talk>>

(* Whether it was sent is not looked at.                                   *)
SendChange ==
  /\ pc["server"] = "change"
  /\ SendAll("server", Plain("ccs", None)) \/ SendCut("server", Plain("ccs", None))
  /\ Goto("server", "send")
  /\ UNCHANGED <<server, buf, handshake, keys, mutex, session, talk>>

(* The i-th message of the flight, with what it signs or authenticates.    *)
Compose(i) ==
  LET name == server.messages[i]
      over == Hello("server") \o SubSeq(server.messages, 1, i - 1)
  IN  CASE name = "CV"  -> Message("CV", over)
        [] name = "Fin" -> FinishedOf("server", Suite("server"), Hello("server"), over)
        [] OTHER        -> Message(name, <<>>)

(* The halves the records up to the n-th carry.                            *)
Upto(n) == IF n = 0 THEN 0 ELSE server.upto[n]

SendFlight ==
  /\ pc["server"] = "send"
  /\ LET from    == Upto(next - 1)
         content == [j \in 1 .. Upto(next) - from |-> Compose((from + j + 1) \div 2)]
         r       == Seal(tx["server"], "handshake", content)
         logged  == Hello("server") \o SubSeq(server.messages, 1, Upto(next) \div 2)
     IN  \/ /\ SendAll("server", r) /\ next' = next + 1
            /\ transcript' = [transcript EXCEPT !["server"] = logged]
            /\ IF next < Len(server.upto) THEN UNCHANGED <<pc, secret>>
               ELSE Goto("server", "finished") /\ secret' = [secret EXCEPT !["server"] = logged]
         \/ SendCut("server", r) /\ Goto("server", "failed") /\ UNCHANGED <<next, transcript, secret>>
  /\ tx' = [tx EXCEPT !["server"] = Advance(@)]
  /\ UNCHANGED <<server, buf, pieces, seen, rx, mutex, session, talk>>

Asks == \E i \in DOMAIN server.messages : server.messages[i] = "Req"

(* The client's Finished over the transcript so far, or nothing.  A server *)
(* that asked for a certificate hears of it first.                         *)
TakeClientFinished ==
  /\ Arrived("server", "finished")
  /\ LET m == Head(Under(buf["server"]).content)
         e == FinishedOf("client", Suite("server"), Hello("server"), transcript["server"])
     IN  \/ /\ m = e /\ Register("server") /\ UNCHANGED transcript
            /\ (Asks => Len(transcript["server"]) > Len(secret["server"]))
         \/ /\ m.name = "Cert" /\ Asks /\ Log("server", "Cert")
            /\ rx' = [rx EXCEPT !["server"] = Advance(@)] /\ UNCHANGED <<tx, pc>>
         \/ /\ m # e /\ ~(m.name = "Cert" /\ Asks)
            /\ Goto("server", "failed") /\ UNCHANGED <<transcript, keys>>
  /\ UNCHANGED <<server, wires, next, pieces, seen, secret, mutex, session, talk>>

(* What other servers send once the handshake is over.                     *)
AfterHandshake ==
  /\ pc["server"] = "open" /\ rest["server"] = <<>> /\ next = Len(server.upto) + 1
  /\ server.after # "nothing"
  /\ SendAll("server", Seal(tx["server"], "handshake", server.after))
  /\ tx' = [tx EXCEPT !["server"] = Advance(@)] /\ next' = next + 1
  /\ UNCHANGED <<server, pc, buf, transcript, pieces, seen, secret, rx, mutex, session, talk>>

-----------------------------------------------------------------------------
(* send()                                                                  *)

CallSend(e, n) ==
  /\ pc[e] = "open" /\ rest[e] = <<>> /\ mutex = None /\ ~closed[e] /\ said["client"] + said["server"] + n <= MaxSaid
  /\ rest' = [rest EXCEPT ![e] = [i \in 1 .. n |-> said[e] + i]]
  /\ said' = [said EXCEPT ![e] = @ + n]
  /\ UNCHANGED <<server, wires, pc, buf, handshake, keys, mutex, session, got>>

KeptAfterCut(k) == k

(* The sequence number has advanced when a send fails.                     *)
AfterCut(k) == Advance(k)

(* One record of the data; a failure drops what remains, and the session   *)
(* stays open.                                                             *)
SendPiece(e) ==
  /\ pc[e] = "open" /\ rest[e] # <<>>
  /\ LET n == IF Len(rest[e]) < MaxPlain THEN Len(rest[e]) ELSE MaxPlain
         r == Seal(tx[e], "app", SubSeq(rest[e], 1, n))
     IN  \/ /\ SendAll(e, r) /\ tx' = [tx EXCEPT ![e] = Advance(@)]
            /\ rest' = [rest EXCEPT ![e] = SubSeq(@, n + 1, Len(@))]
         \/ /\ SendCut(e, r) /\ tx' = [tx EXCEPT ![e] = AfterCut(@)]
            /\ rest' = [rest EXCEPT ![e] = <<>>]
  /\ UNCHANGED <<server, pc, buf, handshake, rx, mutex, session, said, got>>

-----------------------------------------------------------------------------
(* recv()                                                                  *)

CallRecv(e, n) ==
  /\ pc[e] = "open" /\ reader[e] = "idle" /\ mutex = None
  /\ reader' = [reader EXCEPT ![e] = "recv"] /\ want' = [want EXCEPT ![e] = n]
  /\ UNCHANGED <<server, wires, pc, buf, handshake, keys, mutex, pending, closed, ended, eof, talk>>

(* Enough to return, and nothing more to decrypt without blocking.         *)
Ready(e) ==
  \/ closed[e]
  \/ pending[e] # <<>> /\ (Len(pending[e]) >= want[e] \/ ~HasRecord(buf[e]))

InLoop(e) == reader[e] = "recv" /\ ~Ready(e)

ReadMore(e, k) ==
  /\ InLoop(e) /\ Receive(e, k)
  /\ UNCHANGED <<server, pc, handshake, keys, mutex, session, talk>>

End(e, how) == closed' = [closed EXCEPT ![e] = TRUE] /\ ended' = [ended EXCEPT ![e] = how]

StaysOpen(e) == UNCHANGED <<closed, ended>>

Closes(e) == End(e, "eof")

(* An empty read closes the session, and recv() returns "" at once: it     *)
(* does not read when it has data.                                         *)
EmptyRead(e) ==
  /\ InLoop(e) /\ Closes(e)
  /\ reader' = [reader EXCEPT ![e] = "idle"] /\ want' = [want EXCEPT ![e] = 0]
  /\ eof' = [eof EXCEPT ![e] = TRUE]
  /\ UNCHANGED <<server, pc, buf, handshake, keys, mutex, pending, talk>>

CutOff(e)    == Ended(e) /\ EmptyRead(e) /\ UNCHANGED wires
RecvGaveUp(e) == TimedOut(e) /\ EmptyRead(e)

TakeRecord(e) ==
  /\ InLoop(e) /\ HasRecord(buf[e]) /\ DropRecord(e)
  /\ rx' = [rx EXCEPT ![e] = IF Under(buf[e]).type = "data" THEN Advance(@) ELSE @]
  /\ LET r == Under(buf[e])
     IN  \/ r.type = "ccs" /\ UNCHANGED <<pending, closed, ended>>
         \/ r.type = "data" /\ ~Opens(rx[e], buf[e]) /\ End(e, "auth") /\ UNCHANGED pending
         \/ /\ r.type = "data" /\ Opens(rx[e], buf[e])
            /\ \/ /\ r.inner = "app" /\ UNCHANGED <<closed, ended>>
                  /\ pending' = [pending EXCEPT ![e] = @ \o r.content]
               \/ r.inner = "alert" /\ End(e, "notify") /\ UNCHANGED pending
               \/ /\ r.inner = "handshake" /\ UNCHANGED pending
                  /\ IF r.content = "update" THEN End(e, "update") ELSE UNCHANGED <<closed, ended>>
  /\ UNCHANGED <<server, wires, pc, handshake, tx, mutex, reader, want, eof, talk>>

NotCleared(p, n) == IF n = Len(p) THEN p ELSE SubSeq(p, n + 1, Len(p))

(* What stays pending: nothing when the whole buffer was moved out.        *)
Remainder(p, n) == SubSeq(p, n + 1, Len(p))

Return(e) ==
  /\ reader[e] = "recv" /\ Ready(e)
  /\ LET n == IF Len(pending[e]) < want[e] THEN Len(pending[e]) ELSE want[e]
     IN  /\ got' = [got EXCEPT ![e] = @ \o SubSeq(pending[e], 1, n)]
         /\ pending' = [pending EXCEPT ![e] = Remainder(@, n)]
         /\ eof' = [eof EXCEPT ![e] = @ \/ n = 0]
  /\ reader' = [reader EXCEPT ![e] = "idle"] /\ want' = [want EXCEPT ![e] = 0]
  /\ UNCHANGED <<server, wires, pc, buf, handshake, keys, mutex, closed, ended, rest, said>>

-----------------------------------------------------------------------------
(* shutdown(), close(), and the end of the socket                          *)

ShutDown(e) ==
  /\ pc[e] = "open" /\ rest[e] = <<>> /\ mutex = None /\ ~down[e]
  /\ down' = [down EXCEPT ![e] = TRUE]
  /\ UNCHANGED <<server, chan, faulty, pc, buf, handshake, keys, mutex, session, talk>>

(* The owner closes when no thread is in recv() any more.                  *)
CallClose(e) ==
  /\ pc[e] = "open" /\ rest[e] = <<>> /\ reader[e] = "idle" /\ mutex = None
  /\ mutex' = e /\ Goto(e, "closing")
  /\ UNCHANGED <<server, wires, buf, handshake, keys, session, talk>>

(* close_notify goes out with the registry locked; then the session is     *)
(* erased.                                                                 *)
Close(e) ==
  /\ pc[e] = "closing" /\ Goto(e, "closed") /\ mutex' = None
  /\ \/ closed[e] /\ UNCHANGED wires
     \/ /\ ~closed[e]
        /\ LET r == Seal(tx[e], "alert", "close_notify") IN SendAll(e, r) \/ SendCut(e, r)
  /\ tx' = [tx EXCEPT ![e] = None] /\ rx' = [rx EXCEPT ![e] = None]
  /\ buf' = [buf EXCEPT ![e] = <<>>] /\ pending' = [pending EXCEPT ![e] = <<>>]
  /\ closed' = [closed EXCEPT ![e] = FALSE] /\ ended' = [ended EXCEPT ![e] = "none"]
  /\ UNCHANGED <<server, handshake, reader, want, eof, talk>>

(* The socket is the caller's: it goes when the session is gone.           *)
CloseSocket(e) ==
  /\ pc[e] \in {"failed", "closed"} /\ ~down[e]
  /\ down' = [down EXCEPT ![e] = TRUE]
  /\ UNCHANGED <<server, chan, faulty, pc, buf, handshake, keys, mutex, session, talk>>

-----------------------------------------------------------------------------
Handshake ==
  \/ ClientHello \/ TakeServerHello \/ TakeFlight \/ TakeMessage \/ Reject
  \/ Decline \/ ClientFinish
  \/ TakeClientHello \/ ServerHello \/ SendChange \/ SendFlight \/ TakeClientFinished
  \/ \E e \in Ends : SkipChange(e) \/ GiveUp(e)
  \/ \E e \in Ends, k \in 1 .. Window : Fill(e, k)

(* The steps of a call that has begun.                                     *)
Calls(e) ==
  \/ SendPiece(e) \/ CutOff(e) \/ TakeRecord(e) \/ Return(e) \/ Close(e)
  \/ \E k \in 1 .. Window : ReadMore(e, k)

Program(e) ==
  \/ \E n \in Payloads : CallSend(e, n)
  \/ \E n \in Bufsizes : CallRecv(e, n)
  \/ ShutDown(e) \/ CallClose(e) \/ RecvGaveUp(e)

Next ==
  \/ Handshake \/ AfterHandshake
  \/ \E e \in Ends : Calls(e) \/ Program(e) \/ CloseSocket(e)

Spec == Init /\ [][Next]_vars

(* Every thread goes on with the call it is in, and calls recv() again.    *)
(* Nothing is assumed of a read's timeout.                                 *)
Fairness ==
  /\ WF_vars(Handshake)
  /\ \A e \in Ends : WF_vars(Calls(e)) /\ WF_vars(\E n \in Bufsizes : CallRecv(e, n))

FairSpec == Spec /\ Fairness
-----------------------------------------------------------------------------
(* What must hold                                                          *)

(* The buffers hold at most what one read of the socket adds to an         *)
(* incomplete record, and only sessions have keys for data.                *)
TypeOK ==
  /\ \A e \in Ends : Len(chan[e]) <= Window /\ Len(buf[e]) <= Window + 1
  /\ \A e \in Ends : pc[e] = "open" => tx[e].key[3] = secret[e] /\ Len(secret[e]) > 2
  /\ mutex \in Ends \cup {None} /\ (mutex # None => pc[mutex] = "closing")

Proves ==
  server.trusted /\ \E i \in DOMAIN server.messages : server.messages[i] = "CV"

(* As long as no send fails and no read times out, no handshake with a     *)
(* server that proves its identity fails - with any suite, any cut of its  *)
(* flight into records, asked for a certificate or not - and no record     *)
(* fails to authenticate; with one that does not there is no session       *)
(* (tls.cpp:640-1219, 250).                                                *)
OnlyFaultsHurt ==
  /\ \A e \in Ends : pc[e] = "failed" \/ ended[e] = "auth" => faulty \/ ~Proves
  /\ ~Proves => pc["client"] # "open"

InFlight(e) ==
  LET both == buf[Peer(e)] \o chan[Peer(e)]
  IN  Cardinality({i \in 1 .. Len(both) : both[i].part = "head" /\ both[i].of.type = "data"})

(* The two ends of an open connection use the same key for each direction, *)
(* and the reader's sequence number is behind by the records on the way    *)
(* (tls.cpp:233-250).                                                      *)
InStep ==
  \A e \in Ends :
    /\ pc["client"] = "open" /\ pc["server"] = "open"
    /\ ended[Peer(e)] # "auth"
    => /\ tx[e].key = rx[Peer(e)].key
       /\ faulty \/ tx[e].seq = rx[Peer(e)].seq + InFlight(e)

(* What recv() returns is what the peer passed to send(), in order and     *)
(* without a gap, also after sends that failed (tls.cpp:1231-1340).        *)
Genuine ==
  \A e \in Ends :
    LET all == got[e] \o pending[e]
    IN  Len(all) <= said[Peer(e)] /\ \A i \in DOMAIN all : all[i] = i

(* The data records of a session carry what was said: the ends agree on    *)
(* keys and sequence numbers, whatever was lost, split or left over.       *)
RecordsAreSound == TypeOK /\ InStep /\ Genuine

(* A close_notify that is accepted comes after everything the peer passed  *)
(* to send(): a send that failed never looks like an orderly end, because  *)
(* its sequence number is spent (tls.cpp:244).                             *)
OrderlyEndIsComplete ==
  \A e \in Ends : ended[e] = "notify" => Len(got[e] \o pending[e]) = said[Peer(e)]

(* Once recv() has returned "" - the end of the stream, or a timeout in    *)
(* the middle of a record - it never returns data again (tls.cpp:1294).    *)
EofIsFinal == [][\A e \in Ends : eof[e] => got'[e] = got[e]]_vars

(* A recv() comes back when either end shuts its socket down, whatever     *)
(* part of a record it waits for, without a timeout's help (tls.cpp:1355). *)
RecvReturns ==
  \A e \in Ends : (reader[e] = "recv" /\ \E f \in Ends : down[f]) ~> reader[e] = "idle"

(* With timeouts on the sockets, close() returns, and with it the mutex of *)
(* every other session's calls (tls.cpp:1342).                             *)
CloseReturns == \A e \in Ends : pc[e] = "closing" ~> pc[e] = "closed"

(* No call waits for ever.                                                 *)
CallsReturn == RecvReturns /\ CloseReturns

(* "Separate sessions are independent" (tls.hpp:130): what one end does in *)
(* close() never keeps the other end's calls waiting for ever.             *)
SessionsIndependent == mutex # None ~> mutex = None
=============================================================================
