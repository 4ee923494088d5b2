------------------------------ MODULE WebSocket ------------------------------
(***************************************************************************)
(* One websocket client session: the upgrade, recv() with its read buffer  *)
(* and reassembly, the control frames it answers, shutdown() from another  *)
(* thread and close() after the reader was joined.                         *)
(*                                                                         *)
(* The stream is cut into cells: a frame is a head, an extended length if  *)
(* it is long, a key if it is masked, and its payload.  A read returns any *)
(* number of the cells that have arrived.  A faulty variant of an          *)
(* operator, used nowhere, stands before it.                               *)
(***************************************************************************)
EXTENDS Integers, Sequences, SequencesExt, FiniteSetsExt

CONSTANTS
  Frames,      \* the frames a server may send: [op, fin, len, masked, rsv]
  Responses,   \* how it may answer the upgrade: "switches", "refuses", "endless"
  MaxSent,     \* bound: how many frames it sends
  MaxTexts,    \* bound: how many texts the program sends
  MaxFrame,    \* max_frame: the cap on a frame's payload
  MaxMessage,  \* max_message: the cap on a reassembled message
  MaxControl,  \* kMaxControlPayload
  Short,       \* the longest payload whose length fits the head
  Chunk,       \* the most a read returns
  CompactAt,   \* the consumed prefix that is worth erasing
  MaxUpgrade   \* the longest upgrade response

Data    == {"text", "binary"}
Control == {"ping", "pong", "close"}

ASSUME WebSocketAssumption ==
  /\ Frames \subseteq [op : Data \cup Control \cup {"cont", "unknown"}, fin : BOOLEAN,
                       len : Nat, masked : BOOLEAN, rsv : BOOLEAN]
  /\ {MaxSent, MaxTexts, MaxFrame, MaxMessage, MaxControl, Short} \subseteq Nat
  /\ {Chunk, CompactAt, MaxUpgrade} \subseteq Nat \ {0} /\ MaxControl <= MaxFrame

VARIABLES
  response,   \* how the server answers the upgrade
  sent,       \* the frames the server has sent
  wire,       \* the cells on their way to the client
  link,       \* "up", "gone" (the peer closed), "reset" (sends fail)
  buf, pos,   \* Session::buf and pos
  closed,     \* Session::closed
  life,       \* the session: "new", "open", "freed"
  pc,         \* the reader: "idle", "upgrade", "head", "body", "done"
  message,    \* recv()'s reassembly buffer; not empty: fragmenting
  shut,       \* shutdown() was called
  answers,    \* the frames the client has sent
  delivered,  \* the messages recv() has returned
  outcome     \* how the last recv() ended

environment == <<response, sent, wire, link>>
session     == <<buf, pos, closed, life>>
results     == <<answers, delivered, outcome>>
vars        == <<environment, session, pc, message, shut, results>>

-----------------------------------------------------------------------------
(* Frames and cells                                                        *)

Cell(i, part, clear) == [frame |-> i, part |-> part, clear |-> clear]

Cells(i, f) ==
  <<Cell(i, "head", TRUE)>>
    \o (IF f.len > Short THEN <<Cell(i, "ext", TRUE)>> ELSE <<>>)
    \o (IF f.masked THEN <<Cell(i, "key", TRUE)>> ELSE <<>>)
    \o [n \in 1 .. f.len |-> Cell(i, "data", ~f.masked)]

HeadLen(f)  == IF f.len > Short THEN 2 ELSE 1
FrameLen(f) == Len(Cells(0, f))

UpgradeCells ==
  [n \in 1 .. (IF response = "endless" THEN MaxUpgrade + 1 ELSE 2) |->
     Cell(0, IF n = 2 /\ response # "endless" THEN "blank" ELSE "line", TRUE)]

Unread == Len(buf) - pos

(* The frame under the parse position.                                     *)
Number  == buf[pos + 1].frame
Current == sent[Number]

(* What recv() needs before its next step.                                 *)
Need == IF pc = "body" THEN FrameLen(Current)
        ELSE IF Unread = 0 THEN 1 ELSE HeadLen(Current)

InRecv  == pc \in {"head", "body"}
Starved == Unread < Need

Fragment(clear) == [frame |-> Number, clear |-> clear]

Size(m) ==
  LET total[n \in 0 .. Len(m)] ==
        IF n = 0 THEN 0 ELSE total[n - 1] + sent[m[n].frame].len
  IN  total[Len(m)]

Init ==
  /\ response \in Responses
  /\ sent = <<>> /\ wire = <<>> /\ link = "up"
  /\ buf = <<>> /\ pos = 0 /\ closed = FALSE /\ life = "new"
  /\ pc = "idle" /\ message = <<>> /\ shut = FALSE
  /\ answers = <<>> /\ delivered = <<>> /\ outcome = "none"

-----------------------------------------------------------------------------
(* The server and the network                                              *)

(* Frames may follow the upgrade response at once.                         *)
SendFrame(f) ==
  /\ link = "up" /\ response = "switches" /\ (pc = "upgrade" \/ life = "open")
  /\ Len(sent) < MaxSent
  /\ sent' = Append(sent, f)
  /\ wire' = wire \o Cells(Len(sent) + 1, f)
  /\ UNCHANGED <<response, link, session, pc, message, shut, results>>

PeerLeaves ==
  /\ link = "up" /\ life # "freed" /\ link' = "gone"
  /\ UNCHANGED <<response, sent, wire, session, pc, message, shut, results>>

(* sess_send() and its failure.  A peer that left takes what is sent until *)
(* its reset comes back; a socket that was shut down refuses at once.      *)
SendWorks(a) ==
  /\ ~shut /\ link # "reset"
  /\ answers' = Append(answers, a) /\ UNCHANGED link

SendFails ==
  /\ shut \/ link # "up"
  /\ link' = IF shut THEN link ELSE "reset"
  /\ UNCHANGED answers

Answer(op, p) == [op |-> op, payload |-> p]

-----------------------------------------------------------------------------
(* connect()                                                               *)

(* send_upgrade(); a failure destroys the session.                         *)
SendUpgrade ==
  /\ life = "new" /\ pc = "idle"
  /\ \/ link # "reset" /\ pc' = "upgrade" /\ UNCHANGED <<link, life>>
        /\ wire' = IF link = "up" THEN UpgradeCells ELSE <<>>
     \/ link # "up" /\ link' = "reset" /\ life' = "freed" /\ pc' = "done" /\ UNCHANGED wire
  /\ UNCHANGED <<response, sent, buf, pos, closed, message, shut, results>>

Take(k) == wire' = SubSeq(wire, k + 1, Len(wire))

UpgradeDone(b) == \E n \in DOMAIN b : b[n].part = "blank"
BlankAt(b)     == CHOOSE n \in DOMAIN b : b[n].part = "blank"

(* Reads until the blank line; what follows it stays in the buffer.        *)
ReadUpgrade(k) ==
  /\ pc = "upgrade" /\ k <= Len(wire)
  /\ Take(k)
  /\ LET b == buf \o SubSeq(wire, 1, k)
     IN  /\ buf' = b
         /\ CASE UpgradeDone(b) /\ response = "switches" ->
                   /\ pos' = BlankAt(b)
                   /\ pc' = "idle" /\ life' = "open"
              [] (UpgradeDone(b) /\ response # "switches") \/ (~UpgradeDone(b) /\ Len(b) > MaxUpgrade) ->
                   /\ pc' = "done" /\ life' = "freed" /\ UNCHANGED pos
              [] OTHER -> UNCHANGED <<pc, life, pos>>
  /\ UNCHANGED <<response, sent, link, closed, message, shut, results>>

UpgradeCutOff ==
  /\ pc = "upgrade" /\ wire = <<>> /\ link # "up"
  /\ pc' = "done" /\ life' = "freed"
  /\ UNCHANGED <<environment, buf, pos, closed, message, shut, results>>

-----------------------------------------------------------------------------
(* recv()                                                                  *)

(* A closed session returns "" without reading.                            *)
CallRecv ==
  /\ life = "open" /\ pc = "idle"
  /\ \/ closed /\ outcome' = "closed" /\ UNCHANGED <<pc, message>>
     \/ ~closed /\ pc' = "head" /\ message' = <<>> /\ UNCHANGED outcome
  /\ UNCHANGED <<environment, session, shut, answers, delivered>>

CompactAll(b, p) ==
  IF p > 0 /\ (p = Len(b) \/ p >= CompactAt)
  THEN [buf |-> <<>>, pos |-> 0]
  ELSE [buf |-> b, pos |-> p]

(* ensure() erases the consumed prefix only when it is all or large.       *)
Compact(b, p) ==
  IF p > 0 /\ (p = Len(b) \/ p >= CompactAt)
  THEN [buf |-> SubSeq(b, p + 1, Len(b)), pos |-> 0]
  ELSE [buf |-> b, pos |-> p]

(* ensure(): one round of its loop.                                        *)
Fill(k) ==
  /\ InRecv /\ Starved /\ k <= Len(wire)
  /\ LET c == Compact(buf, pos)
     IN  buf' = c.buf \o SubSeq(wire, 1, k) /\ pos' = c.pos
  /\ Take(k)
  /\ UNCHANGED <<response, sent, link, closed, life, pc, message, shut, results>>

Throw(how) == pc' = "idle" /\ outcome' = how /\ message' = <<>>

CutOffRetries ==
  /\ InRecv /\ Starved /\ wire = <<>> /\ (shut \/ link # "up")
  /\ outcome' = "lost"
  /\ UNCHANGED <<environment, session, pc, message, shut, answers, delivered>>

(* An empty read: the peer has gone, or shutdown() has cut us off.         *)
CutOff ==
  /\ InRecv /\ Starved /\ wire = <<>> /\ (shut \/ link # "up")
  /\ LET c == Compact(buf, pos) IN buf' = c.buf /\ pos' = c.pos
  /\ Throw("lost")
  /\ UNCHANGED <<environment, closed, life, shut, answers, delivered>>

Flawed(f) ==
  \/ f.rsv
  \/ f.op \in Control /\ (f.len > MaxControl \/ ~f.fin)
  \/ f.len > MaxFrame

(* The head is validated before its length is trusted.                     *)
CheckHead ==
  /\ pc = "head" /\ ~Starved
  /\ IF Flawed(Current) THEN Throw("refused")
     ELSE pc' = "body" /\ UNCHANGED <<message, outcome>>
  /\ UNCHANGED <<environment, session, shut, answers, delivered>>

(* A masked payload is unmasked where it lies.                             *)
Unmask(b) ==
  IF Current.masked
  THEN [n \in DOMAIN b |->
          IF n \in pos + 1 .. pos + FrameLen(Current) /\ b[n].part = "data"
          THEN [b[n] EXCEPT !.clear = ~@] ELSE b[n]]
  ELSE b

Consume == pos' = pos + FrameLen(Current)

NextFrame == pc' = "head" /\ UNCHANGED outcome

Payload == Fragment(\A n \in pos + 1 .. pos + FrameLen(Current) : Unmask(buf)[n].clear)

PingIgnored(p) ==
  /\ Current.op = "ping"
  /\ Consume /\ NextFrame
  /\ UNCHANGED <<link, answers, message, closed, delivered>>

(* A ping is answered before anything after it is looked at.               *)
Ping(p) ==
  /\ Current.op = "ping"
  /\ \/ SendWorks(Answer("pong", p)) /\ Consume /\ NextFrame /\ UNCHANGED message
     \/ SendFails /\ Throw("lost") /\ UNCHANGED pos
  /\ UNCHANGED <<closed, delivered>>

Pong ==
  /\ Current.op = "pong"
  /\ Consume /\ NextFrame
  /\ UNCHANGED <<link, answers, message, closed, delivered>>

(* The close is echoed, and the session stays closed.                      *)
PeerClose(p) ==
  /\ Current.op = "close"
  /\ \/ SendWorks(Answer("close", p)) /\ Consume /\ closed' = TRUE /\ Throw("closed")
     \/ SendFails /\ Throw("lost") /\ UNCHANGED <<pos, closed>>
  /\ UNCHANGED delivered

Return(m) ==
  /\ delivered' = Append(delivered, m)
  /\ pc' = "idle" /\ outcome' = "message" /\ message' = <<>>

(* A data frame: a whole message, or the first fragment of one.            *)
DataFrame(p) ==
  /\ Current.op \in Data
  /\ CASE message # <<>> -> Throw("interleaved") /\ UNCHANGED <<pos, delivered>>
       [] message = <<>> /\ Current.fin -> Consume /\ Return(<<p>>)
       [] OTHER -> Consume /\ message' = <<p>> /\ NextFrame /\ UNCHANGED delivered
  /\ UNCHANGED <<link, answers, closed>>

(* A fragment of no message, or one too many.                              *)
Unwelcome == message = <<>> \/ Size(message) + Current.len > MaxMessage

StraySkipped(p) ==
  /\ Current.op = "cont"
  /\ CASE Unwelcome ->
            Throw("refused") /\ Consume /\ UNCHANGED delivered
       [] ~Unwelcome /\ Current.fin ->
            Consume /\ Return(Append(message, p))
       [] OTHER -> Consume /\ message' = Append(message, p) /\ NextFrame /\ UNCHANGED delivered
  /\ UNCHANGED <<link, answers, closed>>

(* A continuation: the last fragment returns the message.                  *)
Continue(p) ==
  /\ Current.op = "cont"
  /\ CASE Unwelcome ->
            Throw("refused") /\ UNCHANGED <<pos, delivered>>
       [] ~Unwelcome /\ Current.fin ->
            Consume /\ Return(Append(message, p))
       [] OTHER -> Consume /\ message' = Append(message, p) /\ NextFrame /\ UNCHANGED delivered
  /\ UNCHANGED <<link, answers, closed>>

Unknown ==
  /\ Current.op = "unknown"
  /\ Throw("refused")
  /\ UNCHANGED <<link, answers, pos, closed, delivered>>

(* The whole frame is in the buffer: unmask it and act on its opcode.      *)
Process ==
  /\ pc = "body" /\ ~Starved
  /\ buf' = Unmask(buf)
  /\ Ping(Payload) \/ Pong \/ PeerClose(Payload) \/ DataFrame(Payload) \/ Continue(Payload) \/ Unknown
  /\ UNCHANGED <<response, sent, wire, life, shut>>

-----------------------------------------------------------------------------
(* The program                                                             *)

(* send_text(), by the thread that reads; a failure throws.                *)
SendText ==
  /\ life = "open" /\ pc = "idle"
  /\ Len(SelectSeq(answers, LAMBDA a : a.op = "text")) < MaxTexts
  /\ SendWorks(Answer("text", [frame |-> 0, clear |-> TRUE])) \/ SendFails
  /\ UNCHANGED <<response, sent, wire, session, pc, message, shut, delivered, outcome>>

(* shutdown(), from any thread while the session lives.                    *)
Shutdown ==
  /\ life = "open" /\ ~shut /\ shut' = TRUE
  /\ UNCHANGED <<environment, session, pc, message, results>>

(* The reader goes home, to be joined.                                     *)
StopReading ==
  /\ life = "open" /\ pc = "idle" /\ pc' = "done"
  /\ UNCHANGED <<environment, session, message, shut, results>>

(* close(), or the guard's destructor: a best-effort close frame unless    *)
(* the peer's was echoed, and the session is freed.                        *)
CloseSession ==
  /\ life = "open" /\ pc = "done"
  /\ \/ closed /\ UNCHANGED <<link, answers>>
     \/ ~closed /\ (SendWorks(Answer("close", [frame |-> 0, clear |-> TRUE])) \/ SendFails)
  /\ life' = "freed"
  /\ UNCHANGED <<response, sent, wire, buf, pos, closed, pc, message, shut, delivered, outcome>>

Next ==
  \/ \E f \in Frames : SendFrame(f)
  \/ PeerLeaves
  \/ SendUpgrade \/ UpgradeCutOff
  \/ \E k \in 1 .. Chunk : ReadUpgrade(k) \/ Fill(k)
  \/ CallRecv \/ CutOff \/ CheckHead \/ Process
  \/ SendText \/ Shutdown \/ StopReading \/ CloseSession

Spec == Init /\ [][Next]_vars

(* The system runs a thread whose read can return.                         *)
FairSpec ==
  Spec /\ WF_vars(CutOff \/ CheckHead \/ Process \/ \E k \in 1 .. Chunk : Fill(k))

-----------------------------------------------------------------------------
(* Properties                                                              *)

Payloads == [frame : 0 .. MaxSent, clear : BOOLEAN]

(* The shape of the state.                                                 *)
TypeOK ==
  /\ response \in Responses /\ link \in {"up", "gone", "reset"}
  /\ sent \in Seq(Frames) /\ Len(sent) <= MaxSent
  /\ pos \in 0 .. Len(buf)
  /\ closed \in BOOLEAN /\ shut \in BOOLEAN /\ life \in {"new", "open", "freed"}
  /\ pc \in {"idle", "upgrade", "head", "body", "done"}
  /\ message \in Seq(Payloads)
  /\ outcome \in {"none", "message", "closed", "lost", "refused", "interleaved"}

(* The frames that were parsed to their end.                               *)
Consumed == 1 .. (IF Unread > 0 THEN Number - 1
                  ELSE IF wire = <<>> THEN Len(sent) ELSE wire[1].frame - 1)

(* The messages of a sequence of frames, whatever is between them: runs of *)
(* fragments, from a data frame to a final one, with only control frames   *)
(* in between.                                                             *)
Message(m) ==
  /\ sent[m[1]].op \in Data
  /\ \A n \in 2 .. Len(m) : sent[m[n]].op = "cont"
  /\ \A n \in DOMAIN m : sent[m[n]].fin <=> n = Len(m)
  /\ \A n \in 1 .. Len(m) - 1 : m[n] < m[n + 1]
  /\ \A i \in m[1] .. m[Len(m)] : (\E n \in DOMAIN m : m[n] = i) \/ sent[i].op \in Control

Numbers(m)  == [n \in DOMAIN m |-> m[n].frame]
FramesOf(m) == {m[n].frame : n \in DOMAIN m}

(* recv() returns whole messages of the server, unmasked, in order and     *)
(* each once, however the stream is cut and whatever failed before.        *)
Genuine ==
  /\ \A k \in DOMAIN delivered :
       Message(Numbers(delivered[k])) /\ \A n \in DOMAIN delivered[k] : delivered[k][n].clear
  /\ \A k \in 1 .. Len(delivered) - 1 :
       Last(delivered[k]).frame < Head(delivered[k + 1]).frame
  /\ \A k \in DOMAIN delivered : Size(delivered[k]) <= Max({MaxFrame, MaxMessage})

(* The frames i .. j hold one message, and i and j are its ends.           *)
Complete(i, j) ==
  /\ i <= j /\ sent[i].op \in Data /\ sent[j].op \notin Control
  /\ \A n \in i + 1 .. j : sent[n].op \in Control \cup {"cont"}
  /\ \A n \in i .. j : sent[n].op \notin Control => (sent[n].fin <=> n = j)

Fragments(i, j) == {n \in i .. j : sent[n].op \notin Control}

(* No message is skipped: when all its frames were consumed it has been    *)
(* returned, whatever recv() threw in between.                             *)
NothingLost ==
  life = "open" =>
    \A i, j \in Consumed : Complete(i, j) => \E k \in DOMAIN delivered : FramesOf(delivered[k]) = Fragments(i, j)

(* Every ping that was consumed was answered once, in order, with its own  *)
(* payload; a ping that was not consumed was not answered.                 *)
IsPong(n) == answers[n].op = "pong"

PongsInOrder ==
  life = "open" =>
    /\ \A i \in Consumed : sent[i].op = "ping" => \E n \in DOMAIN answers : IsPong(n) /\ answers[n].payload.frame = i
    /\ \A n \in DOMAIN answers : IsPong(n) =>
         /\ answers[n].payload.clear
         /\ answers[n].payload.frame \in Consumed /\ sent[answers[n].payload.frame].op = "ping"
    /\ \A n, m \in DOMAIN answers : IsPong(n) /\ IsPong(m) /\ n < m => answers[n].payload.frame < answers[m].payload.frame

(* The closing handshake is made once, by recv() or by close().            *)
CloseOnce ==
  \A i, j \in DOMAIN answers : answers[i].op = "close" /\ answers[j].op = "close" => i = j

(* Control frames are answered as RFC 6455 asks, between and inside        *)
(* messages, whatever failed before.                                       *)
ControlAnswered == PongsInOrder /\ CloseOnce

(* The read buffer is reused, not grown: it never holds more than one      *)
(* frame, one read and a prefix too small to erase.                        *)
BufferBounded ==
  InRecv => Len(buf) <= CompactAt + MaxFrame + Chunk + 1

(* Exactly the server's messages come out of a buffer that is compacted    *)
(* between frames and stays bounded (websocket.cpp, the erase of the       *)
(* prefix).                                                                *)
MessagesAreSound == TypeOK /\ Genuine /\ NothingLost /\ BufferBounded

(* A server does not mask its data (RFC 6455, 5.1).  The code takes masked *)
(* frames too, but one that is refused inside a fragmented message and     *)
(* parsed again would be unmasked twice.                                   *)
DataUnmasked == \A f \in Frames : f.op \in Data => ~f.masked

(* A frame that recv() refused is refused for good: nothing behind it is   *)
(* ever delivered.                                                         *)
StaysRefused == [][outcome = "refused" => delivered' = delivered]_vars

(* recv() comes back once a message is complete, the peer has gone, or     *)
(* another thread has called shutdown().                                   *)
Owed == \E j \in DOMAIN sent \ Consumed : sent[j].fin /\ sent[j].op \notin Control

RecvReturns == InRecv /\ (shut \/ link # "up" \/ Owed) ~> ~InRecv

(* shutdown() wakes a blocked reader, whose recv() returns "".             *)
WakesQuietly == [][CutOff /\ shut /\ link = "up" => outcome' # "lost"]_vars

(* A malformed frame fails the connection: no later recv() delivers.       *)
FailsTheConnection ==
  [][(outcome \in {"refused", "interleaved"}) => delivered' = delivered]_vars

=============================================================================
