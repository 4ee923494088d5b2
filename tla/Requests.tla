------------------------------ MODULE Requests ------------------------------
(***************************************************************************)
(* The HTTP client `requests': one call of request() follows redirects,    *)
(* each hop on a connection of its own that is opened, optionally          *)
(* upgraded by TLS, written to, read to its end and closed. The servers    *)
(* are the environment: they answer with any response of a small set, cut  *)
(* anywhere, by a close or by falling silent (the socket timeout), may     *)
(* never stop sending, and over TLS may hold the call in a loop for ever.  *)
(*                                                                         *)
(* The bytes of a response are tokens: a head, then body units 1, 2, ...   *)
(* in the order sent, with a size line before and a CRLF after every chunk *)
(* of a chunked body. Every token counts as one byte of the size limit.    *)
(***************************************************************************)
EXTENDS Integers, Sequences

CONSTANTS Urls,          \* [scheme, host, path] of the URLs that parse
          BadUrl,        \* a URL that does not
          NoLocation, RelativeLocation,   \* a missing, an unsupported Location
          Responses,     \* what a server may answer: [status, location, framing, units]
          Methods,
          MaxRedirects,  \* o.max_redirects
          MaxBytes,      \* o.max_bytes
          Piece          \* the most one recv returns

\* The empty strings of the code: no host yet, no error.
NoHost == "none"
Ok == "ok"

ASSUME RequestsAssumption ==
    /\ MaxRedirects \in Nat \ {0} /\ MaxBytes \in Nat \ {0} /\ Piece \in Nat \ {0}
    /\ {BadUrl, NoLocation, RelativeLocation} \intersect Urls = {}
    /\ \A u \in Urls : u.host # NoHost  \* Url::parse refuses an empty host
    /\ \A r \in Responses :
          /\ r.status \in Nat /\ r.units \in Nat
          /\ r.location \in Urls \union {BadUrl, NoLocation, RelativeLocation}

VARIABLES call,      \* the running request(): its step and locals
          fd, conn,  \* the socket and the TLS session of this hop are open
          stream,    \* what the server has yet to send on this connection
          said,      \* the response it is sending
          raw,       \* what read_all has gathered
          result,    \* the Response returned
          sent       \* history: <<host, credentials>> of every request written

vars == <<call, fd, conn, stream, said, raw, result, sent>>

-----------------------------------------------------------------------------
(***************************************************************************)
(* A response on the wire.                                                 *)
(***************************************************************************)
HeadOf(r) == [t |-> "head", r |-> r]
Size(n) == [t |-> "size", n |-> n]
Unit(i) == [t |-> "unit", n |-> i]
CrLf == [t |-> "crlf"]

Units(r) == [i \in 1 .. r.units |-> Unit(i)]

\* One unit per chunk, and the chunk of size 0.
Chunks(r) ==
    [i \in 1 .. 3 * r.units + 1 |->
        CASE i % 3 = 1 -> Size(IF i > 3 * r.units THEN 0 ELSE 1)
          [] i % 3 = 2 -> Unit((i + 1) \div 3)
          [] i % 3 = 0 -> CrLf]

OnTheWire(r) ==
    CASE r.framing = "chunked" -> <<HeadOf(r)>> \o Chunks(r)
      [] r.framing = "badchunk" -> <<HeadOf(r), Size(-1), Unit(1)>>
      [] OTHER -> <<HeadOf(r)>> \o Units(r)

(***************************************************************************)
(* Parsing what arrived.                                                   *)
(***************************************************************************)
Failed(why, status) == [error |-> why, status |-> status, body |-> << >>, location |-> NoLocation]
Got(r, body) == [error |-> Ok, status |-> r.status, body |-> body, location |-> r.location]

\* Mutant: a stream that ends between two chunks counts as the end of the body.
DechunkToTheEnd(r, s) ==
    LET from[pos \in 1 .. Len(s) + 1] ==
            IF pos > Len(s) THEN Got(r, << >>)
            ELSE IF s[pos].t # "size" \/ s[pos].n < 0 \/ Len(s) < pos + s[pos].n
                 THEN Failed("malformed chunk size", r.status)
            ELSE IF s[pos].n = 0 THEN Got(r, << >>)
            ELSE IF Len(s) < pos + s[pos].n + 1 THEN Got(r, SubSeq(s, pos + 1, pos + s[pos].n))
            ELSE Got(r, SubSeq(s, pos + 1, pos + s[pos].n) \o from[pos + s[pos].n + 2].body)
    IN  from[1]

\* dechunk, from pos on: size line, that many units, CRLF, until the size 0; trailers are
\* not read.
FromChunk(r, s, from, pos) ==
    IF pos > Len(s) \/ s[pos].t # "size" THEN Failed("cut", r.status)
    ELSE IF s[pos].n < 0 THEN Failed("malformed chunk size", r.status)
    ELSE IF s[pos].n = 0 THEN Got(r, << >>)
    ELSE IF Len(s) < pos + s[pos].n + 1 THEN Failed("cut", r.status)
    ELSE LET rest == from[pos + s[pos].n + 2]
         IN  IF rest.error # Ok THEN rest
             ELSE Got(r, SubSeq(s, pos + 1, pos + s[pos].n) \o rest.body)

Dechunk(r, s) ==
    LET from[pos \in 1 .. Len(s) + 1] == FromChunk(r, s, from, pos)
    IN  from[1]

\* parse_response: no head, a malformed status; HEAD carries no body; then chunked, then
\* Content-Length (declared: invalid, over the limit, or not all there), then all to the end.
ParseResponse(s, method) ==
    IF s = << >> THEN Failed("no head", 0)
    ELSE LET r == s[1].r
             body == Tail(s)
         IN  IF r.status = 0 THEN Failed("malformed status", 0)
             ELSE IF method = "HEAD" THEN Got(r, << >>)
             ELSE IF r.framing \in {"chunked", "badchunk"} THEN Dechunk(r, body)
             ELSE IF r.framing = "length" THEN
                      IF r.units > MaxBytes THEN Failed("over the limit", r.status)
                      ELSE IF Len(body) < r.units THEN Failed("cut", r.status)
                      ELSE Got(r, SubSeq(body, 1, r.units))
             ELSE IF r.framing = "badlength" THEN Failed("invalid length", r.status)
             ELSE Got(r, body)

-----------------------------------------------------------------------------
NoCall == [pc |-> "idle", method |-> "GET", url |-> BadUrl, hop |-> 0, origin |-> NoHost,
           creds |-> FALSE, follow |-> TRUE, hist |-> << >>]
NoResult == [error |-> "none", status |-> 0, body |-> << >>, location |-> NoLocation]

Init ==
    /\ call = NoCall
    /\ fd = FALSE /\ conn = FALSE
    /\ stream = << >> /\ said = NoResult /\ raw = << >>
    /\ result = NoResult
    /\ sent = {}

Goto(pc) == call' = [call EXCEPT !.pc = pc]

Return(r) ==
    /\ result' = r
    /\ Goto("done")


\* Every way out of request_once closes the session and the socket.
CloseBoth == fd' = FALSE /\ conn' = FALSE

\* request(): a private copy of the options; at most 5 redirects unless told otherwise.
Call(m, url, creds, follow) ==
    /\ call.pc = "idle"
    /\ call' = [NoCall EXCEPT !.pc = "hop", !.method = m, !.url = url,
                              !.creds = creds, !.follow = follow]
    /\ UNCHANGED <<fd, conn, stream, said, raw, result, sent>>

\* Mutant: the options keep their credentials over every hop.
StripNothing(host) == call.creds

\* strip_sensitive, on a hop to a host that is not the one the call began with.
StripSensitive(host) == call.creds /\ (call.origin = NoHost \/ call.origin = host)

\* The head of the redirect loop.
BeginHop ==
    /\ call.pc = "hop"
    /\ \/ /\ call.hop > MaxRedirects
          /\ Return(Failed("too many redirects", 0))
       \/ /\ call.hop <= MaxRedirects
          /\ call.url = BadUrl
          /\ Return(Failed("malformed URL", 0))
       \/ /\ call.hop <= MaxRedirects
          /\ call.url # BadUrl
          /\ call' = [call EXCEPT !.pc = "connect", !.creds = StripSensitive(call.url.host),
                                  !.origin = IF @ = NoHost THEN call.url.host ELSE @]
          /\ UNCHANGED result
    /\ UNCHANGED <<fd, conn, stream, said, raw, sent>>

Connect ==
    /\ call.pc = "connect"
    /\ \/ /\ fd' = TRUE
          /\ Goto(IF call.url.scheme = "https" THEN "tls" ELSE "send")
          /\ UNCHANGED result
       \/ Return(Failed("connect", 0)) /\ UNCHANGED fd
    /\ UNCHANGED <<conn, stream, said, raw, sent>>

\* tls::open owns no socket: when it fails the caller closes the descriptor itself.
Handshake ==
    /\ call.pc = "tls"
    /\ \/ conn' = TRUE /\ Goto("send") /\ UNCHANGED <<fd, result>>
       \/ Return(Failed("tls", 0)) /\ fd' = FALSE /\ UNCHANGED conn
    /\ UNCHANGED <<stream, said, raw, sent>>

\* Build and write the request; a control byte in it refuses it, a failed send ends the hop.
Send ==
    /\ call.pc = "send"
    /\ UNCHANGED raw
    /\ \/ /\ Return(Failed("refused: control bytes", 0))
          /\ CloseBoth
          /\ UNCHANGED <<stream, said, sent>>
       \/ /\ sent' = sent \union {<<call.url.host, call.creds>>}
          /\ \/ /\ \E r \in Responses : \E cut \in 0 .. Len(OnTheWire(r)) :
                      /\ said' = r
                      /\ stream' = SubSeq(OnTheWire(r), 1, cut)
                /\ Goto("read")
                /\ UNCHANGED <<fd, conn, result>>
             \/ /\ Return(Failed("send failed", 0))
                /\ CloseBoth
                /\ UNCHANGED <<stream, said>>

\* read_all: a piece arrived, and reading stops only once more than the limit is there.
Recv ==
    /\ call.pc = "read"
    /\ \E n \in 1 .. Piece :
          /\ n <= Len(stream)
          /\ raw' = raw \o SubSeq(stream, 1, n)
          /\ stream' = SubSeq(stream, n + 1, Len(stream))
    /\ Goto(IF Len(raw') > MaxBytes THEN "parse" ELSE "read")
    /\ UNCHANGED <<fd, conn, said, result, sent>>

\* A server that never stops: another unit whenever it has run out.
Babble ==
    /\ call.pc = "read"
    /\ said.framing = "endless"
    /\ stream = << >>
    /\ stream' = <<IF raw = << >> THEN HeadOf(said) ELSE Unit(Len(raw))>>
    /\ UNCHANGED <<call, fd, conn, said, raw, result, sent>>

\* recv returned "": the peer closed, or nothing came within timeout_ms.
EndOfStream ==
    /\ call.pc = "read"
    /\ Goto("parse")
    /\ stream' = << >>
    /\ UNCHANGED <<fd, conn, said, raw, result, sent>>

\* Over TLS the handshake and recv loop over the records they ignore, and neither a counter
\* nor the socket's timeout ends that: a server that sends one in time, again and again,
\* holds the call.
Hold ==
    /\ call.pc \in {"tls", "read"}
    /\ call.url.scheme = "https"
    /\ Goto("held")
    /\ UNCHANGED <<fd, conn, stream, said, raw, result, sent>>

Redirects(r) == r.error = Ok /\ r.status \in {301, 302, 303, 307, 308}

\* The method of the next hop.
NextMethod(m, status) ==
    IF status = 303 \/ (status \in {301, 302} /\ m = "POST") THEN "GET" ELSE m

Answer == IF Len(raw) > MaxBytes THEN Failed("over the limit", 0)
          ELSE ParseResponse(raw, call.method)

\* Mutants: the hop recorded after the URL has moved; one to the same URL not counted.
FollowLate(r) ==
    [call EXCEPT !.pc = "hop", !.url = r.location, !.hop = @ + 1,
                 !.method = NextMethod(@, r.status), !.hist = Append(@, <<r.location, r.location>>)]
FollowUncounted(r) ==
    IF r.location = call.url THEN [call EXCEPT !.pc = "hop", !.method = NextMethod(@, r.status)]
    ELSE [call EXCEPT !.pc = "hop", !.url = r.location, !.hop = @ + 1,
                      !.method = NextMethod(@, r.status), !.hist = Append(@, <<call.url, r.location>>)]

\* The next hop: recorded, counted, aimed at the Location.
Follow(r) ==
    [call EXCEPT !.pc = "hop", !.url = r.location, !.hop = @ + 1,
                 !.method = NextMethod(@, r.status), !.hist = Append(@, <<call.url, r.location>>)]

Finish ==
    /\ call.pc = "parse"
    /\ CloseBoth
    /\ raw' = << >>
    /\ \/ /\ ~call.follow \/ ~Redirects(Answer)
          /\ Return(Answer)
       \/ /\ call.follow /\ Redirects(Answer)
          /\ Answer.location \in {NoLocation, RelativeLocation}
          /\ Return(Failed("location", Answer.status))
       \/ /\ call.follow /\ Redirects(Answer)
          /\ Answer.location \notin {NoLocation, RelativeLocation}
          /\ call' = Follow(Answer)
          /\ UNCHANGED result
    /\ UNCHANGED <<stream, said, sent>>

Step == BeginHop \/ Connect \/ Handshake \/ Send \/ Recv \/ EndOfStream \/ Finish

Next ==
    \/ \E m \in Methods, url \in Urls \union {BadUrl}, creds, follow \in BOOLEAN :
          Call(m, url, creds, follow)
    \/ Step
    \/ Babble
    \/ Hold

(***************************************************************************)
(* Fairness: the thread that called request() runs on. The kernel bounds   *)
(* the connect, which comes before the timeout is set; the timeout bounds  *)
(* every receive and send after it, and so every step: the tokens of a     *)
(* response and the records of a flight are finitely many unless the       *)
(* server chooses Babble or Hold. Nothing is assumed of the servers.       *)
(***************************************************************************)
Spec == Init /\ [][Next]_vars /\ WF_vars(Step)

-----------------------------------------------------------------------------
\* The call's state has the expected shape and descriptors are open only inside a hop.
TypeOK ==
    /\ call.pc \in {"idle", "hop", "connect", "tls", "send", "read", "held", "parse", "done"}
    /\ call.hop \in 0 .. MaxRedirects + 1
    /\ call.method \in Methods \union {"GET"}
    /\ Len(raw) <= MaxBytes + Piece
    /\ fd => call.pc \in {"tls", "send", "read", "held", "parse"}
    /\ conn => fd

\* A response without error and with a declared length is the one the server sent, whole
\* and in order, wherever the connection was cut ("connection closed before the complete
\* body arrived").
WholeOrError ==
    (call.pc = "done" /\ result.error = Ok /\ call.method # "HEAD"
        /\ said.framing \in {"length", "chunked"})
    => result.status = said.status /\ result.body = Units(said)

\* Credentials reach no host but the one the call was made to, over any chain of
\* redirects, back to it included.
SecretsStayHome ==
    \A s \in sent : s[2] => s[1] = call.origin

\* The history is the chain that was followed: each hop's Location is the next hop's URL,
\* the last one the URL the answer came from, and no hop is made past the bound.
HistoryIsTheChain ==
    /\ Len(call.hist) = call.hop
    /\ \A i \in 1 .. Len(call.hist) - 1 : call.hist[i][2] = call.hist[i + 1][1]
    /\ call.hist # << >> => call.hist[Len(call.hist)][2] = call.url
    /\ call.pc \in {"connect", "tls", "send", "read", "held", "parse"} => call.hop <= MaxRedirects

\* A call's bookkeeping over its hops is sound.
ChainIsSound == TypeOK /\ HistoryIsTheChain

\* The call returns with its descriptors closed although the servers cut, fall silent,
\* redirect in a circle or send for ever, unless one of them holds it in TLS (Hold); over
\* plain http nothing a server does keeps the call.
Returns ==
    (call.pc = "hop")
        ~> \/ call.pc = "done" /\ ~fd /\ ~conn
           \/ call.pc = "held" /\ fd /\ call.url.scheme = "https"

\* "transport failures (DNS, refused, timeout, malformed URL/response)" set error
\* (src/stdlib/requests/requests.hpp:122): an answer without error is one that arrived whole.
TimeoutIsAnError ==
    (call.pc = "done" /\ result.error = Ok /\ call.method # "HEAD" /\ said.framing = "eof")
    => result.body = Units(said)
=============================================================================
