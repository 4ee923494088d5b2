----------------------------- MODULE MCRequests -----------------------------
(***************************************************************************)
(* Two hosts, one of them over TLS, that redirect to each other and to     *)
(* themselves.                                                             *)
(***************************************************************************)
EXTENDS Requests

CONSTANTS bad, none, relative

home == [scheme |-> "http", host |-> "home", path |-> 1]
away == [scheme |-> "https", host |-> "away", path |-> 1]
MCUrls == {home, away}

Plain(f, n) == [status |-> 200, location |-> NoLocation, framing |-> f, units |-> n]
To(s, l) == [status |-> s, location |-> l, framing |-> "length", units |-> 0]
MCResponses ==
    {Plain("length", 2), Plain("length", 6), Plain("badlength", 1), Plain("chunked", 2),
     Plain("badchunk", 1), Plain("eof", 2), Plain("endless", 0),
     [Plain("eof", 0) EXCEPT !.status = 0], To(303, home), To(307, home), To(301, away),
     To(308, none), To(302, relative), To(302, bad)}
=============================================================================
