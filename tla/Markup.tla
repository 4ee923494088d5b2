------------------------------- MODULE Markup -------------------------------
(* The parsers of src/stdlib/parsers that read text typed by people: xml, html and
   url.  A text is a sequence of characters; a run of letters that no rule looks
   into is one character ("amp", "script"), and a function from a name's characters
   to what it means stands for each table. *)
EXTENDS Integers, SequencesExt

CONSTANTS Space, NameStart, NameChar,    \* classes of characters
          Lower,             \* the upper-case characters and their lower case
          DigitOf,           \* the value of a hexadecimal digit
          XmlEntity, HtmlEntity,   \* a name, as a sequence -> the character it stands for
          Character,         \* a code point -> its character (append_utf8)
          MaxCode,           \* 0x10FFFF
          Window             \* the longest body of a reference: 32

Quotes == {"\"", "'"}
At(s, i) == IF i \in DOMAIN s THEN s[i] ELSE "end"
While(s, i, C) == Min({j \in i .. Len(s) + 1 : At(s, j) \notin C})
Until(s, i, C) == Min({j \in i .. Len(s) + 1 : j > Len(s) \/ s[j] \in C})
Here(s, i, lit) == i + Len(lit) - 1 <= Len(s) /\ SubSeq(s, i, i + Len(lit) - 1) = lit
Find(s, i, lit) == {j \in i .. Len(s) : Here(s, j, lit)}
Stop(s, i, lit) == Min(Find(s, i, lit) \union {Len(s) + 1})
Past(s, i, lit) == IF Find(s, i, lit) = {} THEN Len(s) + 1 ELSE Stop(s, i, lit) + Len(lit)
Between(s, i, j) == SubSeq(s, i, j - 1)
Lowered(s) == [i \in DOMAIN s |-> IF s[i] \in DOMAIN Lower THEN Lower[s[i]] ELSE s[i]]

-----------------------------------------------------------------------------
(* Character references. *)

Numeric(body) ==             \* the character, if body is a # and a number that is one
    LET hex == At(body, 2) \in {"x", "X"}
        base == IF hex THEN 16 ELSE 10
        digits == SubSeq(body, IF hex THEN 3 ELSE 2, Len(body))
        cp == FoldLeft(LAMBDA v, d : base * v + DigitOf[d], 0, digits)
    IN  IF digits = <<>> \/ \E d \in ToSet(digits) : d \notin DOMAIN DigitOf \/ DigitOf[d] >= base THEN {}
        ELSE IF cp = 0 \/ cp > MaxCode THEN {} ELSE {Character[cp]}
DecodeReference(body, entity) ==
    CASE body = <<>> -> {}
      [] At(body, 1) = "#" -> Numeric(body)
      [] OTHER -> {entity[b] : b \in {body} \intersect DOMAIN entity}

RECURSIVE Decode(_, _)
Decode(s, entity) ==         \* xml decode, html unescape
    IF s = <<>> THEN <<>>
    ELSE LET semi == Find(s, 2, <<";">>)
             body == SubSeq(s, 2, Min(semi) - 1)
             found == IF s[1] # "&" \/ semi = {} \/ Len(body) > Window THEN {} ELSE DecodeReference(body, entity)
         IN  IF found = {} THEN <<s[1]>> \o Decode(Tail(s), entity)
             ELSE SetToSeq(found) \o Decode(SubSeq(s, Min(semi) + 1, Len(s)), entity)

(* The attributes of a start tag from s[i] on: <<attributes, where they end, was there a "/">>.
   d: what differs between the two languages, [bare, fold, entity]. *)
Xml == [bare |-> Space \union {">", "/"}, folds |-> FALSE, entity |-> XmlEntity]
Html == [bare |-> Space \union {">"}, folds |-> TRUE, entity |-> HtmlEntity]
Name(d, s) == IF d.folds THEN Lowered(s) ELSE s
Value(d, s, i) ==            \* <<the value at i, the place after it>>
    IF At(s, i) \in Quotes
    THEN LET q == Until(s, i + 1, {s[i]}) IN <<Decode(Between(s, i + 1, q), d.entity), Min({q + 1, Len(s) + 1})>>
    ELSE LET e == Until(s, i, d.bare) IN <<Decode(Between(s, i, e), d.entity), e>>
RECURSIVE Attributes(_, _, _, _, _)
Attributes(d, s, i, got, slash) ==
    LET j == While(s, i, Space)
        e == Until(s, j, Space \union {"=", ">", "/"})
        k == While(s, e, Space)
        v == IF At(s, k) = "=" THEN Value(d, s, While(s, k + 1, Space)) ELSE <<<<>>, k>>
    IN  CASE At(s, j) \in {">", "end"} -> <<got, j, slash>>
          [] At(s, j) = "/" -> Attributes(d, s, j + 1, got, TRUE)
          [] At(s, j) = "=" -> Attributes(d, s, j + 1, got, slash)         \* stray
          [] OTHER -> Attributes(d, s, v[2], Append(got, <<Name(d, Between(s, j, e)), v[1]>>), slash)

-----------------------------------------------------------------------------
(* xml: a document is the sequence of its nodes, and a node's id its place there,
   from 1, the root (the code counts from 0). *)

Root == 1
Node(element, tag, attrs, text) ==
    [element |-> element, tag |-> tag, attrs |-> attrs, text |-> text, children |-> <<>>]
TextNode(t) == Node(FALSE, <<>>, <<>>, t)
AddChild(p, n) ==
    [p EXCEPT !.nodes = Append([@ EXCEPT ![Last(p.open)].children = Append(@, Len(p.nodes) + 1)], n)]
FlushText(s, p, to) ==       \* blank text between the top-level nodes is dropped
    LET t == Decode(Between(s, p.from, to), XmlEntity)
    IN  IF to <= p.from \/ (Len(p.open) = 1 /\ ToSet(t) \subseteq Space) THEN p ELSE AddChild(p, TextNode(t))
CloseLast(p, name) == IF Len(p.open) = 1 THEN p ELSE [p EXCEPT !.open = Front(@)]     \* mutant
Close(p, name) ==            \* an end tag closes the innermost element of its name, if there is one
    LET matching == {k \in 2 .. Len(p.open) : p.nodes[p.open[k]].tag = name}
    IN  IF matching = {} THEN p ELSE [p EXCEPT !.open = SubSeq(@, 1, Max(matching) - 1)]

CommentOpen == <<"<", "!", "-", "-">>
CommentClose == <<"-", "-", ">">>
CdataOpen == <<"<", "!", "[", "CDATA", "[">>
CdataClose == <<"]", "]", ">">>
RECURSIVE XmlRun(_, _)
XmlRun(s, p) ==              \* p: the parser, [nodes, open, i, from]
    LET i == Until(s, p.i, {"<"})
        q == FlushText(s, p, i)
        Resume(r, j) == XmlRun(s, [r EXCEPT !.i = j, !.from = j])
        nameEnd == While(s, i + 1, NameChar)
        closed == While(s, i + 2, NameChar)
        a == Attributes(Xml, s, nameEnd, <<>>, FALSE)
        r == AddChild(q, Node(TRUE, Between(s, i + 1, nameEnd), a[1], <<>>))
    IN  CASE i > Len(s) -> q
          [] Here(s, i, CommentOpen) -> Resume(q, Past(s, i + 4, CommentClose))
          [] Here(s, i, CdataOpen) ->
               Resume(AddChild(q, TextNode(Between(s, i + 5, Stop(s, i + 5, CdataClose)))), Past(s, i + 5, CdataClose))
          [] At(s, i + 1) \in {"?", "!"} -> Resume(q, Past(s, i + 2, <<">">>))     \* neither of the two above
          [] At(s, i + 1) = "/" -> Resume(Close(q, Between(s, i + 2, closed)), Past(s, closed, <<">">>))
          [] At(s, i + 1) \in NameStart ->
               Resume(IF a[3] THEN r ELSE [r EXCEPT !.open = Append(@, Len(r.nodes))], Min({a[2] + 1, Len(s) + 1}))
          [] OTHER -> XmlRun(s, [q EXCEPT !.i = i + 1])       \* text, and from stays where it was
XmlParse(s) == XmlRun(s, [nodes |-> <<Node(FALSE, <<>>, <<>>, <<>>)>>, open |-> <<Root>>, i |-> 1, from |-> 1]).nodes

RECURSIVE CollectText(_, _), Iter(_, _, _)
CollectText(doc, id) ==
    IF ~doc[id].element THEN doc[id].text
    ELSE FlattenSeq([k \in DOMAIN doc[id].children |-> CollectText(doc, doc[id].children[k])])
FindAll(doc, id, tag) == SelectSeq(doc[id].children, LAMBDA c : doc[c].element /\ doc[c].tag = tag)
FindFirst(doc, id, tag) == IF FindAll(doc, id, tag) = <<>> THEN {} ELSE {FindAll(doc, id, tag)[1]}
Iter(doc, id, tag) ==
    (IF doc[id].element /\ doc[id].tag = tag THEN <<id>> ELSE <<>>)
      \o FlattenSeq([k \in DOMAIN doc[id].children |-> Iter(doc, doc[id].children[k], tag)])

-----------------------------------------------------------------------------
(* html: a document is the sequence of its tokens <<kind, tag, data, attributes>>. *)

Escape(s, quote) == FlattenSeq([i \in DOMAIN s |->
    CASE s[i] = "&" -> <<"&", "amp", ";">>
      [] s[i] = "<" -> <<"&", "lt", ";">>
      [] s[i] = ">" -> <<"&", "gt", ";">>
      [] s[i] = "\"" /\ quote -> <<"&", "quot", ";">>
      [] s[i] = "'" /\ quote -> <<"&", "#", "x", "2", "7", ";">>
      [] OTHER -> <<s[i]>>])

RawText == {<<"script">>, <<"style">>}
Token(kind, tag, data, attrs) == <<kind, tag, data, attrs>>
Flush(text, tokens) == IF text = <<>> THEN tokens
                       ELSE Append(tokens, Token("data", <<>>, Decode(text, HtmlEntity), <<>>))
FoundCi(s, i, lit) == {j \in i .. Len(s) : Here(Lowered(s), j, lit)}
RECURSIVE HtmlRun(_, _, _, _)
HtmlRun(s, i, text, tokens) ==
    LET before == Flush(text, tokens)
        Enclosed(kind, open, close) ==
            HtmlRun(s, Past(s, i + Len(open), close), <<>>,
                    Append(before, Token(kind, <<>>, Between(s, i + Len(open), Stop(s, i + Len(open), close)), <<>>)))
        Data == HtmlRun(s, i + 1, Append(text, s[i]), tokens)
        closed == While(s, i + 2, NameChar)
        nameEnd == While(s, i + 1, NameChar)
        tag == Lowered(Between(s, i + 1, nameEnd))
        a == Attributes(Html, s, nameEnd, <<>>, FALSE)
        blank == While(Reverse(Between(s, i, a[2])), 1, Space)
        selfClosing == At(s, a[2]) = ">" /\ At(Reverse(Between(s, i, a[2])), blank) = "/"
        after == Min({a[2] + 1, Len(s) + 1})
        started == Append(before, Token(IF selfClosing THEN "startendtag" ELSE "starttag", tag, <<>>, a[1]))
        close == FoundCi(s, after, <<"<", "/">> \o tag)
        body == Between(s, after, Min(close \union {Len(s) + 1}))
        raw == started \o IF body = <<>> THEN <<>> ELSE <<Token("data", <<>>, body, <<>>)>>
    IN  CASE i > Len(s) -> before
          [] At(s, i) # "<" -> Data
          [] Here(s, i, CommentOpen) -> Enclosed("comment", CommentOpen, CommentClose)
          [] Here(s, i, <<"<", "!">>) -> Enclosed("decl", <<"<", "!">>, <<">">>)
          [] Here(s, i, <<"<", "?">>) -> Enclosed("pi", <<"<", "?">>, <<">">>)
          [] Here(s, i, <<"<", "/">>) ->
               IF closed = i + 2 THEN Data
               ELSE HtmlRun(s, Past(s, closed, <<">">>), <<>>,
                            Append(before, Token("endtag", Lowered(Between(s, i + 2, closed)), <<>>, <<>>)))
          [] At(s, i + 1) \in NameStart ->
               IF selfClosing \/ tag \notin RawText THEN HtmlRun(s, after, <<>>, started)
               ELSE IF close = {} THEN raw
               ELSE HtmlRun(s, Past(s, Min(close), <<">">>), <<>>, Append(raw, Token("endtag", tag, <<>>, <<>>)))
          [] OTHER -> Data
HtmlParse(s) == HtmlRun(s, 1, <<>>, <<>>)

-----------------------------------------------------------------------------
(* url: {} when it is rejected. *)

Decimal == {d \in DOMAIN DigitOf : DigitOf[d] < 10}
Port(digits) ==
    LET n == FoldLeft(LAMBDA v, d : 10 * v + DigitOf[d], 0, digits)
    IN  IF digits = <<>> \/ Len(digits) > 5 \/ ~(ToSet(digits) \subseteq Decimal) THEN {} ELSE {n} \intersect 1 .. 65535
Authority(rest) == Between(rest, 1, Until(rest, 1, {"/", "?"}))
Target(rest) ==
    LET path == Until(rest, 1, {"/"})  query == Until(rest, 1, {"?"})
    IN  IF path <= Len(rest) THEN SubSeq(rest, path, Len(rest)) ELSE <<"/">> \o SubSeq(rest, query, Len(rest))
UrlParse(text) ==
    LET end == Stop(text, 1, <<":", "/", "/">>)
        scheme == Lowered(Between(text, 1, end))
        rest == SubSeq(text, end + 3, Len(text))
        authority == Authority(rest)
        colons == {i \in DOMAIN authority : authority[i] = ":"}
        host == IF colons = {} THEN authority ELSE Between(authority, 1, Max(colons))
        ports == IF colons = {} THEN {IF scheme = <<"https">> THEN 443 ELSE 80}
                 ELSE Port(SubSeq(authority, Max(colons) + 1, Len(authority)))
    IN  IF \/ end > Len(text) \/ scheme \notin {<<"http">>, <<"https">>}
           \/ authority = <<>> \/ "@" \in ToSet(authority) \/ "#" \in ToSet(rest) \/ host = <<>>
        THEN {} ELSE {[scheme |-> scheme, host |-> host, port |-> p, target |-> Target(rest)] : p \in ports}
=============================================================================
