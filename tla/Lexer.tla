------------------------------- MODULE Lexer --------------------------------
(* The scanner of src/compiler/lexer.cpp: characters to tokens, and attach_docs
   of parser.cpp, which gives the comments it recorded to the declarations below
   them.  A character is a one-character string ("nl" is the newline); the state
   s of the scanner is its text, cursor, tokens, comments, bracket depth and the
   number of its diagnostics.  A token is [kind, text, line]. *)
EXTENDS Integers, SequencesExt

CONSTANTS Letters, Digits, Keywords

Blank == {" ", "tab", "cr"}
At(s, i) == IF i > Len(s.text) THEN "\\0" ELSE s.text[i]
Here(s) == At(s, s.p)
LineOf(s, i) == 1 + Cardinality({j \in 1 .. i - 1 : s.text[j] = "nl"})
From(s, a, b) == SubSeq(s.text, a, b - 1)
(* The first position at or after i whose character is not in S. *)
PastAll(s, i, S) == Min({j \in i .. Len(s.text) + 1 : j > Len(s.text) \/ s.text[j] \notin S})
LineEnd(s, i) == Min({j \in i .. Len(s.text) + 1 : At(s, j) = "nl" \/ j > Len(s.text)})

Push(s, kind, text, next) ==
    [s EXCEPT !.p = next, !.tokens = Append(@, [kind |-> kind, text |-> text, line |-> LineOf(s, s.p)])]
Error(s) == [s EXCEPT !.errors = @ + 1]

-----------------------------------------------------------------------------
NumberEnd(s) ==
    LET whole == PastAll(s, s.p, Digits)
        fraction == IF At(s, whole) = "." /\ At(s, whole + 1) \in Digits
                    THEN PastAll(s, whole + 1, Digits) ELSE whole
        digits == IF At(s, fraction + 1) \in {"+", "-"} THEN fraction + 2 ELSE fraction + 1
    IN  IF At(s, fraction) \in {"e", "E"} /\ At(s, digits) \in Digits
        THEN PastAll(s, digits, Digits) ELSE fraction

(* A quoted literal of C++ inside a raw block: to the closing quote, or no
   further than the end of the line. *)
RECURSIVE LiteralEnd(_, _, _), RawEnd(_, _, _), StringFrom(_, _, _)
LiteralEnd(s, i, quote) ==
    CASE i > Len(s.text) -> i
      [] At(s, i) = quote -> i + 1
      [] At(s, i) = "\\" -> LiteralEnd(s, Min({i + 2, Len(s.text) + 1}), quote)
      [] At(s, i) = "nl" -> i
      [] OTHER -> LiteralEnd(s, i + 1, quote)

CommentEnd(s, i) ==          \* behind the first "*/" at or after i
    Min({j + 2 : j \in {k \in i .. Len(s.text) : At(s, k) = "*" /\ At(s, k + 1) = "/"}}
          \union {Len(s.text) + 1})

\* Mutant: a brace in a literal or a comment counts.
RawEndBlind(s, i, depth) ==
    CASE i > Len(s.text) -> i
      [] At(s, i) = "{" -> RawEnd(s, i + 1, depth + 1)
      [] At(s, i) = "}" -> IF depth = 1 THEN i ELSE RawEnd(s, i + 1, depth - 1)
      [] OTHER -> RawEnd(s, i + 1, depth)
RawEnd(s, i, depth) ==       \* the position of the brace that closes the block, or the end
    CASE i > Len(s.text) -> i
      [] At(s, i) \in {"\"", "'"} -> RawEnd(s, LiteralEnd(s, i + 1, At(s, i)), depth)
      [] At(s, i) = "/" /\ At(s, i + 1) = "/" -> RawEnd(s, LineEnd(s, i), depth)
      [] At(s, i) = "/" /\ At(s, i + 1) = "*" -> RawEnd(s, CommentEnd(s, i + 2), depth)
      [] At(s, i) = "{" -> RawEnd(s, i + 1, depth + 1)
      [] At(s, i) = "}" -> IF depth = 1 THEN i ELSE RawEnd(s, i + 1, depth - 1)
      [] OTHER -> RawEnd(s, i + 1, depth)

Block(s, open) ==
    LET close == RawEnd(s, open + 1, 1)
        body == From(s, open + 1, close)
    IN  IF close > Len(s.text) THEN Push(Error(s), "invalid", body, close)
        ELSE Push(s, "cpp", body, close + 1)

Identifier(s) ==
    LET end == PastAll(s, s.p, Letters \union Digits)
        word == From(s, s.p, end)
        open == PastAll(s, end, Blank)
    IN  IF word = <<"c", "p", "p">> /\ At(s, open) = "{" THEN Block(s, open)
        ELSE Push(s, IF word \in Keywords THEN "keyword" ELSE "name", word, end)

Escapes == [c \in {"n", "t", "r", "0", "\"", "\\"} |->
              CASE c = "n" -> "nl" [] c = "t" -> "tab" [] c = "r" -> "cr" [] c = "0" -> "nul" [] OTHER -> c]

StringFrom(s, i, value) ==   \* i: the next character of the literal
    CASE i > Len(s.text) -> Push(Error(s), "invalid", value, i)
      [] At(s, i) = "\"" -> Push(s, "string", value, i + 1)
      [] At(s, i) = "nl" -> Push(Error(s), "invalid", value, i + 1)
      [] At(s, i) = "\\" ->
            IF i = Len(s.text) THEN Push(Error(s), "invalid", value, i + 1)
            ELSE IF At(s, i + 1) \in DOMAIN Escapes
                 THEN StringFrom(s, i + 2, Append(value, Escapes[At(s, i + 1)]))
                 ELSE StringFrom(Error(s), i + 2, Append(value, At(s, i + 1)))
      [] OTHER -> StringFrom(s, i + 1, Append(value, At(s, i)))

(* What may follow a character to make a longer mark of the two. *)
Longer == [c \in {"=", "!", "<", ">", "+", "-", "*", "/"} |->
    CASE c = "-" -> {">", "="} [] c = "*" -> {"*", "="} [] c = "/" -> {"/", "="} [] OTHER -> {"="}]
Singles == {"(", ")", "{", "}", "[", "]", ",", ":", ";", ".", "^", "%", "&"} \union (DOMAIN Longer \ {"!"})

Symbol(s) ==
    LET c == Here(s)
        s1 == [s EXCEPT !.depth = IF c \in {"(", "["} THEN @ + 1
                                  ELSE IF c \in {")", "]"} /\ @ > 0 THEN @ - 1 ELSE @]
    IN  IF c \in DOMAIN Longer /\ At(s, s.p + 1) \in Longer[c]
        THEN Push(s, "mark", <<c, At(s, s.p + 1)>>, s.p + 2)
        ELSE IF c \in Singles THEN Push(s1, "mark", <<c>>, s.p + 1)
        ELSE Push(Error(s), "invalid", <<c>>, s.p + 1)

Comment(s) ==
    LET end == LineEnd(s, s.p)
        leading == s.tokens = <<>> \/ Last(s.tokens).line # LineOf(s, s.p)
        c == [text |-> From(s, s.p + 1, end), line |-> LineOf(s, s.p)]
    IN  [s EXCEPT !.p = end, !.comments = IF leading THEN Append(@, c) ELSE @]

ScanToken(s) ==
    CASE Here(s) \in Blank -> [s EXCEPT !.p = @ + 1]
      [] Here(s) = "nl" -> IF s.depth = 0 THEN Push(s, "newline", <<"nl">>, s.p + 1) ELSE [s EXCEPT !.p = @ + 1]
      [] Here(s) = "#" -> Comment(s)
      [] Here(s) \in Digits \/ (Here(s) = "." /\ At(s, s.p + 1) \in Digits) ->
            Push(s, "number", From(s, s.p, NumberEnd(s)), NumberEnd(s))
      [] Here(s) \in Letters -> Identifier(s)
      [] Here(s) = "\"" -> StringFrom(s, s.p + 1, <<>>)
      [] OTHER -> Symbol(s)

RECURSIVE Run(_)
Run(s) == IF s.p > Len(s.text) THEN Push(s, "end", <<>>, s.p) ELSE Run(ScanToken(s))
Tokenize(text) ==
    Run([text |-> text, p |-> 1, tokens |-> <<>>, comments |-> <<>>, depth |-> 0, errors |-> 0])

-----------------------------------------------------------------------------
(* attach_docs: targets are the lines declarations start on, first is the line of
   the first statement (0: there is none).  The result maps a target to its text
   and 0 to the module's. *)
Unprefixed(text) == IF text # <<>> /\ text[1] = " " THEN Tail(text) ELSE text
BlockEnd(comments, i) ==
    Min({j \in i .. Len(comments) : j = Len(comments) \/ comments[j + 1].line # comments[j].line + 1})

RECURSIVE Attach(_, _, _, _, _)
Attach(comments, i, targets, first, docs) ==
    LET j == BlockEnd(comments, i)
        text == [k \in 1 .. j - i + 1 |-> Unprefixed(comments[i + k - 1].text)]
        to == IF comments[j].line + 1 \in targets THEN {comments[j].line + 1}
              ELSE IF i = 1 /\ (first = 0 \/ comments[i].line < first) THEN {0} ELSE {}
    IN  IF i > Len(comments) THEN docs
        ELSE Attach(comments, j + 1, targets, first,
                    [t \in DOMAIN docs \union to |-> IF t \in to THEN text ELSE docs[t]])
AttachDocs(comments, targets, first) == Attach(comments, 1, targets, first, <<>>)
=============================================================================
