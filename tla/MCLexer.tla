------------------------------ MODULE MCLexer -------------------------------
(* Texts for the scanner: every short text over a small alphabet, pieces of
   numbers, marks and literals side by side, raw C++ blocks, and files of
   comments and declarations. *)
EXTENDS Lexer

CONSTANTS MaxText, MaxLines

VARIABLES text, expect       \* expect: what the text was made of, see the texts below
vars == <<text, expect>>

-----------------------------------------------------------------------------
(* The lexemes of the language, as the reference: what a number, a name, a mark,
   a string is, whatever scans it. *)
AllDigits(w) == w # <<>> /\ \A i \in DOMAIN w : w[i] \in Digits
Up(w, k) == SubSeq(w, 1, k - 1)
Behind(w, k) == SubSeq(w, k + 1, Len(w))
IsDecimal(w) ==
    \/ AllDigits(w)
    \/ \E k \in DOMAIN w : w[k] = "." /\ (k = 1 \/ AllDigits(Up(w, k))) /\ AllDigits(Behind(w, k))
IsNumber(w) ==
    \/ IsDecimal(w)
    \/ \E k \in DOMAIN w : /\ w[k] \in {"e", "E"} /\ IsDecimal(Up(w, k))
                           /\ \/ AllDigits(Behind(w, k))
                              \/ k < Len(w) /\ w[k + 1] \in {"+", "-"} /\ AllDigits(Behind(w, k + 1))
IsName(w) == w # <<>> /\ w[1] \in Letters /\ \A i \in DOMAIN w : w[i] \in Letters \union Digits
Marks == {<<c>> : c \in {"(", ")", "{", "}", "[", "]", ",", ":", ";", ".", "=", "<", ">", "+", "-", "*", "/",
                         "^", "%", "&"}}
    \union {<<c, "=">> : c \in {"=", "!", "<", ">", "+", "-", "*", "/"}}
    \union {<<"-", ">">>, <<"*", "*">>, <<"/", "/">>}
Escaped(w, i) == LET run == {j \in 1 .. i - 1 : \A k \in j .. i - 1 : w[k] = "\\"} IN Cardinality(run) % 2 = 1
IsString(w) ==
    /\ Len(w) >= 2 /\ w[1] = "\"" /\ w[Len(w)] = "\"" /\ ~Escaped(w, Len(w))
    /\ \A i \in 2 .. Len(w) - 1 : IF Escaped(w, i) THEN w[i] \in {"n", "t", "r", "0", "\"", "\\"}
                                  ELSE w[i] \notin {"\"", "nl"}
IsComment(w) == w # <<>> /\ w[1] = "#" /\ \A i \in DOMAIN w : w[i] # "nl"

KindOf(w) ==
    CASE IsNumber(w) -> "number"
      [] IsName(w) -> IF w \in Keywords THEN "keyword" ELSE "name"
      [] w \in Marks -> "mark" [] IsString(w) -> "string" [] w = <<"nl">> -> "newline"
      [] IsComment(w) \/ w = <<" ">> -> "nothing" [] OTHER -> "no lexeme"

(* The text cut into lexemes, each as long as it can be; the newlines inside
   parentheses and brackets are left out.  <<"error">>: some text is no lexeme. *)
RECURSIVE Cut(_, _, _)
Cut(w, depth, got) ==
    LET Prefix(n) == SubSeq(w, 1, n)
        lengths == {n \in DOMAIN w : KindOf(Prefix(n)) # "no lexeme"}
        n == Max(lengths)
        one == Prefix(n)
        next == IF one \in {<<"(">>, <<"[">>} THEN depth + 1
                ELSE IF one \in {<<")">>, <<"]">>} /\ depth > 0 THEN depth - 1 ELSE depth
        counts == KindOf(one) # "nothing" /\ ~(KindOf(one) = "newline" /\ depth > 0)
    IN  IF w = <<>> THEN got
        ELSE IF lengths = {} THEN <<"error">>
        ELSE Cut(SubSeq(w, n + 1, Len(w)), next, IF counts THEN Append(got, <<KindOf(one), one>>) ELSE got)

-----------------------------------------------------------------------------
Alphabet == {"a", "e", "1", ".", "+", "-", "=", "/", "*", "!", "<", "\"", "\\", "#", "nl", "(", ")", " "}
Pieces == {<<"1", ".", "1">>, <<"1", "e">>, <<"1", "e", "+">>, <<"e", "-", "1">>, <<".">>, <<".", "1">>, <<"*", "*">>,
           <<"=">>, <<"/">>, <<"-">>, <<">">>, <<"f", "n">>, <<"f", "n", "1">>, <<"\"", "a", "\\", "n">>, <<"\"">>,
           <<"\\">>, <<"(", "nl">>, <<")", "nl">>, <<"#", "a", "\"">>, <<"]">>, <<"[">>, <<"nl">>}
Raw == {<<"a">>, <<"{", "a", "}">>, <<"\"", "}", "\"">>, <<"'", "{", "'">>, <<"\"", "\\", "\"", "}", "\"">>,
        <<"/", "/", "}", "nl">>, <<"/", "*", "{", "*", "/">>, <<"/", "a">>, <<"nl">>}
RawTexts == {x \o y \o z : x, y, z \in Raw \union {<<>>}}
Opened(body) == <<"c", "p", "p", " ", "{">> \o body \o <<"}">>

(* Lines of a file: a declaration, other code, a comment, code with a comment
   behind it, nothing; a raw block that ends on a line of its own. *)
LineKinds == {"declaration", "code", "comment", "trailing", "empty"}
LineText(k) ==
    CASE k = "declaration" -> <<"f", "n", " ", "a">> [] k = "code" -> <<"(", "a", ")">>
      [] k = "comment" -> <<" ", "#", " ", "a">> [] k = "trailing" -> <<"a", "#", "e">>
      [] k = "empty" -> <<>> [] k = "raw" -> <<"c", "p", "p", "{", "nl", "}", "#", "e">>

Init == text = <<>> /\ expect \in {<<"free">>, <<"pieces", 0>>, <<"raw", <<>>>>, <<"file", <<>>>>}
Write == /\ expect[1] = "free" /\ Len(text) < MaxText
         /\ \E c \in Alphabet : text' = Append(text, c)
         /\ UNCHANGED expect
WritePiece == /\ expect[1] = "pieces" /\ expect[2] < MaxText
              /\ \E x \in Pieces : text' = text \o x
              /\ expect' = <<"pieces", expect[2] + 1>>
WriteRaw == /\ expect[1] = "raw" /\ text = <<>>
            /\ \E body \in RawTexts : text' \in {Opened(body), Opened(body) \o <<"#", "a">>} /\ expect' = <<"raw", body>>
WriteLine == /\ expect[1] = "file" /\ Len(expect[2]) < MaxLines
             /\ \E k \in LineKinds : /\ expect' = <<"file", Append(expect[2], k)>>
                                     /\ text' = text \o LineText(k) \o <<"nl">>
Next == Write \/ WritePiece \/ WriteRaw \/ WriteLine
Spec == Init /\ [][Next]_vars

-----------------------------------------------------------------------------
(* tokenize cuts every text into the longest lexemes there are and reports an
   error exactly when some of it is no lexeme; newlines count only outside
   parentheses; a raw C++ block is one token, its body verbatim, whatever braces
   its literals and comments hold (scan_token, lexer.cpp:77). *)
TokensAreTheLongest(w, made) ==
    LET r == Tokenize(w)
        seen == Front(r.tokens)
        cut == Cut(w, 0, <<>>)
    IN  /\ made[1] # "raw" =>
              /\ (r.errors = 0) = (cut # <<"error">>)
              /\ r.errors = 0 => /\ Len(seen) = Len(cut)
                                 /\ \A i \in DOMAIN cut : /\ seen[i].kind = cut[i][1]
                                                          /\ cut[i][1] = "string" \/ seen[i].text = cut[i][2]
        /\ made[1] = "raw" => /\ r.errors = 0 /\ Len(seen) = 1
                              /\ seen[1].kind = "cpp" /\ seen[1].text = made[2]

(* Only a comment that is the first thing on its line is recorded: one behind code
   is never documentation (lexer.hpp:24). *)
OnlyLeadingComments ==
    LET Before(i) == {j \in 1 .. i - 1 : LineOf([text |-> text], j) = LineOf([text |-> text], i)}
        first == {i \in DOMAIN text : text[i] = "#" /\ \A j \in Before(i) : text[j] \in Blank}
    IN  expect[1] = "raw" =>
            \A i \in DOMAIN Tokenize(text).comments :
                \E k \in first : LineOf([text |-> text], k) = Tokenize(text).comments[i].line

(* A declaration's documentation is the unbroken run of comment lines that ends on
   the line above it, all of it and nothing else; the module's is the first run of
   the file when it stands above every statement (attach_docs, parser.cpp:1370). *)
IsCommentLine(ls, i) == i \in DOMAIN ls /\ ls[i] = "comment"
RunUpTo(ls, i) == {j \in 1 .. i : \A k \in j .. i : IsCommentLine(ls, k)}
DocsAreTheCommentsAbove(w, made) ==
    made[1] = "file" =>
    LET ls == made[2]
        targets == {i \in DOMAIN ls : ls[i] = "declaration"}
        statements == {i \in DOMAIN ls : ls[i] \in {"declaration", "code", "trailing"}}
        docs == AttachDocs(Tokenize(w).comments, targets, IF statements = {} THEN 0 ELSE Min(statements))
        firsts == {i \in DOMAIN ls : IsCommentLine(ls, i) /\ ~\E k \in 1 .. i - 1 : IsCommentLine(ls, k)}
        end(i) == Max({j \in DOMAIN ls : \A k \in i .. j : IsCommentLine(ls, k)})
        modules == {i \in firsts : /\ \A k \in statements : i < k
                                   /\ end(i) + 1 \notin targets}
    IN  /\ DOMAIN docs = {i \in targets : IsCommentLine(ls, i - 1)} \union {0 : i \in modules}
        /\ \A i \in targets \intersect DOMAIN docs : Len(docs[i]) = Cardinality(RunUpTo(ls, i - 1))
        /\ \A i \in modules : Len(docs[0]) = end(i) - i + 1
=============================================================================
