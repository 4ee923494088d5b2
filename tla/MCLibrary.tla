------------------------------ MODULE MCLibrary ------------------------------
(* The algorithms of the standard library for TLC, each with the reference it  *)
(* is compared with: a behaviour picks an algorithm, then its input.  Regex is *)
(* a state machine of its own, since a pattern learns from call to call.       *)
(* Sizes are scaled down: a byte has two bits, a limb five or six.             *)
EXTENDS Ec, TLC

CONSTANTS MaxPieces       \* pieces appended to the start of a JSON text

VARIABLES input, source, pattern, learned

-----------------------------------------------------------------------------
(* Regex. *)
Ascii == <<"n", "-", "1", "]", "a", "b", "z">>     \* "n" stands for the newline
RegexBytes == ToSet(Ascii)
Rank(c) == CHOOSE i \in DOMAIN Ascii : Ascii[i] = c
RegexBelow == [r \in RegexBytes \X RegexBytes |-> {c \in RegexBytes : Rank(r[1]) <= Rank(c) /\ Rank(c) <= Rank(r[2])}]
RegexEscapes == [c \in {"d", "D", "w"} |->
    CASE c = "d" -> {"1"} [] c = "D" -> RegexBytes \ {"1"} [] OTHER -> {"1", "a", "b", "z"}]

L == INSTANCE RegexLanguage
a == L!One({"a"}, <<"a">>)
b == L!One({"b"}, <<"b">>)
RegexLeaves == {a, b, L!One(RegexBytes \ {"n"}, <<".">>), L!One(RegexBytes \ {"a", "n"}, <<"[", "^", "a", "]">>), L!Nothing}
Spellings ==
    {L!One({"a"}, <<"\\", "a">>), L!One({"1"}, <<"\\", "d">>), L!One(RegexBytes \ {"1"}, <<"\\", "D">>),
     L!One({"a", "b"}, <<"[", "a", "-", "b", "]">>), L!One({"]", "a"}, <<"[", "]", "a", "]">>),
     L!One({"a", "-"}, <<"[", "a", "-", "]">>), L!One({"1", "b"}, <<"[", "\\", "d", "b", "]">>),
     L!One(RegexBytes \ {"]", "n"}, <<"[", "^", "]", "]">>)}
Larger(S, T) == {L!Rep(q, e) : q \in {"*", "+", "?"}, e \in S}
                  \union {L!Cat(e, f) : e \in S, f \in T} \union {L!Alt(e, f) : e \in S, f \in T}
RegexPairs == Larger(RegexLeaves, RegexLeaves)
RegexBodies == Spellings \union RegexPairs \union Larger(RegexPairs, RegexLeaves)
                 \union {L!Cat(L!Rep("+", L!Alt(L!Cat(a, a), a)), L!Cat(a, b)), L!Alt(L!Cat(a, b), L!Cat(b, L!Cat(a, a)))}

R == INSTANCE Regex WITH
    Bytes <- RegexBytes, Newline <- "n", Escapes <- RegexEscapes, Below <- RegexBelow,
    MaxDepth <- 3, FalseHits <- 2, Window <- 3, Block <- 2, Budget <- 2,
    Sources <- {L!Anchored(e, s, f) : e \in RegexBodies, s, f \in BOOLEAN},
    Texts <- UNION {[1 .. n -> {"a", "b"}] : n \in 0 .. 4}
               \union {<<"a", "n", "b">>, <<"n", "1", "a">>, <<"]">>, <<"-", "z">>,
                       <<"a", "a", "a", "a", "a", "a", "b">>, <<"a", "b", "b", "b", "b", "b", "a">>}
RegexStrings == UNION {[1 .. n -> {"a", "(", ")", "|", "*", "\\"}] : n \in 0 .. 5}

-----------------------------------------------------------------------------
(* Json: pieces of text after a start; the typed reads are into a struct of    *)
(* five fields, an int, a string view and a vector of vectors.                 *)
J == INSTANCE JsonText WITH
    Word <- 128, ExactDigits <- 2, ExactMantissa <- 32, ExactScale <- 1, PerOne <- 256, MaxShift <- 12, Powers <- 3, IntMax <- 31, IntDigits <- 1, MaxDepth <- 2

Quoted(c) == <<J!Quote, c, J!Quote>>
JsonPieces == {<<c>> : c \in {"[", "]", "{", "}", ",", ":", " ", "-", "0", "1", "2", "3", ".", "e", "+", J!Quote, J!Slash, "a", "n"}}
    \union {J!True, J!NullText, Quoted("a"), Quoted("b")}
    \union {<<J!Slash, "u", "d", "8", "0", "0">>, <<J!Slash, "u", "d", "c", "0", "1">>, <<J!Slash, "u", "0", "0", "a", "1">>}
Member(c) == Quoted(c) \o <<":">>
JsonSeeds == {<<>>, <<J!Quote>>, <<"3", ".">>}      \* these are continued by a piece more
JsonStarts == JsonSeeds \union {<<"[", "[", "1", "]", ",">>, <<"{">> \o Member("a") \o <<"1", ",">>, <<"{">> \o Member("b") \o <<"[", "1">>,
               <<"{">> \o Member("c") \o <<"{">>, <<"{">> \o Member("z") \o <<"[">>, <<"{">> \o Member("d") \o Quoted("a") \o <<",">>,
               <<"1", "3">>, <<"1", "e", "-">>, <<"3", ".", "1", "e">>,
               <<"{">> \o Member("e") \o <<"[", "{">> \o Member("a") \o <<"1", "}", "]", ",">> \o Member("e") \o <<"[", "{", "}">>,
               <<"{", " ", J!Quote, J!Slash, "u", "0", "0", "6", "1", J!Quote, ":">>}
JsonStruct == <<"struct", << <<<<"a">>, <<"int">>>>, <<<<"b">>, <<"vector", <<"int">>>>>>,
    <<<<"c">>, <<"struct", << <<<<"a">>, <<"optional", <<"int">>>>>>, <<<<"b">>, <<"array", 2, <<"bool">>>>>> >>>>>>,
    <<<<"d">>, <<"string">>>>, <<<<"e">>, <<"array", 1, <<"struct", << <<<<"a">>, <<"int">>>> >>>>>>>> >>>>
JsonTypes == {JsonStruct, <<"int">>, <<"view">>, <<"vector", <<"vector", <<"int">>>>>>}

-----------------------------------------------------------------------------
(* Markup: documents in every style they can be written in, and loose pieces.  *)
Letters == {"a", "b", "n", "x", "X", "c", "amp", "lt", "gt", "quot", "nbsp", "script", "style", "http", "https", "ftp", "CDATA", "A"}
MarkupLower == [A |-> "a", SCRIPT |-> "script", HTTP |-> "http"]
NameStarts == Letters \union DOMAIN MarkupLower
Numerals == <<"0", "1", "2", "3", "4", "5", "6", "7", "8", "9">>
MarkupDigit == [c |-> 12, a |-> 10] @@ [d \in ToSet(Numerals) |-> (CHOOSE i \in 1 .. 10 : Numerals[i] = d) - 1]
XmlEntities == (<<"amp">> :> "&") @@ (<<"lt">> :> "<") @@ (<<"gt">> :> ">") @@ (<<"quot">> :> "\"")
M == INSTANCE MarkupText WITH
    Space <- {" "}, NameStart <- NameStarts, NameChar <- NameStarts \union {"-", "."} \union ToSet(Numerals),
    Lower <- MarkupLower, DigitOf <- MarkupDigit, XmlEntity <- XmlEntities,
    HtmlEntity <- XmlEntities @@ (<<"nbsp">> :> "U+A0"),
    Character <- [c \in 1 .. 64 |-> CASE c = 38 -> "&" [] c = 39 -> "'" [] c = 60 -> "<" [] c = 62 -> ">" [] c = 34 -> "\"" [] OTHER -> "U"],
    MaxCode <- 64, Window <- 4

XmlStyles == {s \in [quote : {"\"", "'", "none"}, gap : {<<>>, <<" ">>}, numbers : BOOLEAN, self : BOOLEAN, cdata : BOOLEAN, implied : BOOLEAN,
                     noise : {<<>>, M!CommentOpen \o <<"<", "a", ">">> \o M!CommentClose, <<"<", "?", "a", ">">>, <<"<", "!", "A", ">">>, <<"<", "/", "n", ">">>},
                     upper : {FALSE}] : s.self = s.implied /\ s.cdata = s.numbers /\ (s.quote = "none" <=> s.gap # <<>>)}
HtmlStyles == {s \in [quote : {"\"", "'", "none"}, gap : {<<>>, <<" ">>}, numbers : BOOLEAN, upper : BOOLEAN] : s.numbers <=> s.upper}
Attributes == {<<>>} \union {<< <<<<"n">>, v>> >> : v \in {<<>>, <<"a">>, <<"&">>, <<">", " ">>, <<"\"", "'", "/">>}}
                \union {<< <<<<"n">>, <<"a">>>>, <<<<"a", "-", "1">>, <<>>>> >>}
Element(t, kids) == <<"element", <<t>>, <<>>, kids>>
Texts == {<<"text", <<"x">>>>, <<"text", <<"<", "a", ">">>>>, <<"text", <<"&", "lt", ";">>>>}
Tags == {Element(t, <<>>) : t \in {"a", "b"}}
Leaves == {<<"element", <<t>>, at, <<>>>> : t \in {"a", "b"}, at \in Attributes}
Parents == {Element("a", <<k>>) : k \in Texts \union Leaves \union {<<"text", <<" ">>>>}}
             \union {Element("b", <<k, l>>) : k \in Texts, l \in Tags} \union {Element("a", <<k, l>>) : k \in Tags, l \in Texts \union Tags}
Grandparents == {<<"element", <<"a">>, << <<<<"n">>, <<"a">>>> >>, <<k>>>> : k \in Parents} \union {Element("a", <<l, k>>) : k \in Parents, l \in Tags}
Forests == {<<f>> : f \in Leaves \union Parents \union Grandparents \union Texts} \union {<<f, g>> : f \in Tags, g \in Texts \union Tags}
Pieces == {<<c>> : c \in {"<", ">", "/", "=", "\"", " ", "a", "&", "!", "-", ";", "?"}}
            \union {<<"<", "a", ">">>, <<"<", "/", "a", ">">>, <<"<", "b", ">">>, <<"<", "/", "b", ">">>, M!CdataOpen, M!CommentOpen, M!CommentClose, <<"lt", ";">>}
HtmlTokens == {M!Token("data", <<>>, d, <<>>) : d \in {<<"x">>, <<"&">>, <<"<", "a", ">">>, <<"<", "/", "a">>}}
    \union {M!Token("comment", <<>>, d, <<>>) : d \in {<<>>, <<"a", ">">>, <<"-", "x">>}}
    \union {M!Token(k, <<>>, <<"a", "-", "-">>, <<>>) : k \in {"decl", "pi"}}
    \union {M!Token(k, <<t>>, <<>>, at) : k \in {"starttag", "startendtag"}, t \in {"a", "script"}, at \in Attributes}
    \union {M!Token("endtag", <<t>>, <<>>, <<>>) : t \in {"a", "script"}}
OfKind(k) == {t \in HtmlTokens : t[1] = k}
HtmlPages == UNION {[1 .. i -> HtmlTokens] : i \in 1 .. 2}
    \union {<<s, d, e>> : s \in OfKind("starttag"), d \in OfKind("data"), e \in OfKind("endtag")}
Urls == [scheme : {<<"http">>, <<"HTTP">>, <<"https">>, <<"ftp">>, <<>>}, user : {<<>>, <<"a", "@">>}, host : {<<>>, <<"a">>, <<"a", ".", "b">>},
    port : {<<>>, <<":">>, <<":", "8", "0">>, <<":", "0">>, <<":", "6", "5", "5", "3", "5">>, <<":", "6", "5", "5", "3", "6">>,
            <<":", "0", "0", "0", "0", "8", "0">>, <<":", "a">>},
    path : {<<>>, <<"/">>, <<"/", "a", ":", "b">>, <<"/", "@">>}, query : {<<>>, <<"?", "n", "=", "a">>, <<"?", "?">>, <<"?", ":", "@">>, <<"?", "n", "/", "?", "a">>}, fragment : {<<>>, <<"#", "a">>}]
Raw == {"&", "<", "\"", "'", ";", "#", "x", "3", "9", "amp", "lt", "a"}

-----------------------------------------------------------------------------
(* Elliptic curves over limbs: the edges of the field and of the group order.  *)
Edge(m) == {0, 1, 2, 3, 63, 64, 65, m - 1, m - 2, m \div 2, 1234, 2048, m - 64}
FieldInputs == Edge(N) \union Edge(P) \union {2 ^ Bits - 1}
Multiples == {0, 1, 2, 3, N - 1, N - 2, 1000, N \div 2}
Hashes == {<<0, 0>>, <<0, 1>>, <<62, 21>>, <<63, 63>>, <<7>>, <<20, 30, 40>>}
EcNonces == {<<0, N, 5>>, <<1, 2>>, <<N - 1>>, <<64>>, <<3001, 4>>, <<0, N, 0>>}

C == INSTANCE Curve25519 WITH
    Limb <- 5, Limbs <- 3, C <- 3, A24 <- 700, EdD <- 247, EdX <- 5652, EdY <- 3085, SqrtM1 <- 16200, EdL <- 2069
Prime25519 == 2 ^ 14 - 3
CurvePoints == {C!Limbed(v) : v \in {0, 1, 2, 3, 9, Prime25519 - 1, Prime25519, Prime25519 + 1, Prime25519 + 2, 2 ^ 14 - 1, 2 ^ 14, 2 ^ 15 - 1}
                                      \union {i * 997 : i \in 1 .. 30}}
CurveScalars == {0, 7, 8, 2 ^ 15 - 1, 12345, 2 ^ 13, 20000}
(* Keys and packed points by number; a signature by its two halves.            *)
Own == -1
Signed == -2
Owner == <<1, 2, 3>>
KeyBytes(v) == IF v = Own THEN C!PublicKey(Owner) ELSE C!Limbed(v)
SignatureBytes(r, s) == IF r = Signed THEN C!Sign(Owner, <<1>>) ELSE KeyBytes(r) \o C!Limbed(s)
EdKeys == {0, 1, 2 ^ 14 + 1, Prime25519, Prime25519 - 1, Prime25519 + 1, 3085, 3085 + 2 ^ 14, Own} \union (5 .. 11)
EdSignatures(q) == {<<Signed, 0>>} \union ({1, 3085, q, Own} \X {0, 1, 2068, 2069, 2070, 31 * 1024 + 5})

-----------------------------------------------------------------------------
(* Certificates and RSA signatures.                                            *)
X == INSTANCE X509Text WITH
    Byte <- 2, LimbBytes <- 2, HashLen <- 1, MinPadding <- 1, MaxExponentBits <- 5, LongForm <- 128,
    P256Point <- 2, P384Point <- 3, EdKey <- 2

RsaRoot == [kind |-> "rsa", id |-> 1, p |-> 113, q |-> 131, e |-> 3]
RsaShort == [kind |-> "rsa", id |-> 2, p |-> 71, q |-> 89, e |-> 3]
P256 == [kind |-> "p256", id |-> 3]
P384 == [kind |-> "p384", id |-> 4]
Ed == [kind |-> "ed25519", id |-> 5]
Host == <<65, 46, 98, 46, 99>>                     \* A.b.c
Wild == <<42, 46, 66, 46, 99>>                     \* *.B.c
Ca(flag) == <<"ca", flag, TRUE>>
San(names) == <<"san", [i \in DOMAIN names |-> <<X!DnsTag, names[i]>>], FALSE>>
Noon(y) == <<y, 6, 15, 12, 30, 30>>
Plain == [version |-> TRUE, serial |-> <<7>>, issuer |-> <<1>>, subject |-> <<2>>, from |-> Noon(2000), until |-> Noon(2030), tag |-> X!UtcTime,
          key |-> P256, signer |-> RsaRoot, scheme |-> "rsa256", extensions |-> <<>>]

Exists(t) == t[3] <= 28 \/ t[3] > 31 \/ t[3] <= X!Month(t[1], t[2])
UtcTimes == {<<y, m, d, h, 0, s>> : y \in {1950, 1970, 1999, 2000, 2049}, m \in {1, 2, 3, 12}, d \in {1, 28, 29, 30, 31}, h \in {0, 23}, s \in {0, 59}}
FarTimes == {<<y, m, 28, 23, 59, 59>> : y \in {1600, 1900, 2100, 2399, 2400}, m \in 0 .. 13}
    \union {<<2000, 1, 32, 0, 0, 0>>, <<2000, 1, 0, 0, 0, 0>>, <<2000, 1, 1, 24, 0, 0>>, <<2000, 1, 1, 0, 60, 0>>, <<2000, 1, 1, 0, 0, 61>>}
Extensions == {<<"none", 0, FALSE>>, <<"none", 0, TRUE>>, Ca(TRUE), Ca(FALSE), San(<<Host>>), San(<<>>),
    <<"san", <<<<135, <<1, 2>>>>, <<X!DnsTag, Host>>, <<129, <<64>>>>, <<X!DnsTag, Wild>>>>, TRUE>>}
Certificates == {[Plain EXCEPT !.from = t] : t \in {t \in UtcTimes : Exists(t)}}
    \union {[Plain EXCEPT !.until = t, !.tag = X!GeneralizedTime] : t \in {t \in FarTimes : Exists(t)}}
    \union {[Plain EXCEPT !.extensions = x, !.key = k, !.version = v] : x \in UNION {[1 .. i -> Extensions] : i \in 0 .. 2},
              k \in {RsaRoot, P256, P384, Ed, [kind |-> "other", id |-> 6]}, v \in BOOLEAN}
LeafCerts == {[Plain EXCEPT !.issuer = i, !.signer = g[1], !.scheme = g[2], !.extensions = <<San(<<Wild>>)>>] :
    i \in {<<2>>, <<3>>}, g \in {<<RsaRoot, "rsa256">>, <<P384, "ec256">>, <<P384, "rsa384">>, <<Ed, "ed">>}}
MiddleCerts == {[Plain EXCEPT !.issuer = <<3>>, !.key = k, !.signer = g[1], !.scheme = g[2], !.extensions = <<Ca(f)>>, !.from = Noon(2010)] :
    k \in {RsaRoot, P384}, g \in {<<Ed, "ed">>, <<P256, "ec384">>, <<P256, "rsa512">>}, f \in BOOLEAN}
RootCerts == {[Plain EXCEPT !.subject = <<3>>, !.issuer = <<3>>, !.key = k, !.signer = P256, !.scheme = "ec256", !.until = Noon(2024)] : k \in {Ed, P256}}
CertChains == {<<l>> : l \in LeafCerts} \union {<<l, m>> : l \in LeafCerts, m \in MiddleCerts}
Names == {<<>>, <<97>>, <<97, 46, 98>>, <<42, 46, 98>>, <<42>>, <<42, 46>>, <<46, 98>>, <<42, 46, 98, 46, 99>>, <<65, 46, 66>>, <<97, 46>>,
    <<97, 46, 98, 46, 99>>, <<100, 46, 97, 46, 98>>, <<42, 97, 46, 98>>, <<97, 46, 42>>, <<46>>, <<42, 46, 42, 46, 98>>}

ModulusBits(key) == Min({i \in 1 .. 30 : X!Modulus(key) < 2 ^ i})
Encodings(key) ==       \* of the message <<1>>, the first of them also a byte short
    LET digest == X!DigestInfo(256, <<1>>)
        bytes == X!Octets(X!Modulus(key))
    IN  {X!Pkcs(digest, bytes), X!Pkcs(digest, bytes - 1) \o <<2>>}
          \union {X!Pss(<<1>>, salt, ModulusBits(key) - 1) : salt \in [1 .. 1 -> 0 .. X!FF]}
Damaged(em) == {em} \union {[em EXCEPT ![i] = v] : i \in DOMAIN em, v \in 0 .. X!FF}
Signatures ==
    {<<k, m, X!InOctets(v, l)>> : k \in {RsaRoot, RsaShort}, m \in {<<1>>, <<2, 3>>},
                                  v \in {0, 1, 5, 6318, 6319, 6320, 14802, 14803, 16000}, l \in {6, 7, 8}}
    \union UNION {{<<k, <<1>>, X!Signed(k, em)>> : em \in {x \in UNION {Damaged(y) : y \in Encodings(k)} : X!Number(x) < X!Modulus(k)}} :
                    k \in {RsaRoot, RsaShort}}
    \union {<<[RsaRoot EXCEPT !.e = e], <<1>>, X!InOctets(X!Number(em), 7)>> :
              e \in {1, 2, 4}, em \in {X!Pkcs(X!DigestInfo(256, <<1>>), 7), X!Pss(<<1>>, <<2>>, 13)}}

-----------------------------------------------------------------------------
Seeds ==
    {<<"regex">>, <<"spelling">>, <<"field">>, <<"group">>, <<"sign">>, <<"verify">>, <<"agree">>, <<"edsign">>, <<"edverify">>,
     <<"certificate">>, <<"chain">>, <<"server">>, <<"host">>, <<"rsa">>}
      \union {<<"xml", s>> : s \in XmlStyles} \union {<<"html", s>> : s \in HtmlStyles}
      \union {<<"url", s>> : s \in {u.scheme : u \in Urls}} \union {<<"any", p>> : p \in Pieces \union {<<>>}}
      \union {<<"escape", c>> : c \in {<<>>} \union {<<c>> : c \in Raw}}

Init ==
    /\ \/ \E t \in JsonStarts : input = <<"pick", "json", IF t \in JsonSeeds THEN 0 ELSE 1, t>>
       \/ input \in {<<"pick">> \o s : s \in Seeds}
    /\ R!RegexInit
Becomes(kind, values) == input' = <<kind>> \o values
OneOf(S, n) == UNION {[1 .. i -> S] : i \in 0 .. n}
Pick(kind) == input[1] = "pick" /\ input[2] = kind

PickText ==
    \/ Pick("spelling") /\ \E s \in RegexStrings : Becomes("spelling", <<s>>)
    \/ Pick("xml") /\ \E f \in Forests : Becomes("xml", <<f, input[3]>>)
    \/ Pick("html") /\ \E p \in HtmlPages : Becomes("html", <<p, input[3]>>)
    \/ Pick("url") /\ \E u \in Urls : u.scheme = input[3] /\ Becomes("url", <<u>>)
    \/ Pick("any") /\ \E f \in OneOf(Pieces, 2) : Becomes("any", <<input[3] \o FlattenSeq(f)>>)
    \/ Pick("escape") /\ \E f \in OneOf(Raw, 2) : Becomes("escape", <<input[3] \o f>>)
    \/ Pick("json") /\ input[3] < MaxPieces /\ \E p \in JsonPieces : Becomes("pick", <<"json", input[3] + 1, input[4] \o p>>)
PickKey ==
    \/ Pick("field") /\ \E x, y \in FieldInputs : Becomes("field", <<x, y>>)
    \/ Pick("group") /\ \E i, j \in Multiples, y \in {1, 5}, z \in {1, P - 1} : Becomes("group", <<i, j, y, z>>)
    \/ Pick("sign") /\ \E d \in {0, 1, 2, 77, N - 1, N}, h \in Hashes, ks \in EcNonces : Becomes("sign", <<d, h, ks>>)
    \/ Pick("verify") /\ \E q \in {1, 2, N - 3}, h \in Hashes, r \in {0, 1, N, GX, Multiple(2)[1] % N, 99}, s \in {0, 1, 2, N - 1, N, 77} :
                           Becomes("verify", <<q, h, r, s>>)
    \/ Pick("agree") /\ \E p \in CurvePoints, k \in CurveScalars : Becomes("agree", <<k, p>>)
    \/ Pick("edsign") /\ \E i \in 0 .. 11, m \in {<<>>, <<1>>, <<5, 30>>} : Becomes("edsign", <<C!Limbed(i * 1111), m>>)
    \/ Pick("edverify") /\ \E q \in EdKeys : \E g \in EdSignatures(q), m \in {<<1>>, <<2>>} : Becomes("edverify", <<q, m>> \o g)
PickCertificate ==
    \/ Pick("certificate") /\ \E c \in Certificates : Becomes("certificate", <<c>>)
    \/ Pick("chain") /\ \E c \in CertChains, y \in {2005, 2015, 2025} : Becomes("chain", <<c, Noon(y)>>)
    \/ Pick("server") /\ \E l \in LeafCerts \union RootCerts \union MiddleCerts, m \in MiddleCerts : Becomes("server", <<<<l, m>>>>)
    \/ Pick("host") /\ \E x, y \in Names : Becomes("host", <<x, y>>)
    \/ Pick("rsa") /\ \E s \in Signatures : Becomes("rsa", s)

vars == <<input, source, pattern, learned>>
Next == \/ (PickText \/ PickKey \/ PickCertificate) /\ UNCHANGED <<source, pattern, learned>>
        \/ Pick("regex") /\ R!RegexNext /\ UNCHANGED input
Spec == Init /\ [][Next]_vars

-----------------------------------------------------------------------------
(* The properties are about every input that a step picks, and the first about  *)
(* every state of a pattern.                                                   *)
Is(i, kind) == i[1] = kind

(* Whatever a pattern learned from the calls before, search, full_match and    *)
(* find give the answers of the expression, and a source is compiled exactly   *)
(* when it is an expression (regex.cpp, run_unanchored).                       *)
AnswersAreTheLanguage ==
    /\ R!AnswersAreTheLanguage(source, pattern, learned)
    /\ Is(input, "spelling") => R!CompilesTheGrammar(input[2])

(* A text is parsed to the value it denotes, or refused when it denotes none,  *)
(* and so is a typed read of it (read.hpp, scan.hpp).                          *)
JsonRead(i) ==
    Is(i, "pick") /\ i[2] = "json" => /\ J!DocumentIsTheText(i[4])
                                     /\ \A T \in JsonTypes : J!TypedIsTheText(i[4], T)
JsonIsRead == [][JsonRead(input')]_vars

(* The tree of an xml document is the tree that was written, in whatever       *)
(* style; of any text at all no character outside the markup is lost and none  *)
(* is made up, but what precedes a stray "<" is delivered twice; the tokens of *)
(* a page are those that were written, and an escaped text reads back; a url   *)
(* comes apart at the joints of the grammar, except that a query with a "/"    *)
(* and no path before it loses what precedes the "/" (xml.cpp, html.cpp,       *)
(* url.hpp).                                                                   *)
MarkupRead(i) ==
    /\ Is(i, "xml") => M!XmlDocumentIsRead(i[2], i[3])
    /\ Is(i, "any") => M!XmlTextIsRead(i[2])
    /\ Is(i, "html") => M!HtmlTokensAreRead(i[2], i[3])
    /\ Is(i, "escape") => M!EscapedIsTheText(i[2])
    /\ Is(i, "url") => M!UrlIsRead(i[2])
MarkupIsRead == [][MarkupRead(input')]_vars

(* Arithmetic on limbs is arithmetic modulo the prime and the order; the       *)
(* addition formulas make the points a group; what a key signs is accepted     *)
(* under its public key, and a signature exactly when the equation of ECDSA    *)
(* holds (ec_core.hpp).                                                        *)
CurveWorks(i) ==
    /\ Is(i, "field") => FieldIsModular(i[2], i[3]) /\ CtFieldSelfcheck(ToLimbs(i[2]), ToLimbs(i[3]))
    /\ Is(i, "group") => GroupIsCyclic(i[2], i[3], i[4], i[5]) /\ CtAddSelfcheck
    /\ Is(i, "sign") => SignedIsVerified(i[2], i[3], i[4])
    /\ Is(i, "verify") => VerifyIsTheEquation(i[2], i[3], i[4], i[5])
SignaturesVerify == [][CurveWorks(input')]_vars

(* The ladder of X25519 gives the point's multiple, the secret both sides      *)
(* agree on; Ed25519 accepts what the owner of a key signs, and only what      *)
(* satisfies the equation with a scalar below the order (x25519.cpp,           *)
(* ed25519.cpp).                                                               *)
Curve25519Works(i) ==
    /\ Is(i, "agree") => C!SecretIsTheMultiple(i[2], i[3])
    /\ Is(i, "edsign") => C!OwnersSignatureIsAccepted(i[2], i[3])
    /\ Is(i, "edverify") => C!SignatureIsTheEquation(KeyBytes(i[2]), i[3], SignatureBytes(i[4], i[5]))
Curve25519IsAGroup == [][Curve25519Works(input')]_vars

(* A certificate is read as the one that was encoded, and a chain is trusted   *)
(* exactly when certificates in force lead from one for the host to an anchor, *)
(* each signed by the next; a server presents its chain exactly with the key   *)
(* of the leaf; an RSA signature stands exactly when it is the                 *)
(* encoding of what was signed (x509.hpp, validate; tls.cpp; rsa_verify.hpp).  *)
Trusted(i) ==
    /\ Is(i, "certificate") => X!CertificateIsRead(i[2])
    /\ Is(i, "chain") => X!TrustIsAPath(i[2], Host, SetToSeq(RootCerts), i[3])
    /\ Is(i, "server") => X!ServerPresentsItsKey(i[2], {RsaRoot, P256, P384, Ed, [P256 EXCEPT !.id = 9], [Ed EXCEPT !.id = 9]})
    /\ Is(i, "host") => (X!MatchDns(X!Lower(i[2]), X!Lower(i[3])) = X!Covers(i[2], i[3]))
    /\ Is(i, "rsa") => X!SignatureIsTheEncoding(i[2], i[3], i[4])
TrustIsAPath == [][Trusted(input')]_vars
=============================================================================
