----------------------------- MODULE MarkupText -----------------------------
(* The ways to write down a tree, a list of tokens or a URL: the reference for the
   parsers of Markup, each of which has to read back what was written.  A style says
   which of the ways is taken. *)
EXTENDS Markup

Special == {"&", "<", ">", "\"", "'"}
NamedRef == ("&" :> <<"&", "amp", ";">>) @@ ("<" :> <<"&", "lt", ";">>) @@ (">" :> <<"&", "gt", ";">>)
              @@ ("\"" :> <<"&", "quot", ";">>) @@ ("'" :> <<"&", "#", "3", "9", ";">>)
NumberRef == ("&" :> <<"&", "#", "3", "8", ";">>) @@ ("<" :> <<"&", "#", "x", "3", "c", ";">>)
              @@ (">" :> <<"&", "#", "6", "2", ";">>) @@ ("\"" :> <<"&", "#", "3", "4", ";">>)
              @@ ("'" :> <<"&", "#", "X", "2", "7", ";">>)
(* style: [quote, gap, numbers, self, cdata, implied, noise, upper] *)
Written(s, style) == FlattenSeq([i \in DOMAIN s |->
    IF s[i] \notin Special THEN <<s[i]>> ELSE IF style.numbers THEN NumberRef[s[i]] ELSE NamedRef[s[i]]])
Bare(v) == v # <<>> /\ ToSet(v) \intersect (Special \union Space \union {"=", "/"}) = {}
Upper(s, style) == IF style.upper THEN [i \in DOMAIN s |->
    IF \E c \in DOMAIN Lower : Lower[c] = s[i] THEN CHOOSE c \in DOMAIN Lower : Lower[c] = s[i] ELSE s[i]] ELSE s
Attribute(a, style) ==
    <<" ">> \o Upper(a[1], style)
      \o IF style.quote = "none" /\ a[2] = <<>> THEN <<>>
         ELSE style.gap \o <<"=">> \o style.gap
                \o IF style.quote = "none" /\ Bare(a[2]) THEN a[2] \o <<" ">>
                   ELSE LET q == IF style.quote = "none" THEN "'" ELSE style.quote
                        IN  <<q>> \o Written(a[2], style) \o <<q>>
Opening(tag, attrs, style) ==
    <<"<">> \o Upper(tag, style) \o FlattenSeq([k \in DOMAIN attrs |-> Attribute(attrs[k], style)]) \o style.gap
EndTag(tag, style) == <<"<", "/">> \o Upper(tag, style) \o style.gap \o <<">">>

-----------------------------------------------------------------------------
(* xml trees: <<"text", characters>> or <<"element", tag, attributes, children>>. *)

WriteText(t, style) ==       \* as references, or its end as CDATA
    IF ~style.cdata THEN Written(t, style)
    ELSE Written(SubSeq(t, 1, 1), style) \o CdataOpen \o Tail(t) \o CdataClose
RECURSIVE WriteNode(_, _, _)
WriteAll(nodes, style, last) == FlattenSeq([k \in DOMAIN nodes |->
    style.noise \o WriteNode(nodes[k], style, last /\ k = Len(nodes))])
WriteNode(n, style, last) == \* the end tag of what ends with its parent may be left out
    IF n[1] = "text" THEN WriteText(n[2], style)
    ELSE IF style.self /\ n[4] = <<>> THEN Opening(n[2], n[3], style) \o <<"/", ">">>
    ELSE Opening(n[2], n[3], style) \o <<">">> \o WriteAll(n[4], style, TRUE)
           \o IF style.implied /\ last THEN <<>> ELSE EndTag(n[2], style)

RECURSIVE ReadTree(_, _)
ReadTree(doc, id) ==         \* texts side by side are one text
    LET Join(kids, t) ==
            IF t[1] = "text" /\ kids # <<>> /\ Last(kids)[1] = "text"
            THEN Append(Front(kids), <<"text", Last(kids)[2] \o t[2]>>) ELSE Append(kids, t)
        kids == FoldLeft(LAMBDA ks, c : Join(ks, ReadTree(doc, c)), <<>>, doc[id].children)
    IN  IF id = Root THEN kids
        ELSE IF doc[id].element THEN <<"element", doc[id].tag, doc[id].attrs, kids>> ELSE <<"text", doc[id].text>>

(* The walks follow the order of the document, which is the order of the ids: every
   node but the root is the child of one node, and of an earlier one, and text and
   iter meet the nodes below a node in the order in which they were written. *)
WalksInOrder(doc) ==
    LET Parents(x) == {y \in DOMAIN doc : x \in ToSet(doc[y].children)}
        under[x \in DOMAIN doc] == {x} \union UNION {under[c] : c \in ToSet(doc[x].children)}
        InOrder(S) == SetToSortSeq(S, <)
    IN  \A x \in DOMAIN doc :
          /\ x # Root => Cardinality(Parents(x)) = 1 /\ \A y \in Parents(x) : y < x
          /\ IsInjective(doc[x].children)
          /\ doc[x].element =>
               LET texts == InOrder({y \in under[x] : ~doc[y].element})
               IN  CollectText(doc, x) = FlattenSeq([k \in DOMAIN texts |-> doc[texts[k]].text])
          /\ \A tag \in {doc[y].tag : y \in DOMAIN doc} \ {<<>>} :
               /\ Iter(doc, x, tag) = InOrder({y \in under[x] : doc[y].tag = tag})
               /\ FindFirst(doc, x, tag) = {y \in ToSet(FindAll(doc, x, tag)) : \A z \in ToSet(FindAll(doc, x, tag)) : y <= z}

(* The texts of any s whatever, one run between two pieces of markup after the other: a
   "<" that begins no markup is a character of its run, but what stands before it in the
   run is delivered as a text of its own as well (xml.cpp:164, 223). *)
MarkupEnds(s, i) ==
    CASE At(s, i) # "<" -> {}
      [] Here(s, i, CommentOpen) -> {Past(s, i + 4, CommentClose)}
      [] Here(s, i, CdataOpen) -> {Past(s, i + 5, CdataClose)}
      [] At(s, i + 1) \in {"?", "!", "/"} -> {Past(s, i + 2, <<">">>)}
      [] At(s, i + 1) \in NameStart ->
           {Min({Attributes(Xml, s, While(s, i + 1, NameChar), <<>>, FALSE)[2], Len(s)}) + 1}
      [] OTHER -> {}
RECURSIVE TextsFrom(_, _)
TextsFrom(s, from) ==
    LET marks == {j \in from .. Len(s) : MarkupEnds(s, j) # {}}
        to == Min(marks \union {Len(s) + 1})
        stops == SetToSortSeq({j \in from .. to - 1 : s[j] = "<"} \union {to}, <)
        run == [k \in DOMAIN stops |-> Decode(Between(s, from, stops[k]), XmlEntity)]
        cdata == IF Here(s, to, CdataOpen) THEN <<Between(s, to + 5, Stop(s, to + 5, CdataClose))>> ELSE <<>>
    IN  run \o cdata \o FlattenSeq(SetToSeq({TextsFrom(s, e) : e \in MarkupEnds(s, to)}))
Visible(texts) == SelectSeq(texts, LAMBDA x : ~(ToSet(x) \subseteq Space))
TextsOf(doc) == LET ids == SetToSortSeq({y \in DOMAIN doc : y # Root /\ ~doc[y].element}, <)
                IN  [k \in DOMAIN ids |-> doc[ids[k]].text]

(* A document, however it is written, is read back as the tree it was; and any text at
   all is read as a tree whose texts, the blank ones aside, are those above. *)
XmlDocumentIsRead(forest, style) == ReadTree(XmlParse(WriteAll(forest, style, FALSE)), Root) = forest
XmlTextIsRead(s) == WalksInOrder(XmlParse(s)) /\ Visible(TextsOf(XmlParse(s))) = Visible(TextsFrom(s, 1))

-----------------------------------------------------------------------------
(* html tokens. *)

WriteToken(tokens, k, style) ==
    LET t == tokens[k]
        raw == k > 1 /\ tokens[k - 1][1] = "starttag" /\ tokens[k - 1][2] \in RawText
    IN  CASE t[1] = "data" -> IF raw THEN t[3] ELSE Written(t[3], style)
          [] t[1] = "comment" -> CommentOpen \o t[3] \o CommentClose
          [] t[1] = "decl" -> <<"<", "!">> \o t[3] \o <<">">>
          [] t[1] = "pi" -> <<"<", "?">> \o t[3] \o <<">">>
          [] t[1] = "endtag" -> EndTag(t[2], style)
          [] t[1] = "starttag" -> Opening(t[2], t[4], style) \o <<">">>
          [] t[1] = "startendtag" -> Opening(t[2], t[4], style) \o <<"/">> \o style.gap \o <<">">>
(* Lists of tokens a text can have: no two texts in a row, and a raw text up to its end tag. *)
Sound(tokens) ==
    /\ \A k \in DOMAIN tokens : tokens[k][1] = "data" =>
          tokens[k][3] # <<>> /\ (k = Len(tokens) \/ tokens[k + 1][1] # "data")
    /\ \A k \in DOMAIN tokens : tokens[k][1] = "starttag" /\ tokens[k][2] \in RawText =>
          \/ k = Len(tokens)
          \/ tokens[k + 1] = Token("endtag", tokens[k][2], <<>>, <<>>)
          \/ /\ tokens[k + 1][1] = "data" /\ FoundCi(tokens[k + 1][3], 1, <<"<", "/">> \o tokens[k][2]) = {}
             /\ k + 1 = Len(tokens) \/ tokens[k + 2] = Token("endtag", tokens[k][2], <<>>, <<>>)

(* Tokens are read back as they were, in any style; and what escape writes, in a text
   or between quotes, neither ends it nor changes it. *)
HtmlTokensAreRead(tokens, style) ==
    Sound(tokens) => HtmlParse(FlattenSeq([k \in DOMAIN tokens |-> WriteToken(tokens, k, style)])) = tokens
EscapedIsTheText(s) == \A quote \in BOOLEAN :
    /\ Decode(Escape(s, quote), HtmlEntity) = s
    /\ ToSet(Escape(s, quote)) \intersect ({"<", ">"} \union IF quote THEN Quotes ELSE {}) = {}
    /\ s # <<>> => HtmlParse(Escape(s, quote)) = <<Token("data", <<>>, s, <<>>)>>

-----------------------------------------------------------------------------
(* u: [scheme, user, host, port, path, query, fragment], each a sequence, <<>> when it
   is not there; a port, a query and a fragment bring their own first character. *)
WriteUrl(u) == u.scheme \o <<":", "/", "/">> \o u.user \o u.host \o u.port \o u.path \o u.query \o u.fragment
Number(digits) == FoldLeft(LAMBDA v, d : 10 * v + DigitOf[d], 0, digits)
Legal(u) == /\ Lowered(u.scheme) \in {<<"http">>, <<"https">>} /\ u.user = <<>> /\ u.fragment = <<>> /\ u.host # <<>>
            /\ u.port # <<>> => Len(u.port) \in 2 .. 6 /\ ToSet(Tail(u.port)) \subseteq Decimal
                                  /\ Number(Tail(u.port)) \in 1 .. 65535
(* Without a path, what stands in the query before its first "/" is lost, since the "/"
   is taken for the path's (url.hpp:97-98). *)
QueryRead(u) == IF u.path # <<>> THEN u.query ELSE LET slash == Until(u.query, 1, {"/"})
                IN  IF slash > Len(u.query) THEN <<"/">> \o u.query ELSE SubSeq(u.query, slash, Len(u.query))
UrlIsRead(u) ==              \* a URL of the subset is taken apart into its parts, and no other is taken
    UrlParse(WriteUrl(u)) =
      IF ~Legal(u) THEN {}
      ELSE {[scheme |-> Lowered(u.scheme), host |-> u.host,
             port |-> IF u.port # <<>> THEN Number(Tail(u.port)) ELSE IF Lowered(u.scheme) = <<"http">> THEN 80 ELSE 443,
             target |-> u.path \o QueryRead(u)]}
=============================================================================
