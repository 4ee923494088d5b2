------------------------------ MODULE MCParser ------------------------------
(* Programs for the parser: one statement each, written as Spelling writes it,
   and then damaged in one of its tokens. *)
EXTENDS Parser
P == INSTANCE Spelling

CONSTANTS MaxTokens          \* the tokens that are damaged: the first MaxTokens of a program

VARIABLES tree,              \* the program that was written
          damage             \* <<>>, or the token that goes missing, is replaced or slips in
vars == <<tree, damage>>

a == <<"ident", "a">>
b == <<"ident", "b">>
one == <<"number", "1">>
T == <<"type", "T", <<>>, "">>
Binary(ops, S, U) == {<<"binary", op, x, y>> : op \in ops, x \in S, y \in U}
Unary(S) == {<<"unary", op, x>> : op \in {"not", "-", "&"}, x \in S}
Post(S) ==
    {<<"member", x, "b">> : x \in S} \union {<<"index", x, <<y>>>> : x \in S, y \in S}
      \union {<<"slice", x, y, z>> : x \in S, y \in {Nil, one}, z \in {Nil, one}}
      \union {<<"call", x, <<>>, <<>>>> : x \in S}
      \union {<<"call", a, <<<<"", x>>, <<"b", x>>>>, <<>>>> : x \in S}
      \union {<<k, <<x, a>>>> : k \in {"list"}, x \in S}
      \union {<<"dict", <<<<a, x>>>>>> : x \in S} \union {<<"init", <<<<"b", x>>>>>> : x \in S}
Ops == {"or", "and", "in", "<", ">", "-", "*", "//", "**"}
Small == {a, one}
Level1 == Binary(Ops, {a}, {one}) \union Unary({a}) \union Post({a}) \union
    {<<"call", <<"member", a, "b">>, <<<<"", one>>>>, <<T, <<"size", "1">>>>>>,
     <<"index", a, <<one, b>>>>, <<"string", "s">>, <<"bool", "true">>}
Level2 == Binary(Ops, Level1, Small \union Level1) \union Binary(Ops, Small, Level1)
            \union Unary(Level1) \union Post(Level1)

One == <<"expr", a>>
Set1 == <<"assign", "=", a, one>>
Conds == {a, <<"binary", "<", a, one>>, <<"unary", "not", b>>}
Types == {T, <<"type", "T", <<T>>, "1">>, <<"qualified", <<"a", ".", "T", "<", "T", ",", "1", ">">>>>}
If(x) == <<"if", x, <<Set1>>, <<>>, FALSE>>
Params == {<<>>, <<<<"a", <<>>, <<>>>>>>,
           <<<<"a", <<"const", "T">>, <<>>>>, <<"b", <<"T", "<", "T", "<", "1", ">", ">">>, one>>>>}
Fn(ps, r, cx) == <<"fn", "a", ps, r, <<<<"return", a>>, <<"return", Nil>>>>, cx>>
Statements1 ==
    {<<"expr", x>> : x \in Level1}
      \union {<<"assign", op, x, one>> : op \in {"=", "+="}, x \in {a, <<"member", a, "b">>, <<"index", a, <<one>>>>}}
      \union {<<"assign", "=", <<"slice", a, one, Nil>>, b>>}
      \union {<<"let", "a", ty, v, cx>> : ty \in {Nil} \union Types, v \in {Nil, one}, cx \in BOOLEAN}
      \union {<<"if", x, <<Set1>>, y, FALSE>> : x \in Conds, y \in {<<>>, <<One>>, <<If(b)>>, <<If(b), One>>}}
      \union {<<"if", x, <<Set1>>, <<<<"if", b, <<One>>, <<One>>, TRUE>>>>, TRUE>> : x \in {a}}
      \union {<<"while", x, <<Set1, <<"break">>>>>> : x \in Conds}
      \union {<<"for", "a", x, <<<<"continue">>>>>> : x \in Conds}
      \union {<<"with", x, y, <<One>>>> : x \in Conds, y \in {"", "b"}}
      \union {<<k, x>> : k \in {"return", "raise"}, x \in {Nil} \union Conds}
      \union {<<"try", <<One>>, h, f, IF f THEN <<Set1>> ELSE <<>>>> :
                h \in {<<<<"", Nil, <<One>>>>>>, <<<<"a", <<"member", b, "T">>, <<>>>>, <<"b", Nil, <<<<"raise", Nil>>>>>>>>},
                f \in BOOLEAN}
      \union {<<"match", x, <<<<"case", one, <<Set1>>>>, <<"case", Nil, <<>>>>>>, cx>> : x \in {a}, cx \in BOOLEAN}
      \union {Fn(ps, r, cx) : ps \in Params, r \in {<<>>, <<"a", ".", "T">>}, cx \in BOOLEAN}
      \union {<<"struct", "T", f, <<<<"field", "a", ty>>, <<"field", "b", T>>>>, ms>> :
                f \in {<<>>, <<<<"a">>, <<"b">>>>}, ty \in Types, ms \in {<<>>, <<Fn(<<>>, <<>>, FALSE)>>}}
      \union {<<"enum", "T", <<<<"member", "a", v>>, <<"member", "b", Nil>>>>>> : v \in {Nil, one}}
      \union {<<"interface", "T", <<<<"signature", "a", ts>>, <<"signature", "b", <<>>>>>>>> :
                ts \in {<<>>, <<T>>, <<<<"type", "", <<>>, "">>, T>>}}
      \union {<<"import", m, al, <<>>>> : m \in {<<"a">>, <<"a", ".", "b">>}, al \in {"", "T"}}
      \union {<<"import", m, "", sy>> : m \in {<<"a">>, <<"a", ".", "b">>}, sy \in {<<<<"T">>>>, <<<<"T">>, <<"b">>>>}}
      \union {<<"cpp", "cpp{}">>}
Nested == <<"call", a, <<>>, <<<<"type", "T", <<T, <<"size", "1">>>>, "">>, T>>>>
Trees == {<<<<"expr", Nested>>>>} \union {<<x>> : x \in Statements1} \union {<<<<"expr", x>>>> : x \in Level2}
           \union {<<x, y>> : x, y \in {One, Set1, If(a), <<"return", Nil>>, <<"let", "a", Nil, Nil, FALSE>>}}

Written(t) == P!Lines([i \in DOMAIN t |-> P!SpellStatement(t[i])])
Edited == {<<x>> : x \in {s \in Statements1 : s[1] # "interface"}}
Marks == {"a", "let", "{", "}", "(", ")", "[", ",", ":", ";", "=", ".", "<", ">", "-", "fn", "case",
          "else", "of", "constexpr", "NL"}
Damaged(w, d) ==
    IF d = <<>> \/ d[2] >= Len(w) THEN w
    ELSE CASE d[1] = "gone" -> RemoveAt(w, d[2])
           [] d[1] = "other" -> [w EXCEPT ![d[2]] = d[3]]
           [] d[1] = "more" -> InsertAt(w, d[2], d[3])

Init == tree = <<>> /\ damage = <<>>
Write == tree = <<>> /\ tree' \in Trees /\ UNCHANGED damage
Damage == /\ tree \in Edited /\ damage = <<>>
          /\ \E i \in 1 .. MaxTokens :
                damage' \in {<<"gone", i>>} \union {<<"other", i, m>> : m \in Marks}
                             \union {<<"more", i, m>> : m \in {"NL", ";", ",", "else", "b"}}
          /\ UNCHANGED tree
Next == Write \/ Damage
Spec == Init /\ [][Next]_vars

-----------------------------------------------------------------------------
(* What a program says, whatever the layout: its tokens without parentheses,
   braces and separators, without the words of an else-if chain, which the tree
   keeps as nested ifs, and without `const`, which only a typed parameter keeps. *)
Words(ts) == SelectSeq(ts, LAMBDA x : x \notin
    {"(", ")", "{", "}", ",", ";", "NL", "END", "else", "if", "elif", "constexpr", "const"})

(* A program is read as it was written: the tree that comes back is the tree that
   was spelled, and nothing is reported (parse, parser.cpp:19).  And damage is
   never passed over in silence: whatever the tokens, the parser comes to their
   end, and when it reports nothing every word of the program is in the tree, in
   its place, so the program it compiles is the program in the file. *)
ReadsWhatIsWritten(t, d) ==
    LET toks == Damaged(Append(Written(t), "END"), d)
        r == ParseTokens(toks)
    IN  /\ Peek(r.s) = "END"
        /\ d = <<>> => r.s.e = 0 /\ r.n = t
        /\ r.s.e = 0 => Words(Written(r.n)) = Words(toks)
=============================================================================
