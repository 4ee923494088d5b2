----------------------------- MODULE MCCodegen -----------------------------
(* Small programs for the code generator, a statement added at a time, and the
   places where what it emits is known to mean something else. *)
EXTENDS Meaning

CONSTANTS MaxStatements,
          Allowed            \* the pitfalls a program may step into

VARIABLES program            \* the statements between the prelude and the last prints
vars == <<program>>

I(x) == <<"ident", x>>
N(n) == <<"number", n>>
S(c) == <<"string", <<c>>>>
B(op, x, y) == <<"binary", op, x, y>>
Call1(f, xs) == <<"call", f, [i \in DOMAIN xs |-> <<"", xs[i]>>], <<>>>>
CallOf(f, xs) == Call1(I(f), xs)
Say(e) == <<"expr", Call1(<<"member", I("io"), "print">>, <<e>>)>>
LetIs(x, e) == <<"let", x, Nil, e, FALSE>>
Gets(x, e) == <<"assign", "=", I(x), e>>
n == I("n")
s == I("s")
xs == I("xs")
Err(e) == <<"raise", e>>
Neg(k) == <<"unary", "-", N(k)>>
Cut(x, a, b) == <<"slice", x, a, b>>
El(x, i) == <<"index", x, i>>
P(x) == <<x, <<>>, <<>>>>

(* fn f(a, b = 2) { return a + b }, fn g(h, a) { return h(a) } and a struct with a method. *)
Declarations ==
    << <<"import", <<"io">>, "", <<>>>>,
       <<"fn", "f", <<P("a"), <<"b", <<>>, N(2)>>>>, <<>>,
         <<Say(S("f")), <<"return", B("-", I("a"), I("b"))>>>>, FALSE>>,
       <<"fn", "new", <<P("h"), P("a")>>, <<>>, <<<<"return", CallOf("h", <<I("a")>>)>>>>, FALSE>>,
       <<"struct", "T", <<>>, <<<<"field", "n", <<"int">>>>, <<"field", "new", <<"int">>>>>>,
         <<<<"fn", "bump", <<P("self"), P("a")>>, <<>>,
             <<<<"for", "i", CallOf("range", <<I("a")>>),
                 <<<<"assign", "+=", <<"member", I("self"), "new">>, N(1)>>>>>>,
               <<"return", <<"member", I("self"), "new">>>>>>, FALSE>>>>>>,
       <<"enum", "E", <<<<"member", "a", Nil>>, <<"member", "b", Nil>>>>>> >>
Prelude == <<LetIs("n", N(1)), LetIs("s", S("a")), LetIs("xs", <<"list", <<N(5), N(7)>>>>)>>
Epilogue == <<Say(n), Say(s), Say(xs)>>

Texts == {S("b"), s, CallOf("str", <<n>>), B("+", S("n"), n), B("+", n, S("n")), CallOf("str", <<S("b")>>)}
Numbers == {N(2), n, B("-", n, N(3)), B("//", Neg(7), N(2)), B("%", Neg(7), N(3)), B("**", N(2), N(3)),
            B("//", n, B("-", n, N(1))), El(xs, Neg(1)), El(xs, n), El(xs, N(5)), CallOf("f", <<n>>),
            <<"call", I("f"), <<<<"b", N(1)>>, <<"a", N(9)>>>>, <<>>>>, CallOf("new", <<I("f"), n>>),
            CallOf("len", <<xs>>)}
Truths == {B("<", n, N(2)), B("==", s, S("a")), B("in", N(5), xs), B("in", S("a"), s), <<"unary", "not", B("==", n, N(1))>>,
           B("and", B("<", n, N(2)), B("==", El(xs, N(5)), N(1))),
           B("==", <<"member", I("E"), "a">>, <<"member", I("E"), "b">>)}
Lists == {<<"list", <<N(4), n>>>>, <<"list", <<<<"list", <<n>>>>>>>>, Cut(xs, N(1), Nil), Cut(xs, Neg(1), N(1)), Cut(xs, Nil, Neg(1))}
Simple ==
    {Say(e) : e \in Texts \union Numbers \union Truths \union Lists}
      \union {Gets("n", e) : e \in Numbers}
      \union {Gets("s", B("+", s, e)) : e \in Texts} \union {Gets("s", B("+", e, s)) : e \in Texts}
      \union {Gets("s", B("+", B("+", s, S("b")), e)) : e \in Texts \union {n}}
      \union {Gets("n", B("+", n, e)) : e \in {N(1), n, CallOf("len", <<xs>>)}}
      \union {Gets("xs", e) : e \in Lists} \union {<<"assign", "+=", I("n"), N(1)>>, <<"assign", "+=", s, S("c")>>}
      \union {<<"expr", Call1(<<"member", xs, "append">>, <<n>>)>>, <<"assign", "=", El(xs, N(0)), n>>}
      \union {<<"assign", "=", Cut(xs, a, b), e>> : a \in {Nil, N(1), Neg(1)}, b \in {Nil, N(0), Neg(1)},
                e \in {<<"list", <<>>>>, <<"list", <<n>>>>, xs}}
      \union {LetIs("y", e) : e \in {N(2), CallOf("f", <<n>>), B("+", I("n"), N(1)), El(xs, N(5))}}
      \union {LetIs("new", N(3)), Say(I("new")), Gets("new", N(4))}
      \union {<<"let", "y", Nil, Nil, FALSE>>, Gets("y", N(8)), Gets("y", B("+", I("y"), N(1))), Say(I("y"))}
      \union {<<"let", "c", Nil, N(1), TRUE>>, <<"let", "zs", <<"type", "list", <<>>, "">>, <<"list", <<>>>>, FALSE>>}
      \union {Err(S("b")), Err(CallOf("Error", <<S("index"), S("b")>>)), <<"raise", Nil>>}
      \union {LetIs("t", CallOf("T", <<<<"init", <<<<"new", N(3)>>>>>>>>)),
              Say(Call1(<<"member", I("t"), "bump">>, <<N(2)>>)), Say(<<"member", I("t"), "new">>)}
Leaves == {Say(n), Gets("n", B("+", n, N(1))), Gets("s", B("+", s, S("b"))), LetIs("y", N(2)), Gets("y", N(8)),
           Say(I("y")), Err(S("b")), Say(El(xs, N(5))), <<"break">>, <<"continue">>, <<"let", "y", Nil, Nil, FALSE>>,
           <<"raise", Nil>>}
Step1 == Gets("n", B("+", n, N(1)))
Catch(kind, b) == <<"e", kind, b>>
Case(p, b) == <<"case", p, b>>
Compound(b) ==
    {<<"if", c, b, e, FALSE>> : c \in {B("<", n, N(2)), I("c")}, e \in {<<>>, <<Say(S("b"))>>}}
      \union {<<"while", B("<", n, N(3)), b \o <<Step1>>>>, <<"while", B("<", n, N(3)), <<Step1>> \o b>>}
      \union {<<"for", "i", CallOf("range", <<N(2)>>), b>>, <<"for", "i", CallOf("range", <<n, N(3)>>), <<Say(I("i"))>> \o b>>,
              <<"for", "i", xs, b \o <<Say(I("i"))>>>>}
      \union {<<"with", n, x, b>> : x \in {"", "w"}}
      \union {<<"try", b, <<Catch(k, <<Say(I("e"))>>)>>, f, IF f THEN <<Say(S("f"))>> ELSE <<>>>> :
                k \in {Nil, S("index")}, f \in BOOLEAN}
      \union {<<"try", <<Err(S("b")), Say(n)>>, <<Catch(S("index"), <<Say(n)>>), Catch(Nil, b), Catch(Nil, <<Say(s)>>)>>, TRUE, <<Step1>>>>}
      \union {<<"match", n, <<Case(N(1), b), Case(N(2), <<Say(S("b"))>>), Case(Nil, b)>>, FALSE>>,
              <<"match", s, <<Case(S("b"), <<Say(n)>>), Case(S("a"), b)>>, FALSE>>,
              <<"match", I("c"), <<Case(N(1), b), Case(Nil, <<Say(S("b"))>>)>>, FALSE>>,
              <<"match", I("c"), <<Case(N(2), b), Case(N(1), <<Say(S("b"))>>)>>, TRUE>>}
Blocks == UNION {Compound(<<x>>) : x \in Leaves}
            \union UNION {Compound(<<x, y>>) : x \in {LetIs("y", N(2)), <<"let", "y", Nil, Nil, FALSE>>},
                                               y \in {Gets("y", N(8)), Say(I("y")), <<"continue">>}}
Nested == UNION {Compound(<<x>>) : x \in UNION {Compound(<<y>>) : y \in {Say(n), <<"break">>, Err(S("b"))}}}
After1 == {Say(I("y")), Gets("y", N(8)), <<"break">>, Say(El(xs, N(1)))}

Source(p) == Declarations \o Prelude \o p \o Epilogue

Init == program = <<>>
Next == /\ Len(program) < MaxStatements
        /\ \E t \in IF program = <<>> THEN Simple \union Blocks \union Nested
                    ELSE IF Last(program) \in Simple THEN Simple ELSE After1 :
             program' = Append(program, t)
Spec == Init /\ [][Next]_vars

-----------------------------------------------------------------------------
(* Pitfalls: shapes of program whose C++ is known to mean something else. *)

RECURSIVE Blocks1(_), Within(_)
Within(e) == {e} \union UNION {Within(Kids(e)[i]) : i \in DOMAIN Kids(e)}
Blocks1(b) == {b} \union UNION {UNION {Blocks1(Bodies(b[i])[j]) : j \in DOMAIN Bodies(b[i])} : i \in DOMAIN b}
Has(b, F(_)) == \E c \in Blocks1(b) : \E i \in DOMAIN c : F(c[i])
Later(c, i) == SubSeq(c, i + 1, Len(c))
AssignsTo(x, t) == t[1] = "assign" /\ t[3] = I(x)
MayRaise(e) == \E d \in Within(e) : d[1] = "index" \/ (d[1] = "binary" /\ d[2] \in {"//", "%"})
UnreadLet(c, i) == c[i][1] = "let" /\ c[i][4] # Nil /\ ~BlockReads(Later(c, i), c[i][2])
Passes(t, x) == \E i \in DOMAIN Reads(t) : \E d \in Within(Reads(t)[i]) :
                  d[1] = "call" /\ \E j \in DOMAIN d[3] : d[3][j][2] = x

Pitfalls(p) ==
    LET some(F(_, _)) == \E c \in Blocks1(p) : \E i \in DOMAIN c : F(c, i)
    IN  (* a self-append keeps its operands as they are: a number becomes a character *)
        (IF Has(p, LAMBDA t : /\ t[1] = "assign" /\ t[2] = "=" /\ t[3][1] = "ident" /\ SelfAppend(t[3][2], t[4])
                              /\ Textual(t[4])
                              /\ \E i \in DOMAIN FlattenAdd(t[4]) : i > 1 /\ FlattenAdd(t[4])[i] = n)
         THEN {"self append"} ELSE {})
        \union
        (* an unread let is dropped, and with it the variable that is assigned later, or
           the error its value would have raised *)
        (IF some(LAMBDA c, i : UnreadLet(c, i) /\ (Has(Later(c, i), LAMBDA t : AssignsTo(c[i][2], t)) \/ MayRaise(c[i][4])))
         THEN {"unread let"} ELSE {})
        \union
        (* asking whether a let without a value reads a name reads through a null pointer *)
        (IF some(LAMBDA c, i : c[i][1] = "let" /\ c[i][4] # Nil
                                 /\ Has(Later(c, i), LAMBDA t : t[1] = "let" /\ t[4] = Nil))
         THEN {"let without a value"} ELSE {})
        \union
        (* a break in the arm of a match that is a switch leaves only the switch *)
        (IF Has(p, LAMBDA t : t[1] = "match" /\ Has(<<t>>, LAMBDA u : u = <<"break">>))
         THEN {"break in match"} ELSE {})
        \union
        (* a length is unsigned *)
        (IF Has(p, LAMBDA t : t[1] = "assign" /\ RefersTo(t[4], "len")) THEN {"length kept"} ELSE {})
        \union
        (* the end of a range is computed anew before every turn *)
        (IF Has(p, LAMBDA t : t[1] = "for" /\ t[3][1] = "call" /\ RefersTo(Last(t[3][3])[2], "n"))
         THEN {"range"} ELSE {})
        \union
        (* an argument that is named like a function is that function, whatever is in scope,
           and then under the name it has in the source *)
        (IF Has(p, LAMBDA t : Passes(t, I("new"))) THEN {"shadowed function"} ELSE {})

(* The C++ that is emitted for a program compiles, and it prints what the program
   means and ends as it ends (run, codegen.cpp:530), for every program that is in
   order and steps into no pitfall but the allowed ones. *)
MeansTheSame(p) ==
    LET prog == Source(p)
        cpp == Emit(prog)
    IN  (WellFormed(prog) /\ Pitfalls(Prelude \o p) \subseteq Allowed) =>
            LET meant == Meant(prog)
            IN  meant.how # "ill" => Compiles(cpp) /\ Done(cpp) = meant
=============================================================================
