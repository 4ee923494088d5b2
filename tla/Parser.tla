------------------------------- MODULE Parser -------------------------------
(* The recursive-descent parser of src/compiler/parser.cpp: tokens to a syntax
   tree.  A token is its text: a keyword, a punctuation mark, "NL", "END", or a
   member of Identifiers, Numbers, Strings, CppBlocks.  The parser's state s is
   its token list t, its cursor p and the number e of its diagnostics; every
   parse function returns R(n, s), the node it made (Nil when it made none) and
   the state it left.  A node is a tuple that starts with its kind. *)
EXTENDS Naturals, SequencesExt

CONSTANTS Identifiers, Numbers, Strings, CppBlocks

Nil == <<>>
Abort == <<"abort">>
R(n, s) == [n |-> n, s |-> s]
Stops == {"NL", ";", "}", "END"}

Peek(s) == s.t[s.p]
Is(s, S) == Peek(s) \in S
NextIs(s, S) == s.p < Len(s.t) /\ s.t[s.p + 1] \in S
Adv(s) == IF Peek(s) = "END" THEN s ELSE [s EXCEPT !.p = @ + 1]
Err(s) == [s EXCEPT !.e = @ + 1]
Forward(s, S) == [s EXCEPT !.p = Min({i \in s.p .. Len(s.t) : s.t[i] \in S})]
Past(s, S) == [s EXCEPT !.p = Min({i \in s.p .. Len(s.t) : s.t[i] \notin S})]
SkipSeparators(s) == Past(s, {"NL", ";"})
SkipNewlines(s) == Past(s, {"NL"})
Synchronize(s) == Forward(s, Stops)
Fail(s) == R(Nil, Synchronize(Err(s)))
Bad(s) == R(Nil, Err(s))
Close(r, mark) == R(r.n, IF Peek(r.s) = mark THEN Adv(r.s) ELSE Err(r.s))
EndsStatement(s) == Is(s, Stops)

RECURSIVE Parse(_, _), BinaryTail(_, _), PostfixTail(_), CommaList(_, _, _),
          Statement(_), Statements(_, _, _), Members(_, _, _), IfRest(_, _), Handlers(_, _),
          TypeString(_), AngleString(_, _), Dotted(_, _), Type(_), TypeArgs(_, _),
          AngleArgs(_, _), AngleType(_)

-----------------------------------------------------------------------------
(* Types. *)

Dotted(s, path) ==
    IF Peek(s) # "." THEN R(path, s)
    ELSE IF Is(Adv(s), Identifiers) THEN Dotted(Adv(Adv(s)), path \o <<".", Peek(Adv(s))>>)
    ELSE R(Append(path, "."), Err(Adv(s)))

AngleString(s, toks) ==      \* s stands behind a "<" or a ","
    LET a == IF Is(s, Numbers) THEN R(<<Peek(s)>>, Adv(s)) ELSE TypeString(s)
        got == toks \o a.n
    IN  IF ~Is(s, Numbers \union Identifiers) THEN R(toks, Err(s))
        ELSE IF Peek(a.s) = "," THEN AngleString(Adv(a.s), Append(got, ","))
        ELSE R(got, a.s)

TypeString(s) ==
    IF ~Is(s, Identifiers) THEN R(Nil, Err(s))
    ELSE LET d == Dotted(Adv(s), <<Peek(s)>>)
             a == AngleString(Adv(d.s), Append(d.n, "<"))
         IN  IF Peek(d.s) # "<" THEN d
             ELSE IF Peek(a.s) = ">" THEN R(Append(a.n, ">"), Adv(a.s)) ELSE R(a.n, Err(a.s))

(* An unqualified type keeps its arguments in ty.args and its last size in
   ty.size: <<"type", name, args, size>>; a qualified one keeps its spelling. *)
TypeArgs(s, ty) ==
    LET a == Type(s)
        r == IF Is(s, Numbers) THEN R([ty EXCEPT ![4] = Peek(s)], Adv(s))
             ELSE R([ty EXCEPT ![3] = Append(@, a.n)], a.s)
    IN  IF ~Is(s, Numbers \union Identifiers) THEN R(ty, Err(s))
        ELSE IF Peek(r.s) = "," THEN TypeArgs(Adv(r.s), r.n) ELSE r

Type(s) ==
    LET ty == <<"type", Peek(s), <<>>, "">>
        s1 == Adv(s)
        Depth(i) == Cardinality({j \in s1.p .. i : s1.t[j] = "["})
                    - Cardinality({j \in s1.p .. i : s1.t[j] = "]"})
        closed == {i \in s1.p .. Len(s1.t) : s1.t[i] = "END" \/ Depth(i) = 0}
    IN  IF ~Is(s, Identifiers) THEN R(<<"type", "", <<>>, "">>, Err(s))
        ELSE CASE Peek(s1) = "." -> LET q == TypeString(s) IN R(<<"qualified", q.n>>, q.s)
               [] Peek(s1) = "[" -> R(ty, Adv([Err(s1) EXCEPT !.p = Min(closed)]))
               [] Peek(s1) = "<" -> Close(TypeArgs(Adv(s1), ty), ">")
               [] OTHER -> R(ty, s1)

AngleType(s) ==
    LET a == AngleArgs(Adv(Adv(s)), <<>>)
    IN  IF Peek(Adv(s)) # "<" THEN R(<<"type", Peek(s), <<>>, "">>, Adv(s))
        ELSE R(<<"type", Peek(s), a.n, "">>, IF Peek(a.s) = ">" THEN Adv(a.s) ELSE a.s)

AngleArg(s) == IF Is(s, Numbers) THEN R(<<"size", Peek(s)>>, Adv(s)) ELSE AngleType(s)

AngleArgs(s, args) ==
    LET a == AngleArg(s)
    IN  IF ~Is(s, Identifiers \union Numbers) THEN R(args, s)
        ELSE IF Peek(a.s) = "," THEN AngleArgs(Adv(a.s), Append(args, a.n))
        ELSE R(Append(args, a.n), a.s)

TryTypeArgs(s) ==            \* Nil: not type arguments, and the cursor has not moved
    LET a == AngleArgs(Adv(s), <<>>)
        closes == a.n # <<>> /\ a.s.t[a.s.p - 1] # "," /\ Peek(a.s) = ">" /\ NextIs(a.s, {"("})
    IN  IF closes THEN R(a.n, Adv(a.s)) ELSE R(Nil, s)

-----------------------------------------------------------------------------
(* Lists separated by commas: a Nil item ends the list where it is, an Abort
   item ends the construct that holds it. *)

Broken(l) == l.n # <<>> /\ (Last(l.n) = Nil \/ Last(l.n) = Abort)
Aborted(l) == l.n # <<>> /\ Last(l.n) = Abort
Kept(l) == IF Broken(l) THEN Front(l.n) ELSE l.n

Argument(s, before) ==
    LET named == Is(s, Identifiers) /\ NextIs(s, {"="})
        late == ~named /\ before # <<>> /\ Last(before)[1] # ""
        e == Parse("or", IF named THEN Adv(Adv(s)) ELSE IF late THEN Err(s) ELSE s)
    IN  R(IF e.n = Nil THEN Nil ELSE <<IF named THEN Peek(s) ELSE "", e.n>>, e.s)

Parameter(s, before) ==
    LET const == Peek(s) = "const" /\ NextIs(s, Identifiers)
        name == IF const THEN Adv(s) ELSE s
        s1 == Adv(name)
        ty == IF Peek(s1) # ":" THEN R(Nil, s1)
              ELSE IF Is(Adv(s1), Identifiers) THEN TypeString(Adv(s1)) ELSE Bad(Adv(s1))
        default == IF Peek(ty.s) = "=" THEN Parse("or", Adv(ty.s))
                   ELSE R(Nil, IF before # <<>> /\ Last(before)[3] # Nil THEN Err(ty.s) ELSE ty.s)
    IN  IF ~Is(s, Identifiers) THEN Bad(s)
        ELSE R(<<Peek(name), IF const /\ ty.n # Nil THEN <<"const">> \o ty.n ELSE ty.n, default.n>>,
               default.s)

InterfaceParameter(s, before) ==
    IF ~Is(s, Identifiers) THEN Bad(s)
    ELSE IF before # <<>> /\ Peek(Adv(s)) = ":" THEN Type(Adv(Adv(s)))
    ELSE R(<<"type", "", <<>>, "">>, Adv(s))

Entry(s) ==
    LET k == Parse("or", s)
        v == Parse("or", Adv(k.s))
    IN  IF k.n = Nil THEN k
        ELSE IF Peek(k.s) # ":" THEN R(Abort, Err(k.s))
        ELSE IF v.n = Nil THEN v ELSE R(<<k.n, v.n>>, v.s)

FieldValue(s) ==
    LET v == Parse("or", Adv(Adv(Adv(s))))
    IN  IF Peek(s) # "." THEN R(Abort, Err(s))
        ELSE IF ~Is(Adv(s), Identifiers) THEN R(Abort, Err(Adv(s)))
        ELSE IF Peek(Adv(Adv(s))) # "=" THEN R(Abort, Err(Adv(Adv(s))))
        ELSE IF v.n = Nil THEN R(Abort, v.s)
        ELSE R(<<Peek(Adv(s)), v.n>>, SkipNewlines(v.s))

CommaList(kind, s, before) ==
    LET x == CASE kind = "argument" -> Argument(s, before)
               [] kind = "parameter" -> Parameter(s, before)
               [] kind = "interface parameter" -> InterfaceParameter(s, before)
               [] kind = "element" -> Parse("or", s)
               [] kind = "index" -> LET i == Parse("or", s)
                                    IN  R(IF i.n = Nil THEN Abort ELSE i.n, i.s)
               [] kind = "entry" -> Entry(s)
               [] kind = "field value" -> IF Is(s, {"}", "END"}) THEN R(Nil, s) ELSE FieldValue(s)
               [] kind = "symbol" -> IF Is(s, Identifiers) THEN R(<<Peek(s)>>, Adv(s)) ELSE R(Abort, Err(s))
               [] kind = "fulfills" -> IF Is(s, Identifiers) THEN R(<<Peek(s)>>, Adv(s)) ELSE Bad(s)
        l == R(Append(before, x.n), x.s)
    IN  IF Broken(l) \/ Peek(x.s) # "," THEN l
        ELSE CommaList(kind, IF kind \in {"element", "entry", "field value"}
                             THEN SkipNewlines(Adv(x.s)) ELSE Adv(x.s), l.n)

-----------------------------------------------------------------------------
(* Expressions, from the loosest binding to the tightest. *)

Operators ==
    [l \in {"or", "and", "comparison", "additive", "multiplicative"} |->
       CASE l = "or" -> {"or"}
         [] l = "and" -> {"and"}
         [] l = "comparison" -> {"in", "==", "!=", "<", "<=", ">", ">="}
         [] l = "additive" -> {"+", "-"}
         [] l = "multiplicative" -> {"*", "%", "/", "//", "^"}]
Tighter(l) == CASE l = "or" -> "and" [] l = "and" -> "not" [] l = "comparison" -> "additive"
                [] l = "additive" -> "multiplicative" [] l = "multiplicative" -> "unary"

BinaryTail(l, e) ==
    LET r == Parse(Tighter(l), Adv(e.s))
    IN  IF Peek(e.s) \notin Operators[l] \/ (l \in {"or", "and"} /\ e.n = Nil) THEN e
        ELSE BinaryTail(l, R(<<"binary", Peek(e.s), e.n, r.n>>, r.s))

Prefix(s, l) ==
    LET o == Parse(l, Adv(s)) IN R(IF o.n = Nil THEN Nil ELSE <<"unary", Peek(s), o.n>>, o.s)

PowerOfPostfix(s) ==         \* mutant: no sign after the `**`
    LET base == Parse("postfix", s)
        exponent == Parse("postfix", Adv(base.s))
    IN  IF base.n # Nil /\ Peek(base.s) = "**"
        THEN R(<<"binary", "**", base.n, exponent.n>>, exponent.s) ELSE base
Power(s) ==
    LET base == Parse("postfix", s)
        exponent == Parse("unary", Adv(base.s))
    IN  IF base.n # Nil /\ Peek(base.s) = "**"
        THEN R(<<"binary", "**", base.n, exponent.n>>, exponent.s) ELSE base

ListLiteral(s) ==
    LET open == SkipNewlines(Adv(s))
        l == IF Peek(open) = "]" THEN R(<<>>, open) ELSE CommaList("element", open, <<>>)
        c == Close(R(<<"list", Kept(l)>>, SkipNewlines(l.s)), "]")
    IN  IF c.s.e > l.s.e THEN R(Nil, c.s) ELSE c

DictLiteral(s) ==
    LET open == SkipNewlines(Adv(s))
        l == IF Peek(open) = "}" THEN R(<<>>, open) ELSE CommaList("entry", open, <<>>)
        c == Close(R(<<"dict", Kept(l)>>, SkipNewlines(l.s)), "}")
    IN  IF Aborted(l) THEN R(Nil, l.s) ELSE IF c.s.e > l.s.e THEN R(Nil, c.s) ELSE c

StructInit(s) ==
    LET l == CommaList("field value", SkipNewlines(Adv(s)), <<>>)
        c == Close(R(<<"init", Kept(l)>>, SkipNewlines(l.s)), "}")
    IN  IF Aborted(l) THEN R(Nil, l.s) ELSE IF c.s.e > l.s.e THEN R(Nil, c.s) ELSE c

Primary(s) ==
    LET inner == Parse("or", Adv(s))
    IN  CASE Is(s, Strings) -> R(<<"string", Peek(s)>>, Adv(s))
          [] Is(s, Numbers) -> R(<<"number", Peek(s)>>, Adv(s))
          [] Is(s, {"true", "false"}) -> R(<<"bool", Peek(s)>>, Adv(s))
          [] Is(s, Identifiers) -> R(<<"ident", Peek(s)>>, Adv(s))
          [] Peek(s) = "[" -> ListLiteral(s)
          [] Peek(s) = "{" -> IF NextIs(s, {"."}) THEN StructInit(s) ELSE DictLiteral(s)
          [] Peek(s) = "(" -> IF Peek(inner.s) = ")" THEN R(inner.n, Adv(inner.s)) ELSE Bad(inner.s)
          [] OTHER -> Bad(s)

Call(callee, typeArgs, s) ==     \* s stands on the "("
    LET a == IF Peek(Adv(s)) = ")" THEN R(<<>>, Adv(s)) ELSE CommaList("argument", Adv(s), <<>>)
    IN  IF Peek(a.s) = ")" THEN R(<<"call", callee, Kept(a), typeArgs>>, Adv(a.s)) ELSE Bad(a.s)

SliceEnd(object, first, s) ==    \* s stands on the ":"
    LET last == IF Peek(Adv(s)) = "]" THEN R(Nil, Adv(s)) ELSE Parse("or", Adv(s))
    IN  IF Peek(Adv(s)) = ":" THEN Bad(Adv(s))
        ELSE IF last.n = Nil /\ Peek(Adv(s)) # "]" THEN last
        ELSE IF Peek(last.s) # "]" THEN Bad(last.s)
        ELSE R(<<"slice", object, first, last.n>>, Adv(last.s))

Subscript(object, s) ==          \* s stands on the "["
    LET first == IF Peek(Adv(s)) = ":" THEN R(Nil, Adv(s)) ELSE Parse("or", Adv(s))
        l == CommaList("index", Adv(first.s), <<first.n>>)
        all == IF Peek(first.s) = "," THEN l ELSE R(<<first.n>>, first.s)
    IN  IF first.n = Nil /\ Peek(Adv(s)) # ":" THEN first
        ELSE IF Peek(first.s) = ":" THEN SliceEnd(object, first.n, first.s)
        ELSE IF Aborted(all) THEN R(Nil, all.s)
        ELSE IF Peek(all.s) = "]" THEN R(<<"index", object, all.n>>, Adv(all.s)) ELSE Bad(all.s)

PostfixTail(e) ==
    LET ta == TryTypeArgs(e.s)
        next == CASE e.n = Nil -> e
                  [] e.n # Nil /\ Peek(e.s) = "." ->
                        IF Is(Adv(e.s), Identifiers)
                        THEN R(<<"member", e.n, Peek(Adv(e.s))>>, Adv(Adv(e.s))) ELSE Bad(Adv(e.s))
                  [] e.n # Nil /\ Peek(e.s) = "(" -> Call(e.n, <<>>, e.s)
                  [] e.n # Nil /\ Peek(e.s) = "<" /\ e.n[1] \in {"ident", "member"} ->
                        IF ta.n = Nil THEN e ELSE Call(e.n, ta.n, ta.s)
                  [] e.n # Nil /\ Peek(e.s) = "[" -> Subscript(e.n, e.s)
                  [] OTHER -> e
    IN  IF next.n = Nil \/ next.s = e.s THEN next ELSE PostfixTail(next)

Parse(l, s) ==
    CASE l \in DOMAIN Operators -> BinaryTail(l, Parse(Tighter(l), s))
      [] l = "not" -> IF Peek(s) = "not" THEN Prefix(s, "not") ELSE Parse("comparison", s)
      [] l = "unary" -> IF Is(s, {"-", "&"}) THEN Prefix(s, "unary") ELSE Power(s)
      [] l = "postfix" -> PostfixTail(Primary(s))

Expression(s) == Parse("or", s)

-----------------------------------------------------------------------------
(* Statements. *)

Block(s) == IF Peek(s) # "{" THEN R(<<>>, Err(s))
            ELSE Close(Statements(SkipSeparators(Adv(s)), TRUE, <<>>), "}")

Statements(s, inBlock, body) ==
    LET r == Statement(s)
        ended == IF EndsStatement(r.s) THEN r.s ELSE Synchronize(Err(r.s))
        moved == IF ended.p = s.p /\ Peek(ended) # "END" THEN Adv(Err(ended)) ELSE ended
    IN  IF Peek(s) = "END" \/ (inBlock /\ Peek(s) = "}") THEN R(body, s)
        ELSE Statements(SkipSeparators(moved), inBlock, IF r.n = Nil THEN body ELSE Append(body, r.n))

Import(s) ==
    LET first == Adv(s)
        symbols == CommaList("symbol", first, <<>>)
        from == Adv(symbols.s)
        Path(at) == Dotted(Adv(at), <<Peek(at)>>)
        path == Path(first)
        source == Path(from)
        aliased == Adv(path.s)
    IN  IF ~Is(first, Identifiers) THEN Fail(first)
        ELSE IF Is(Adv(first), {"from", ","})
        THEN IF Broken(symbols) THEN R(Nil, Synchronize(symbols.s))
             ELSE IF Peek(symbols.s) # "from" THEN Fail(symbols.s)
             ELSE IF ~Is(from, Identifiers) THEN Fail(from)
             ELSE IF source.s.e > from.e THEN R(Nil, Synchronize(source.s))
             ELSE R(<<"import", source.n, "", symbols.n>>, source.s)
        ELSE IF path.s.e > first.e THEN R(Nil, Synchronize(path.s))
        ELSE IF Peek(path.s) # "as" THEN R(<<"import", path.n, "", <<>>>>, path.s)
        ELSE IF Is(aliased, Identifiers) THEN R(<<"import", path.n, Peek(aliased), <<>>>>, Adv(aliased))
        ELSE Fail(aliased)

Function(s, constexpr) ==        \* s stands on "fn"
    LET name == Adv(s)
        open == Adv(name)
        ps == IF Peek(Adv(open)) = ")" THEN R(<<>>, Adv(open)) ELSE CommaList("parameter", Adv(open), <<>>)
        ret == IF Peek(Adv(ps.s)) = "->" THEN TypeString(Adv(Adv(ps.s))) ELSE R(<<>>, Adv(ps.s))
        body == Block(ret.s)
    IN  IF ~Is(name, Identifiers) THEN Fail(name)
        ELSE IF Peek(open) # "(" THEN Fail(open)
        ELSE IF Peek(ps.s) # ")" THEN Fail(ps.s)
        ELSE R(<<"fn", Peek(name), Kept(ps), ret.n, body.n, constexpr>>, body.s)

OptionalMark(s) == IF Is(s, {",", ";"}) THEN Adv(s) ELSE s

Field(s) ==
    IF Peek(s) = "fn" THEN Function(s, FALSE)
    ELSE IF ~Is(s, Identifiers) THEN Fail(s)
    ELSE IF Peek(Adv(s)) # ":" THEN Fail(Adv(s))
    ELSE IF ~Is(Adv(Adv(s)), Identifiers) THEN Fail(Adv(Adv(s)))
    ELSE LET ty == Type(Adv(Adv(s))) IN R(<<"field", Peek(s), ty.n>>, OptionalMark(ty.s))

EnumMember(s) ==
    LET v == IF Peek(Adv(s)) = "=" THEN Expression(Adv(Adv(s))) ELSE R(Nil, Adv(s))
    IN  IF ~Is(s, Identifiers) THEN Fail(s) ELSE R(<<"member", Peek(s), v.n>>, OptionalMark(v.s))

Signature(s) ==
    LET name == Adv(s)
        open == Adv(name)
        ps == IF Peek(Adv(open)) = ")" THEN R(<<>>, Adv(open))
              ELSE CommaList("interface parameter", Adv(open), <<>>)
    IN  IF Peek(s) # "fn" THEN Fail(s)
        ELSE IF ~Is(name, Identifiers) THEN Fail(name)
        ELSE IF Peek(open) # "(" THEN Fail(open)
        ELSE IF Peek(ps.s) # ")" THEN Fail(ps.s)
        ELSE R(<<"signature", Peek(name), IF Kept(ps) = <<>> THEN <<>> ELSE Tail(Kept(ps))>>, Adv(ps.s))

Case(s) ==
    LET wildcard == Peek(Adv(s)) = "_"
        pattern == IF wildcard THEN R(Nil, Adv(Adv(s))) ELSE Expression(Adv(s))
        body == Block(pattern.s)
    IN  IF Peek(s) # "case" THEN Fail(s)
        ELSE IF ~wildcard /\ pattern.n = Nil THEN R(Nil, Synchronize(pattern.s))
        ELSE R(<<"case", pattern.n, body.n>>, body.s)

Members(kind, s, got) ==
    LET r == CASE kind = "struct" -> Field(s) [] kind = "enum" -> EnumMember(s)
               [] kind = "interface" -> Signature(s) [] kind = "match" -> Case(s)
    IN  IF Is(s, {"END", "}"}) THEN R(got, s)
        ELSE Members(kind, SkipSeparators(r.s), IF r.n = Nil THEN got ELSE Append(got, r.n))

Body(kind, s) == Close(Members(kind, SkipSeparators(Adv(s)), <<>>), "}")

Struct(s) ==
    LET name == Adv(s)
        f == IF Peek(Adv(name)) = ":" THEN CommaList("fulfills", Adv(Adv(name)), <<>>) ELSE R(<<>>, Adv(name))
        b == Body("struct", f.s)
        Of(k) == SelectSeq(b.n, LAMBDA x : x[1] = k)
    IN  IF ~Is(name, Identifiers) THEN Fail(name)
        ELSE IF Peek(f.s) # "{" THEN Fail(f.s)
        ELSE R(<<"struct", Peek(name), Kept(f), Of("field"), Of("fn")>>, b.s)

Named(kind, s) ==                \* an enum or an interface
    LET b == Body(kind, Adv(Adv(s)))
    IN  IF ~Is(Adv(s), Identifiers) THEN Fail(Adv(s))
        ELSE IF Peek(Adv(Adv(s))) # "{" THEN Fail(Adv(Adv(s)))
        ELSE R(<<kind, Peek(Adv(s)), b.n>>, b.s)

Match(s, constexpr) ==
    LET subject == Expression(Adv(s))
        b == Body("match", subject.s)
    IN  IF subject.n = Nil THEN R(Nil, Synchronize(subject.s))
        ELSE IF Peek(subject.s) # "{" THEN Fail(subject.s)
        ELSE R(<<"match", subject.n, b.n, constexpr>>, b.s)

Let(s, constexpr) ==
    LET name == Adv(s)
        ty == IF Peek(Adv(name)) = ":" THEN Type(Adv(Adv(name))) ELSE R(Nil, Adv(name))
        v == IF Peek(ty.s) = "=" THEN Expression(Adv(ty.s)) ELSE R(Nil, ty.s)
    IN  IF ~Is(name, Identifiers) THEN Fail(name)
        ELSE IF Peek(ty.s) = "=" /\ v.n = Nil THEN R(Nil, Synchronize(v.s))
        ELSE R(<<"let", Peek(name), ty.n, v.n, constexpr>>, v.s)

EatsConstexpr(s) == Peek(s) = "constexpr" /\ NextIs(s, {"("})
Eaten(s) == IF EatsConstexpr(s) THEN Adv(s) ELSE s

IfRest(s, constexpr) ==
    LET cond == Expression(s)
        then == Block(cond.s)
        tail == SkipSeparators(then.s)
        again == Adv(Adv(tail))
        nested == IF Peek(tail) = "elif" THEN IfRest(Adv(tail), constexpr)
                  ELSE IfRest(Eaten(again), EatsConstexpr(again) \/ constexpr)
        chain == R(IF nested.n = Nil THEN <<>> ELSE <<nested.n>>, nested.s)
        else == IF Peek(tail) = "elif" \/ (Peek(tail) = "else" /\ Peek(Adv(tail)) = "if") THEN chain
                ELSE IF Peek(tail) = "else" THEN Block(Adv(tail)) ELSE R(<<>>, then.s)
    IN  IF cond.n = Nil THEN R(Nil, Synchronize(cond.s))
        ELSE R(<<"if", cond.n, then.n, else.n, constexpr>>, else.s)

While(s) ==
    LET cond == Expression(Adv(s))
        body == Block(cond.s)
    IN  IF cond.n = Nil THEN R(Nil, Synchronize(cond.s)) ELSE R(<<"while", cond.n, body.n>>, body.s)

For(s) ==
    LET var == Adv(s)
        in == Adv(var)
        over == Expression(Adv(in))
        body == Block(over.s)
    IN  IF ~Is(var, Identifiers) THEN Fail(var)
        ELSE IF Peek(in) # "in" THEN Fail(in)
        ELSE IF over.n = Nil THEN R(Nil, Synchronize(over.s))
        ELSE R(<<"for", Peek(var), over.n, body.n>>, body.s)

With(s) ==
    LET resource == Expression(Adv(s))
        as == Peek(resource.s) = "as"
        bind == Adv(resource.s)
        body == Block(IF as THEN Adv(bind) ELSE resource.s)
    IN  IF resource.n = Nil THEN R(Nil, Synchronize(resource.s))
        ELSE IF as /\ ~Is(bind, Identifiers) THEN Fail(bind)
        ELSE R(<<"with", resource.n, IF as THEN Peek(bind) ELSE "", body.n>>, body.s)

Return(s) ==
    LET v == IF EndsStatement(Adv(s)) THEN R(Nil, Adv(s)) ELSE Expression(Adv(s))
    IN  R(<<"return", v.n>>, v.s)

Raise(s) ==
    LET v == Expression(Adv(s))
    IN  IF EndsStatement(Adv(s)) THEN R(<<"raise", Nil>>, Adv(s))
        ELSE IF v.n = Nil THEN R(Nil, Synchronize(v.s)) ELSE R(<<"raise", v.n>>, v.s)

Handlers(s, got) ==
    LET var == Adv(s)
        s1 == IF Is(var, Identifiers) THEN Adv(var) ELSE var
        kind == IF Peek(s1) = "of" THEN Expression(Adv(s1)) ELSE R(Nil, s1)
        body == Block(kind.s)
        h == <<IF Is(var, Identifiers) THEN Peek(var) ELSE "", kind.n, body.n>>
    IN  IF Peek(s) # "except" THEN R(got, s)
        ELSE IF Peek(s1) = "of" /\ kind.n = Nil THEN R(Append(got, Abort), Synchronize(Err(kind.s)))
        ELSE Handlers(body.s, Append(got, h))

Try(s) ==
    LET body == Block(Adv(s))
        hs == Handlers(body.s, <<>>)
        has == ~Aborted(hs) /\ Peek(hs.s) = "finally"
        fin == IF has THEN Block(Adv(hs.s)) ELSE R(<<>>, hs.s)
    IN  R(<<"try", body.n, Kept(hs), has, fin.n>>, IF hs.n = <<>> /\ ~has THEN Err(fin.s) ELSE fin.s)

Compound == {"+=", "-=", "*=", "/="}

AssignOrExpression(s) ==
    LET e == Expression(s)
        onSlice == Is(e.s, Compound) /\ e.n[1] = "slice"
        v == Expression(Adv(IF onSlice THEN Err(e.s) ELSE e.s))
    IN  IF e.n = Nil THEN R(Nil, Synchronize(e.s))
        ELSE IF ~Is(e.s, Compound \union {"="}) THEN R(<<"expr", e.n>>, e.s)
        ELSE IF v.n = Nil THEN R(Nil, Synchronize(v.s))
        ELSE R(<<"assign", Peek(e.s), e.n, v.n>>, v.s)

Statement(s) ==
    CASE Is(s, CppBlocks) -> R(<<"cpp", Peek(s)>>, Adv(s))
      [] Peek(s) = "import" -> Import(s)
      [] Is(s, {"interface", "enum"}) -> Named(Peek(s), s)
      [] Peek(s) = "struct" -> Struct(s)
      [] Peek(s) = "fn" -> Function(s, FALSE)
      [] Peek(s) = "let" -> Let(s, FALSE)
      [] Peek(s) = "if" -> IfRest(Eaten(Adv(s)), EatsConstexpr(Adv(s)))
      [] Peek(s) = "while" -> While(s)
      [] Peek(s) = "for" -> For(s)
      [] Peek(s) = "with" -> With(s)
      [] Peek(s) = "return" -> Return(s)
      [] Peek(s) = "try" -> Try(s)
      [] Peek(s) = "raise" -> Raise(s)
      [] Is(s, {"break", "continue"}) -> R(<<Peek(s)>>, Adv(s))
      [] Peek(s) = "match" -> Match(s, FALSE)
      [] Peek(s) = "constexpr" /\ NextIs(s, {"fn"}) -> Function(Adv(s), TRUE)
      [] Peek(s) = "constexpr" /\ NextIs(s, {"let"}) -> Let(Adv(s), TRUE)
      [] Peek(s) = "constexpr" /\ NextIs(s, {"match"}) -> Match(Adv(s), TRUE)
      [] OTHER -> AssignOrExpression(s)

ParseTokens(t) == Statements(SkipSeparators([t |-> t, p |-> 1, e |-> 0]), FALSE, <<>>)
=============================================================================
