------------------------------ MODULE Spelling ------------------------------
(* The language's surface syntax, as the reference the parser is held to: how a
   syntax tree (the nodes of module Parser) is written with no parenthesis but
   those its precedences ask for.  The precedences are those of
   src/stdlib/README.md:102 (`*` before `+`, both before comparisons, `and` and
   `or` last) and of the comments at the operators in src/compiler/parser.cpp. *)
LOCAL INSTANCE Naturals
LOCAL INSTANCE SequencesExt

Binds(e) ==
    CASE e[1] = "binary" ->
           CASE e[2] = "or" -> 1 [] e[2] = "and" -> 2
             [] e[2] \in {"in", "==", "!=", "<=", ">", ">="} -> 4
             [] e[2] = "<" -> 0           \* before `>(` it would read as type arguments
             [] e[2] \in {"+", "-"} -> 5
             [] e[2] = "**" -> 8 [] OTHER -> 6
      [] e[1] = "unary" -> IF e[2] = "not" THEN 3 ELSE 7
      [] OTHER -> 9
LeftNeeds(op, p) == IF op = "**" THEN 9 ELSE IF op = "<" THEN 4 ELSE p
RightNeeds(op, p) == IF op = "**" THEN 7 ELSE IF op = "<" THEN 5 ELSE p + 1

Joined(parts) == FoldLeft(LAMBDA acc, x : IF acc = <<>> THEN x ELSE acc \o <<",">> \o x, <<>>, parts)
Concat(parts) == FoldLeft(LAMBDA acc, x : acc \o x, <<>>, parts)
Each(S(_), xs) == [i \in DOMAIN xs |-> S(xs[i])]

RECURSIVE Spell(_, _), Body(_), SpellType(_), SpellStatement(_)

SpellType(ty) ==
    CASE ty[1] = "qualified" -> ty[2]
      [] ty[1] = "size" -> <<ty[2]>>
      [] ty[1] = "type" ->
            LET args == Each(SpellType, ty[3]) \o (IF ty[4] = "" THEN <<>> ELSE <<<<ty[4]>>>>)
            IN  <<ty[2]>> \o (IF args = <<>> THEN <<>> ELSE <<"<">> \o Joined(args) \o <<">">>)

Top(e) == Spell(e, 1)

Spell(e, needs) ==
    IF Binds(e) < needs THEN <<"(">> \o Spell(e, 0) \o <<")">>
    ELSE CASE e[1] \in {"string", "number", "bool", "ident"} -> <<e[2]>>
           [] e[1] = "member" -> Spell(e[2], 9) \o <<".", e[3]>>
           [] e[1] = "index" -> Spell(e[2], 9) \o <<"[">> \o Joined(Each(Top, e[3])) \o <<"]">>
           [] e[1] = "slice" -> Spell(e[2], 9) \o <<"[">> \o (IF e[3] = <<>> THEN <<>> ELSE Top(e[3]))
                                  \o <<":">> \o (IF e[4] = <<>> THEN <<>> ELSE Top(e[4])) \o <<"]">>
           [] e[1] = "call" ->
                LET Arg(a) == (IF a[1] = "" THEN <<>> ELSE <<a[1], "=">>) \o Top(a[2])
                IN  Spell(e[2], 9)
                      \o (IF e[4] = <<>> THEN <<>> ELSE <<"<">> \o Joined(Each(SpellType, e[4])) \o <<">">>)
                      \o <<"(">> \o Joined(Each(Arg, e[3])) \o <<")">>
           [] e[1] = "unary" -> <<e[2]>> \o Spell(e[3], Binds(e))
           [] e[1] = "binary" ->
                Spell(e[3], LeftNeeds(e[2], Binds(e))) \o <<e[2]>> \o Spell(e[4], RightNeeds(e[2], Binds(e)))
           [] e[1] = "list" -> <<"[">> \o Joined(Each(Top, e[2])) \o <<"]">>
           [] e[1] = "dict" -> LET Pair(p) == Top(p[1]) \o <<":">> \o Top(p[2])
                               IN  <<"{">> \o Joined(Each(Pair, e[2])) \o <<"}">>
           [] e[1] = "init" -> LET Pair(p) == <<".", p[1], "=">> \o Top(p[2])
                               IN  <<"{">> \o Joined(Each(Pair, e[2])) \o <<"}">>

Whole(e) == Spell(e, 0)
Optional(e) == IF e = <<>> THEN <<>> ELSE Whole(e)
Default(v) == IF v = <<>> THEN <<>> ELSE <<"=">> \o Whole(v)
Lines(parts) == Concat([i \in DOMAIN parts |-> parts[i] \o <<"NL">>])
Body(stmts) == <<"{">> \o Lines(Each(SpellStatement, stmts)) \o <<"}">>
Constexpr(b) == IF b THEN <<"constexpr">> ELSE <<>>

Parameter(p) == LET const == p[2] # <<>> /\ p[2][1] = "const"
                    ty == IF const THEN Tail(p[2]) ELSE p[2]
                IN  (IF const THEN <<"const">> ELSE <<>>) \o <<p[1]>>
                      \o (IF ty = <<>> THEN <<>> ELSE <<":">> \o ty)
                      \o (IF p[3] = <<>> THEN <<>> ELSE <<"=">> \o Top(p[3]))
Handler(h) == <<"except">> \o (IF h[1] = "" THEN <<>> ELSE <<h[1]>>)
                \o (IF h[2] = <<>> THEN <<>> ELSE <<"of">> \o Whole(h[2])) \o Body(h[3])
Member(x) ==
    CASE x[1] = "field" -> <<x[2], ":">> \o SpellType(x[3])
      [] x[1] = "member" -> <<x[2]>> \o Default(x[3])
      [] x[1] = "case" -> <<"case">> \o (IF x[2] = <<>> THEN <<"_">> ELSE Whole(x[2])) \o Body(x[3])
      [] x[1] = "signature" ->
            LET Other(ty) == <<"p">> \o (IF ty[2] = "" THEN <<>> ELSE <<":">> \o SpellType(ty))
            IN  <<"fn", x[2], "(">> \o Joined(<<<<"self">>>> \o Each(Other, x[3])) \o <<")">>
      [] x[1] = "fn" -> SpellStatement(x)
Braced(parts) == <<"{">> \o Lines(Each(Member, parts)) \o <<"}">>

Else(x) == IF x[4] = <<>> THEN <<>>
           ELSE IF Len(x[4]) = 1 /\ x[4][1][1] = "if"
           THEN IF x[5] THEN <<"else">> \o SpellStatement(x[4][1])
                ELSE <<"elif">> \o Tail(SpellStatement(x[4][1]))
           ELSE <<"else">> \o Body(x[4])

SpellStatement(x) ==
    CASE x[1] = "cpp" -> <<x[2]>>
      [] x[1] \in {"break", "continue"} -> <<x[1]>>
      [] x[1] = "expr" -> Whole(x[2])
      [] x[1] = "let" -> Constexpr(x[5]) \o <<"let", x[2]>>
                           \o (IF x[3] = <<>> THEN <<>> ELSE <<":">> \o SpellType(x[3])) \o Default(x[4])
      [] x[1] = "assign" -> Whole(x[3]) \o <<x[2]>> \o Whole(x[4])
      [] x[1] = "if" -> <<"if">> \o (IF x[5] THEN <<"constexpr", "(">> \o Whole(x[2]) \o <<")">> ELSE Whole(x[2]))
                          \o Body(x[3]) \o Else(x)
      [] x[1] = "while" -> <<"while">> \o Whole(x[2]) \o Body(x[3])
      [] x[1] = "for" -> <<"for", x[2], "in">> \o Whole(x[3]) \o Body(x[4])
      [] x[1] = "with" -> <<"with">> \o Whole(x[2]) \o (IF x[3] = "" THEN <<>> ELSE <<"as", x[3]>>) \o Body(x[4])
      [] x[1] \in {"return", "raise"} -> <<x[1]>> \o Optional(x[2])
      [] x[1] = "try" -> <<"try">> \o Body(x[2]) \o Concat(Each(Handler, x[3]))
                           \o (IF x[4] THEN <<"finally">> \o Body(x[5]) ELSE <<>>)
      [] x[1] = "match" -> Constexpr(x[4]) \o <<"match">> \o Whole(x[2]) \o Braced(x[3])
      [] x[1] = "fn" -> Constexpr(x[6]) \o <<"fn", x[2], "(">> \o Joined(Each(Parameter, x[3])) \o <<")">>
                          \o (IF x[4] = <<>> THEN <<>> ELSE <<"->">> \o x[4]) \o Body(x[5])
      [] x[1] = "struct" -> <<"struct", x[2]>> \o (IF x[3] = <<>> THEN <<>> ELSE <<":">> \o Joined(x[3]))
                              \o Braced(x[4] \o x[5])
      [] x[1] \in {"enum", "interface"} -> <<x[1], x[2]>> \o Braced(x[3])
      [] x[1] = "import" ->
            IF x[4] = <<>> THEN <<"import">> \o x[2] \o (IF x[3] = "" THEN <<>> ELSE <<"as", x[3]>>)
            ELSE <<"import">> \o Joined(x[4]) \o <<"from">> \o x[2]
=============================================================================
