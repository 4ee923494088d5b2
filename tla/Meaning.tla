------------------------------ MODULE Meaning ------------------------------
(* What a program does: Meant runs the syntax tree of the source, Done runs the C++
   that Codegen emits for it.  Both leave a trace of what was printed and the way the
   program ended.  A state s holds the scopes env of names and values, the trace out,
   how the statement ended ("go" when control falls through), the value val it
   returns or raises, and the error now handled.  Legal says that the names and jumps of
   a program are in order; Compiles asks that of the C++. *)
EXTENDS Codegen

CONSTANTS MaxTurns,          \* a loop that turns more often is cut off
          Wrap               \* 2^64, as far as this model counts

None == <<"none">>
V(v, s) == [v |-> v, s |-> s]
Going(s) == s.how = "go"
Ends(s, how, v) == [s EXCEPT !.how = how, !.val = v]
Ill(s) == V(None, Ends(s, "ill", None))
Numeric(v) == v[1] \in {"int", "size"} \/ (v[1] = "float" /\ v[3] = 1)
Number(n) == <<"int", n>>
Truth(b) == <<"bool", b>>
Shown(v) == IF v[1] = "float" /\ v[3] = 1 THEN Str(Number(v[2])) ELSE Str(v)

(* Either a value or, when the helper threw, the error. *)
Threw(v) == v[1] \in {"throw"}
Settled(v, s) == IF Threw(v) THEN V(None, Ends(s, "raise", CurrentError(v))) ELSE V(v, s)

-----------------------------------------------------------------------------
(* Names. *)

Level(s, x) == Max({0} \union {i \in DOMAIN s.env : x \in DOMAIN s.env[i]})
Lookup(s, x) == IF Level(s, x) = 0 THEN Ill(s) ELSE V(s.env[Level(s, x)][x], s)
Bind(s, x, v) == [s EXCEPT !.env[Len(s.env)] = (x :> v) @@ @]
Update(s, x, v) == IF Level(s, x) = 0 THEN Ends(s, "ill", None)
                   ELSE [s EXCEPT !.env[Level(s, x)][x] = v]
Push1(s, scope) == [s EXCEPT !.env = Append(@, scope)]
Pop1(s, depth) == [s EXCEPT !.env = SubSeq(@, 1, depth)]

-----------------------------------------------------------------------------
(* Operators as the language means them: Python's. *)

Floor(a, b) == IF b < 0 THEN (-a) \div (-b) ELSE a \div b
RECURSIVE Power(_, _), Textual(_)
Power(a, n) == IF n = 0 THEN 1 ELSE a * Power(a, n - 1)
Textual(e) == \/ e[1] = "string"
              \/ e[1] = "call" /\ e[2] = <<"ident", "str">>
              \/ e[1] = "binary" /\ e[2] = "+" /\ (Textual(e[3]) \/ Textual(e[4]))
Same(a, b) == IF Numeric(a) /\ Numeric(b) THEN a[2] = b[2] ELSE a = b

MeantOp(e, a, b, s) ==
    LET op == e[2]
        text == Textual(e[3]) \/ Textual(e[4])
        raised == V(None, Ends(s, "raise", <<"error", <<"arithmetic">>, <<>>>>))
    IN  CASE op \in {"==", "!="} -> IF a[1] # b[1] THEN Ill(s) ELSE V(Truth((a = b) = (op = "==")), s)
          [] op = "in" /\ b[1] = "list" -> V(Truth(\E i \in DOMAIN b[2] : b[2][i] = a), s)
          [] op = "in" /\ a[1] = "str" /\ b[1] = "str" ->
               V(Truth(\E i, j \in 1 .. Len(b[2]) + 1 : i <= j /\ SubSeq(b[2], i, j - 1) = a[2]), s)
          [] op = "+" /\ a[1] = "str" /\ b[1] = "str" -> V(<<"str", a[2] \o b[2]>>, s)
          [] op = "+" /\ text /\ a[1] # "list" /\ b[1] # "list" ->
               V(<<"str", Shown(a)[2] \o Shown(b)[2]>>, s)
          [] ~(Numeric(a) /\ Numeric(b)) -> Ill(s)
          [] op \in {"//", "%"} /\ b[2] = 0 -> raised
          [] op = "//" -> V(Number(Floor(a[2], b[2])), s)
          [] op = "%" -> V(Number(a[2] - b[2] * Floor(a[2], b[2])), s)
          [] op = "/" -> IF b[2] = 0 THEN Ill(s) ELSE V(<<"float", a[2], b[2]>>, s)
          [] op = "**" -> IF b[2] < 0 THEN Ill(s) ELSE V(Number(Power(a[2], b[2])), s)
          [] op = "+" -> V(Number(a[2] + b[2]), s)
          [] op = "-" -> V(Number(a[2] - b[2]), s)
          [] op = "*" -> V(Number(a[2] * b[2]), s)
          [] op = "<" -> V(Truth(a[2] < b[2]), s)
          [] op = ">" -> V(Truth(a[2] > b[2]), s)
          [] OTHER -> Ill(s)

(* s[i], s[a:b] and s[a:b] = r, as Python counts: every offset from its own side. *)
Offset(i, n) == IF i < 0 THEN n + i ELSE i
Between(i, n) == IF i < 0 THEN 0 ELSE IF i > n THEN n ELSE i
Bounds(lo, hi, n) ==
    LET a == Between(Offset(lo, n), n)
        b == Between(Offset(hi, n), n)
    IN  <<a, IF b < a THEN a ELSE b>>
MeantAt(v, i, s) ==
    LET k == Offset(i, Len(v[2]))
    IN  IF k \notin 0 .. Len(v[2]) - 1 THEN V(None, Ends(s, "raise", <<"error", <<"index">>, <<>>>>))
        ELSE V(IF v[1] = "str" THEN <<"str", <<v[2][k + 1]>>>> ELSE v[2][k + 1], s)
MeantSlice(v, lo, hi) ==
    LET b == Bounds(lo, hi, Len(v[2])) IN <<v[1], SubSeq(v[2], b[1] + 1, b[2])>>
MeantSplice(v, lo, hi, r) ==
    LET b == Bounds(lo, hi, Len(v[2]))
    IN  <<"list", SubSeq(v[2], 1, b[1]) \o r[2] \o SubSeq(v[2], b[2] + 1, Len(v[2]))>>

(* Operators as C++ means them: len is unsigned, and so is whatever it meets. *)
Unsigned(n) == IF n < 0 THEN n + Wrap ELSE n
DoneOp(op, a, b, s) ==
    LET size == a[1] = "size" \/ b[1] = "size"
        x == IF size THEN Unsigned(a[2]) ELSE a[2]
        y == IF size THEN Unsigned(b[2]) ELSE b[2]
        Result(n) == IF size THEN <<"size", Unsigned(n)>> ELSE <<"int", n>>
    IN  CASE op \in {"==", "!="} -> V(Truth(Same(a, b) = (op = "==")), s)
          [] op = "+" /\ a[1] = "str" /\ b[1] = "str" -> V(<<"str", a[2] \o b[2]>>, s)
          [] ~(Numeric(a) /\ Numeric(b)) -> Ill(s)
          [] op = "+" -> V(Result(x + y), s)
          [] op = "-" -> V(Result(x - y), s)
          [] op = "*" -> V(Result(x * y), s)
          [] op = "<" -> V(Truth(x < y), s)
          [] op = ">" -> V(Truth(x > y), s)
          [] OTHER -> Ill(s)
PlusAssign(a, b, s) ==       \* an integer appended to a std::string is a character code
    CASE a[1] = "str" /\ b[1] = "str" -> V(<<"str", a[2] \o b[2]>>, s)
      [] a[1] = "str" /\ Numeric(b) -> V(<<"str", Append(a[2], "char")>>, s)
      [] a[1] = "int" /\ Numeric(b) -> V(<<"int", a[2] + b[2]>>, s)
      [] OTHER -> Ill(s)

-----------------------------------------------------------------------------
(* Expressions. *)

CKids(e) ==
    CASE e[1] \in {"field", "vector", "vector of"} -> IF e[1] = "field" THEN <<e[2]>> ELSE e[2]
      [] e[1] = "prefix" -> <<e[3]>>
      [] e[1] = "infix" -> <<e[3], e[4]>>
      [] e[1] \in {"std::pow", "[]"} -> <<e[2], e[3]>>
      [] e[1] \in {"builtin", "positional"} -> e[3]
      [] e[1] = "struct" -> [i \in DOMAIN e[3] |-> e[3][i][2]]
      [] e[1] = "invoke" -> (IF e[2][1] = "field" THEN <<e[2][2]>> ELSE <<>>) \o e[3]
      [] OTHER -> <<>>
(* What is evaluated before the node itself. *)
Operands(e) ==
    CASE e[1] = "call" -> (IF e[2][1] = "member" /\ e[2][2] # <<"ident", "io">> THEN <<e[2][2]>> ELSE <<>>)
                            \o [i \in DOMAIN e[3] |-> e[3][i][2]]
      [] e[1] \in {"binary", "unary", "index", "slice", "list", "init"} -> Kids(e)
      [] e[1] = "member" -> IF e[2][1] = "ident" /\ e[2][2] = "E" THEN <<>> ELSE <<e[2]>>
      [] OTHER -> CKids(e)

RECURSIVE Ev(_, _), EvAll(_, _), Run(_, _), While(_, _, _, _), RangeOver(_, _, _, _, _), EachOf(_, _, _, _, _),
          Store(_, _, _), Handle(_, _, _)

EvAll(es, s) ==
    IF es = <<>> THEN V(<<>>, s)
    ELSE LET x == Ev(es[1], s)
             r == EvAll(Tail(es), x.s)
         IN  IF Going(x.s) THEN V(<<x.v>> \o r.v, r.s) ELSE V(<<>>, x.s)

(* An assignment through an lvalue: a name, an element or a field of one. *)
Converted(old, v) ==         \* a variable of C++ keeps the type it was declared with
    IF old[1] = "int" /\ v[1] \in {"float", "size"}
    THEN Number(IF v[1] = "float" THEN Quot(v[2], v[3]) ELSE v[2]) ELSE v
Store(lv, v, s) ==
    CASE lv[1] = "ident" -> Update(s, lv[2], v)
      [] lv[1] = "name" -> Update(s, lv[2], Converted(Lookup(s, lv[2]).v, v))
      [] lv[1] = "this" -> Update(s, "self", v)
      [] lv[1] \in {"index", "[]"} ->
           LET c == EvAll(<<lv[2], lv[3]>>, s)
           IN  IF ~Going(c.s) THEN c.s
               ELSE IF c.v[1][1] # "list" \/ c.v[2][2] \notin 0 .. Len(c.v[1][2]) - 1 THEN Ill(s).s
               ELSE Store(lv[2], <<"list", [c.v[1][2] EXCEPT ![c.v[2][2] + 1] = v]>>, c.s)
      [] lv[1] \in {"member", "field"} ->
           LET o == Ev(lv[2], s)
           IN  IF ~Going(o.s) THEN o.s ELSE Store(lv[2], <<"struct", o.v[2], (lv[3] :> v) @@ o.v[3]>>, o.s)
      [] OTHER -> Ill(s).s

Enter(params, vals, body, this, s) ==
    LET scope == [x \in {params[i] : i \in DOMAIN params} |->
                    vals[CHOOSE i \in DOMAIN params : params[i] = x]]
        r == Run(body, [s EXCEPT !.env = <<IF this = None THEN scope ELSE ("self" :> this) @@ scope>>])
        out == [r EXCEPT !.env = s.env, !.how = IF @ = "return" THEN "go" ELSE @]
    IN  [v |-> IF r.how = "return" THEN r.val ELSE None, s |-> out,
         this |-> IF this = None THEN None ELSE r.env[1]["self"]]

MeantCall(f, args, vals, s) ==       \* vals: the object of a method first, when there is one
    LET fn == s.prog.fns[f[2]]
        Arg(j) == {i \in DOMAIN args : \/ args[i][1] = fn[3][j][1]
                                       \/ args[i][1] = "" /\ i = j}
        given == [j \in DOMAIN fn[3] |-> IF Arg(j) # {} THEN vals[Max(Arg(j))]
                                        ELSE Ev(fn[3][j][3], s).v]
        m == s.prog.structs[vals[1][2]][5]
        found == {i \in DOMAIN m : m[i][2] = f[3]}
        method == m[Max(found)]
        inits == args[1][2][2]
        r == IF f[1] = "ident" THEN Enter([j \in DOMAIN fn[3] |-> fn[3][j][1]], given, fn[5], None, s)
             ELSE Enter(Tail([j \in DOMAIN method[3] |-> method[3][j][1]]), Tail(vals), method[5], vals[1], s)
    IN  CASE f = <<"member", <<"ident", "io">>, "print">> -> V(None, [s EXCEPT !.out = Append(@, Shown(vals[1]))])
          [] f[1] = "ident" /\ f[2] \in DOMAIN s.prog.fns -> V(r.v, r.s)
          [] f = <<"ident", "str">> -> V(Shown(vals[1]), s)
          [] f = <<"ident", "len">> -> V(Number(Len(vals[1][2])), s)
          [] f = <<"ident", "Error">> -> V(<<"error", vals[1][2], vals[2][2]>>, s)
          [] f[1] = "member" /\ f[3] = "append" ->
               V(None, Store(f[2], <<"list", Append(vals[1][2], vals[2])>>, s))
          [] f[1] = "ident" /\ f[2] \in DOMAIN s.prog.structs ->
               V(<<"struct", f[2],
                   [x \in {s.prog.structs[f[2]][4][i][2] : i \in DOMAIN s.prog.structs[f[2]][4]} |->
                      LET at == {i \in DOMAIN inits : inits[i][1] = x}
                      IN  IF at = {} THEN Number(0) ELSE vals[1][Max(at)]]>>, s)
          [] f[1] = "ident" /\ Level(s, f[2]) > 0 ->
               LET g == s.prog.fns[Lookup(s, f[2]).v[2]]
                   all == [j \in DOMAIN g[3] |-> IF j \in DOMAIN vals THEN vals[j] ELSE Ev(g[3][j][3], s).v]
                   q == Enter([j \in DOMAIN g[3] |-> g[3][j][1]], all, g[5], None, s)
               IN  V(q.v, q.s)
          [] f[1] = "member" /\ vals[1][1] = "struct" -> V(r.v, IF Going(r.s) THEN Store(f[2], r.this, r.s) ELSE r.s)
          [] OTHER -> Ill(s)

DoneCall(f, vals, s) ==
    LET name == f[2]
        fn == s.prog.fns[<<name, Len(vals)>>]
        m == s.prog.methods[vals[1][2]][f[3]]
        g == s.prog.fns[<<Lookup(s, name).v[2], Len(vals)>>]
        plain == Enter(fn[1], vals, fn[2], None, s)
        method == Enter(m[1], Tail(vals), m[2], vals[1], s)
        called == Enter(g[1], vals, g[2], None, s)
    IN  CASE f = <<"path", <<"io", "print">>>> -> V(None, [s EXCEPT !.out = Append(@, Shown(vals[1]))])
          [] f[1] = "name" /\ <<name, Len(vals)>> \in DOMAIN s.prog.fns -> V(plain.v, plain.s)
          [] f[1] = "name" /\ Level(s, name) > 0 -> V(called.v, called.s)
          [] f[1] = "field" /\ vals[1][1] = "struct" ->
               V(method.v, IF Going(method.s) THEN Store(f[2], method.this, method.s) ELSE method.s)
          [] OTHER -> Ill(s)

DoneBuiltin(f, es, v, s) ==
    LET unset(x) == IF x = SliceEnd THEN SliceEnd ELSE x
    IN  CASE f = "str" -> V(Shown(v[1]), s)
          [] f = "len" -> V(Length(v[1]), s)
          [] f = "Error" -> V(<<"error", v[1][2], v[2][2]>>, s)
          [] f = "append" -> V(None, Store(es[1], Push(v[1], v[2]), s))
          [] f = "startswith" -> V(StartsWith(v[1], v[2]), s)
          [] f = "endswith" -> V(EndsWith(v[1], v[2]), s)
          [] f = "contains" -> V(Truth(IsIn(v[1], v[2])), s)
          [] f = "index" -> Settled(At(v[1], v[2]), s)
          [] f = "slice" -> V(SliceOf(v[1], v[2], v[3]), s)
          [] f = "slice_assign" -> V(None, Store(es[1], SliceAssign(v[1], v[2], v[3], v[4]), s))
          [] ~(Numeric(v[1]) /\ Numeric(v[2])) -> Ill(s)
          [] f = "mod" -> Settled(Mod(v[1], v[2]), s)
          [] f = "floordiv" -> Settled(FloorDiv(v[1], v[2]), s)
          [] f = "truediv" -> V(TrueDiv(v[1], v[2]), s)

Apply(e, v, s) ==
    CASE e[1] = "call" -> MeantCall(e[2], e[3], v, s)
      [] e[1] = "invoke" -> DoneCall(e[2], v, s)
      [] e[1] = "builtin" -> DoneBuiltin(e[2], e[3], v, s)
      [] e[1] = "binary" -> MeantOp(e, v[1], v[2], s)
      [] e[1] = "infix" -> DoneOp(e[2], v[1], v[2], s)
      [] e[1] = "std::pow" -> V(<<"float", Power(v[1][2], v[2][2]), 1>>, s)
      [] e[1] \in {"unary", "prefix"} ->
           IF e[2] \in {"not", "!"} THEN V(Truth(~v[1][2]), s) ELSE V(Number(-v[1][2]), s)
      [] e[1] = "index" -> MeantAt(v[1], v[2][2], s)
      [] e[1] = "slice" -> V(MeantSlice(v[1], IF e[3] = Nil THEN 0 ELSE v[2][2],
                                        IF e[4] = Nil THEN Len(v[1][2]) ELSE Last(v)[2]), s)
      [] e[1] = "vector" /\ Len(v) = 1 /\ v[1][1] = "list" -> V(v[1], s)   \* deduced as a copy
      [] e[1] \in {"list", "vector", "vector of"} -> V(<<"list", v>>, s)
      [] e[1] = "init" -> V(v, s)
      [] e[1] \in {"member", "field"} -> IF v[1][1] = "struct" THEN V(v[1][3][e[3]], s) ELSE Ill(s)
      [] e[1] = "struct" -> V(<<"struct", e[2], [x \in {s.prog.fields[e[2]][i] : i \in DOMAIN s.prog.fields[e[2]]} |->
           LET at == {i \in DOMAIN e[3] : e[3][i][1] = x}
           IN  IF at = {} THEN Number(0) ELSE v[Max(at)]]>>, s)
      [] OTHER -> Ill(s)

(* `and` and `or` stop as soon as they know. *)
ShortCut(e, s) ==
    LET a == Ev(e[3], s)
    IN  IF ~Going(a.s) \/ (a.v = Truth(e[2] \in {"or", "||"})) THEN a ELSE Ev(e[4], a.s)

Ev(e, s) ==
    CASE e[1] \in {"number", "int"} -> V(Number(e[2]), s)
      [] e[1] \in {"string", "std::string", "chars"} -> V(<<"str", e[2]>>, s)
      [] e[1] \in {"bool", "slice_end", "empty_seq"} -> V(e, s)
      [] e[1] \in {"ident", "name"} -> IF Level(s, e[2]) = 0 /\ e[2] \in DOMAIN s.prog.fns
                                      THEN V(<<"fn", e[2]>>, s) ELSE Lookup(s, e[2])
      [] e[1] = "lambda" -> V(<<"fn", e[2]>>, s)
      [] e[1] = "this" -> Lookup(s, "self")
      [] e[1] = "enumerator" \/ (e[1] = "member" /\ Operands(e) = <<>>) -> V(<<"enum", e[3]>>, s)
      [] e[1] \in {"binary", "infix"} /\ e[2] \in {"and", "or", "&&", "||"} -> ShortCut(e, s)
      [] OTHER -> LET a == EvAll(Operands(e), s)
                  IN  IF Going(a.s) THEN Apply(e, a.v, a.s) ELSE V(None, a.s)

-----------------------------------------------------------------------------
(* Statements. *)

In(b, scope, s) ==           \* a block of its own
    LET r == Run(b, Push1(s, scope)) IN Pop1(r, Len(s.env))
NoNames == <<>>

After(s, fin) ==             \* a finally: however s ended, it still ends so
    IF s.how = "ill" THEN s
    ELSE LET f == In(fin, NoNames, [s EXCEPT !.how = "go"]) IN [f EXCEPT !.how = s.how, !.val = s.val]

Loop(s) == IF s.how \in {"break", "continue"} THEN [s EXCEPT !.how = "go"] ELSE s
While(cond, b, s, turns) ==
    LET c == Ev(cond, s)
        r == In(b, NoNames, c.s)
    IN  IF ~Going(c.s) \/ c.v = Truth(FALSE) THEN c.s
        ELSE IF turns = 0 \/ c.v # Truth(TRUE) THEN Ill(s).s
        ELSE IF r.how \in {"go", "continue"} THEN While(cond, b, Loop(r), turns - 1) ELSE Loop(r)
RangeOver(x, i, stop, b, s) ==   \* stop: an expression, asked for again before every turn
    LET n == Ev(stop, s)
        r == In(b, x :> Number(i), n.s)
    IN  IF ~Going(n.s) \/ i >= n.v[2] THEN n.s
        ELSE IF i > MaxTurns THEN Ill(s).s
        ELSE IF r.how \in {"go", "continue"} THEN RangeOver(x, i + 1, stop, b, Loop(r)) ELSE Loop(r)
EachOf(x, v, i, b, s) ==
    LET r == In(b, x :> v[i], s)
    IN  IF i > Len(v) THEN s
        ELSE IF r.how \in {"go", "continue"} THEN EachOf(x, v, i + 1, b, Loop(r)) ELSE Loop(r)
Iterate(x, v, b, s) == IF v[1] = "list" THEN EachOf(x, v[2], 1, b, s) ELSE Ill(s).s

MeantFor(x, over, b, s) ==
    LET a == EvAll([i \in DOMAIN over[3] |-> over[3][i][2]], s)
        v == Ev(over, s)
    IN  IF over[1] = "call" /\ over[2] = <<"ident", "range">>
        THEN IF ~Going(a.s) THEN a.s
             ELSE RangeOver(x, IF Len(a.v) = 2 THEN a.v[1][2] ELSE 0, <<"number", Last(a.v)[2]>>, b, a.s)
        ELSE IF Going(v.s) THEN Iterate(x, v.v, b, v.s) ELSE v.s

(* The handlers of an error, asked in their order; reached with s.handling = the error. *)
Handle(hs, rethrow, s) ==
    LET kind == Ev(hs[1][1], s)
        takes == hs[1][1] = Nil \/ kind.v = <<"str", s.handling[2]>>
        scope == IF hs[1][2] = "" THEN NoNames ELSE hs[1][2] :> s.handling
    IN  IF hs = <<>> THEN IF rethrow THEN Ends(s, "raise", s.handling) ELSE s
        ELSE IF hs[1][1] # Nil /\ ~Going(kind.s) THEN kind.s
        ELSE IF takes THEN In(hs[1][3], scope, s)
        ELSE Handle(Tail(hs), rethrow, s)
Guarded(body, hs, rethrow, s) ==
    LET r == In(body, NoNames, s)
    IN  IF r.how # "raise" THEN r
        ELSE [Handle(hs, rethrow, [r EXCEPT !.how = "go", !.handling = r.val]) EXCEPT !.handling = s.handling]

MeantMatch(v, cases, s) ==   \* the first arm whose pattern is the subject, or else the wildcard
    LET Takes(i) == cases[i][2] # Nil /\ Ev(cases[i][2], s).v = v
        arms == {i \in DOMAIN cases : Takes(i)}
        wild == {i \in DOMAIN cases : cases[i][2] = Nil}
    IN  IF arms # {} THEN In(cases[Min(arms)][3], NoNames, s)
        ELSE IF wild # {} THEN In(cases[Min(wild)][3], NoNames, s) ELSE s
Switch(v, arms, default, s) ==
    LET Takes(i) == \E j \in DOMAIN arms[i][1] : Same(Ev(arms[i][1][j], s).v, v)
        hit == {i \in DOMAIN arms : Takes(i)}
        r == In(IF hit = {} THEN default ELSE arms[Min(hit)][2], NoNames, s)
    IN  IF r.how = "break" THEN [r EXCEPT !.how = "go"] ELSE r

Raised(v) == IF v[1] = "error" THEN v ELSE <<"error", <<"error">>, v[2]>>
Set(op, lv, e, s) ==
    LET v == Ev(e, s)
        old == Ev(lv, v.s)
        new == IF lv[1] \in {"name", "[]", "field"} /\ op = "+=" THEN PlusAssign(old.v, v.v, old.s)
               ELSE IF old.v[1] # v.v[1] THEN Ill(old.s)
               ELSE IF op = "+=" /\ v.v[1] = "str" THEN V(<<"str", old.v[2] \o v.v[2]>>, old.s)
               ELSE IF op = "+=" THEN V(Number(old.v[2] + v.v[2]), old.s)
               ELSE V(Number(old.v[2] - v.v[2]), old.s)
    IN  IF ~Going(v.s) THEN v.s
        ELSE IF op = "=" THEN Store(lv, v.v, v.s)
        ELSE IF ~Going(old.s) THEN old.s ELSE IF ~Going(new.s) THEN new.s ELSE Store(lv, new.v, new.s)
RECURSIVE AppendAll(_, _, _)
AppendAll(x, es, s) ==
    LET v == Ev(es[1], s)
        new == PlusAssign(Lookup(v.s, x).v, v.v, v.s)
    IN  IF es = <<>> THEN s
        ELSE IF ~Going(v.s) THEN v.s
        ELSE IF ~Going(new.s) THEN new.s ELSE AppendAll(x, Tail(es), Update(new.s, x, new.v))

(* With(e, s, F): F of the value, unless the expression did not yield one. *)
With1(e, s, F(_, _)) == LET r == Ev(e, s) IN IF Going(r.s) THEN F(r.v, r.s) ELSE r.s
Choice(s, v, then, else) ==
    IF v = Truth(TRUE) THEN In(then, NoNames, s) ELSE IF v = Truth(FALSE) THEN In(else, NoNames, s)
    ELSE Ill(s).s

Step(t, s) ==
    CASE t[1] \in {"let", "var"} ->
           LET e == IF t[1] = "let" THEN t[4] ELSE t[3]
           IN  IF e = Nil THEN s ELSE With1(e, s, LAMBDA v, q : Bind(q, t[2], v))
      [] t[1] = "default" -> Bind(s, t[2], <<"list", <<>>>>)
      [] t[1] = "assign" /\ t[3][1] = "slice" ->
           With1(t[4], s, LAMBDA r, q : With1(t[3][2], q, LAMBDA v, p :
             Store(t[3][2], MeantSplice(v, IF t[3][3] = Nil THEN 0 ELSE Ev(t[3][3], p).v[2],
                                        IF t[3][4] = Nil THEN Len(v[2]) ELSE Ev(t[3][4], p).v[2], r), p)))
      [] t[1] = "assign" -> IF t[2] = "=" /\ t[3][1] = "ident" /\ Level(s, t[3][2]) = 0
                            THEN IF t[3][2] \in DOMAIN s.prog.fns THEN Ill(s).s
                                 ELSE With1(t[4], s, LAMBDA v, q : Bind(q, t[3][2], v))
                            ELSE Set(t[2], t[3], t[4], s)
      [] t[1] = "set" -> Set(t[2], t[3], t[4], s)
      [] t[1] = "append" -> AppendAll(t[2], t[3], s)
      [] t[1] \in {"expr", "do"} -> With1(t[2], s, LAMBDA v, q : q)
      [] t[1] = "if" -> With1(t[2], s, LAMBDA v, q : Choice(q, v, t[3], t[4]))
      [] t[1] = "while" -> While(t[2], t[3], s, MaxTurns)
      [] t[1] = "for" /\ Len(t) = 4 -> MeantFor(t[2], t[3], t[4], s)
      [] t[1] = "for" -> With1(t[3], s, LAMBDA v, q : RangeOver(t[2], v[2], t[4], t[5], q))
      [] t[1] = "for each" -> With1(t[3], s, LAMBDA v, q : Iterate(t[2], v, t[4], q))
      [] t[1] = "with" -> With1(t[2], s, LAMBDA v, q : In(t[4], IF t[3] = "" THEN NoNames ELSE t[3] :> v, q))
      [] t[1] = "block" -> In(t[2], NoNames, s)
      [] t[1] = "return" -> IF t[2] = Nil THEN Ends(s, "return", None)
                            ELSE With1(t[2], s, LAMBDA v, q : Ends(q, "return", v))
      [] t[1] \in {"raise", "throw"} ->
           IF t[2] # Nil THEN With1(t[2], s, LAMBDA v, q : Ends(q, "raise", Raised(v)))
           ELSE IF s.handling = None THEN Ill(s).s ELSE Ends(s, "raise", s.handling)
      [] t[1] = "try" ->
           LET r == Guarded(t[2], [i \in DOMAIN t[3] |-> <<t[3][i][2], t[3][i][1], t[3][i][3]>>], TRUE, s)
           IN  IF t[4] THEN After(r, t[5]) ELSE r
      [] t[1] = "catch" -> Guarded(t[2], t[3], t[4], s)
      [] t[1] = "match" -> With1(t[2], s, LAMBDA v, q : MeantMatch(v, t[3], q))
      [] t[1] = "switch" -> With1(t[2], s, LAMBDA v, q : Switch(v, t[3], t[4], q))
      [] t[1] \in {"break", "continue"} -> Ends(s, t[1], None)
      [] OTHER -> Ill(s).s

Run(b, s) ==
    IF b = <<>> \/ ~Going(s) THEN s
    ELSE IF b[1][1] = "guard" THEN After(Run(Tail(b), s), b[1][2])
    ELSE Run(Tail(b), Step(b[1], s))

Begin(prog) == [env |-> <<NoNames>>, out |-> <<>>, how |-> "go", val |-> None, handling |-> None, prog |-> prog]
Outcome(s) == [out |-> s.out, how |-> s.how, val |-> IF Going(s) THEN None ELSE s.val]
Meant(prog) ==
    LET k == Analyze(prog)
        body == SelectSeq(prog, LAMBDA t : t[1] \notin {"import", "struct", "fn", "interface", "enum"})
    IN  Outcome(Run(body, Begin([fns |-> k.fns, structs |-> k.structs])))
Done(cpp) == Outcome(Run(cpp.main, Begin(cpp)))

-----------------------------------------------------------------------------
(* Names and jumps.  Shape(t): the expressions t evaluates, the names it declares
   in its block, and its own blocks with the names and the jumps each begins with. *)

RECURSIVE Mentions(_), Legal(_, _, _, _), Wrong(_)
Mentions(e) ==
    IF e[1] \in {"ident", "name"} THEN {e[2]}
    ELSE UNION {Mentions(Operands(e)[i]) : i \in DOMAIN Operands(e)}
           \union (IF e[1] \in {"call", "invoke"} /\ e[2][1] \in {"ident", "name"} THEN {e[2][2]} ELSE {})
Wrong(e) == e[1] = "error" \/ (e[1] = "lambda" /\ e[2] \in CppKeywords) \/ \E i \in DOMAIN CKids(e) : Wrong(CKids(e)[i])

Jumps == {"break", "continue"}
Inner(b, names, jumps) == [b |-> b, names |-> names, jumps |-> jumps]
Shape(t, j) ==
    LET S(es, decl, bs) == [es |-> SelectSeq(es, LAMBDA e : e # Nil), decl |-> decl, bs |-> bs]
        Plain(bs) == [i \in DOMAIN bs |-> Inner(bs[i], {}, j)]
        One(x) == {x} \ {""}
    IN  CASE t[1] = "let" -> S(<<t[4]>>, IF t[4] = Nil THEN {} ELSE {t[2]}, <<>>)
          [] t[1] = "var" -> S(<<t[3]>>, {t[2]}, <<>>)
          [] t[1] = "default" -> S(<<>>, {t[2]}, <<>>)
          [] t[1] \in {"assign", "set"} -> S(<<t[3], t[4]>>, {}, <<>>)
          [] t[1] = "append" -> S(<<<<"name", t[2]>>>> \o t[3], {}, <<>>)
          [] t[1] = "if" -> S(<<t[2]>>, {}, Plain(<<t[3], t[4]>>))
          [] t[1] = "while" -> S(<<t[2]>>, {}, <<Inner(t[3], {}, Jumps)>>)
          [] t[1] = "for" /\ Len(t) = 4 ->
               S(IF t[3][1] = "call" /\ t[3][2] = <<"ident", "range">>
                 THEN [i \in DOMAIN t[3][3] |-> t[3][3][i][2]] ELSE <<t[3]>>, {}, <<Inner(t[4], {t[2]}, Jumps)>>)
          [] t[1] = "for" -> S(<<t[3], t[4]>>, {}, <<Inner(t[5], {t[2]}, Jumps)>>)
          [] t[1] = "for each" -> S(<<t[3]>>, {}, <<Inner(t[4], {t[2]}, Jumps)>>)
          [] t[1] = "with" -> S(<<t[2]>>, {}, <<Inner(t[4], One(t[3]), j)>>)
          [] t[1] = "block" -> S(<<>>, {}, Plain(<<t[2]>>))
          [] t[1] = "guard" -> S(<<>>, {}, <<Inner(t[2], {}, {})>>)
          [] t[1] = "try" -> S([i \in DOMAIN t[3] |-> t[3][i][2]], {},
               <<Inner(t[2], {}, j), Inner(t[5], {}, {})>> \o [i \in DOMAIN t[3] |-> Inner(t[3][i][3], One(t[3][i][1]), j)])
          [] t[1] = "catch" -> S([i \in DOMAIN t[3] |-> t[3][i][1]], {},
               <<Inner(t[2], {}, j)>> \o [i \in DOMAIN t[3] |-> Inner(t[3][i][3], One(t[3][i][2]), j)])
          [] t[1] = "match" -> S(<<t[2]>> \o [i \in DOMAIN t[3] |-> t[3][i][2]], {},
                                 Plain([i \in DOMAIN t[3] |-> t[3][i][3]]))
          [] t[1] = "switch" -> S(<<t[2]>>, {}, [i \in 1 .. Len(t[3]) + 1 |->
               Inner(IF i > Len(t[3]) THEN t[4] ELSE t[3][i][2], {}, j \union {"break"})])
          [] t[1] \in Jumps -> S(<<>>, {}, <<>>)
          [] OTHER -> S(<<t[2]>>, {}, <<>>)

(* all: the names in scope, a constant one also as "!" and its name; here: those of
   this block, a let without a value as "?" and its name until an assignment in
   the same block gives it one. *)
RECURSIVE Constant(_, _)
Constant(e, all) ==
    CASE e[1] \in {"number", "int", "bool"} -> TRUE
      [] e[1] \in {"ident", "name"} -> "!" \o e[2] \in all
      [] e[1] \in {"unary", "prefix", "binary", "infix"} ->
           e[2] # "in" /\ \A i \in DOMAIN Operands(e) : Constant(Operands(e)[i], all)
      [] OTHER -> FALSE
Const(t) == CASE t[1] = "let" -> t[5] [] t[1] = "var" -> t[4] [] t[1] = "if" -> t[5]
              [] t[1] = "match" -> t[4] [] OTHER -> FALSE
Root(e) == LET RECURSIVE F(_)
               F(x) == IF x[1] \in {"field", "[]"} THEN F(x[2]) ELSE x
           IN  F(e)
Mutates(t) == \/ t[1] = "set" /\ Root(t[3]) = <<"this">>
              \/ /\ t[1] = "do" /\ t[2][1] = "builtin" /\ t[2][2] \in {"append", "slice_assign"}
                 /\ Root(t[2][3][1]) = <<"this">>
Labels(arms) == FlattenSeq([i \in DOMAIN arms |-> arms[i][1]])

Legal(b, all, here, j) ==
    LET t == b[1]
        h == Shape(t, j)
        unset == t[1] = "let" /\ t[4] = Nil
        sets == t[1] = "assign" /\ t[2] = "=" /\ t[3][1] = "ident" /\ "?" \o t[3][2] \in here
        fresh == h.decl \union (IF sets THEN {t[3][2]} ELSE {})
        hidden == fresh \union (IF unset THEN {t[2]} ELSE {})
        names == (all \ (hidden \union {"!" \o x : x \in hidden})) \union fresh
                   \union (IF Const(t) THEN {"!" \o x : x \in fresh} ELSE {})
        marks == (here \union (IF unset THEN {"?" \o t[2]} ELSE {}))
                   \ (IF sets THEN {"?" \o t[3][2]} ELSE {})
        read == IF sets THEN <<t[4]>> ELSE h.es
    IN  \/ b = <<>>
        \/ /\ \A i \in DOMAIN read : Mentions(read[i]) \subseteq all /\ ~Wrong(read[i])
           /\ Const(t) => \A i \in DOMAIN read : Constant(read[i], all)
           /\ fresh \intersect (here \union UNION {Mentions(read[i]) : i \in DOMAIN read}) = {}
           /\ t[1] \in Jumps => t[1] \in j
           /\ t[1] = "switch" => IsInjective(Labels(t[3]))
           /\ "const this" \in all => ~Mutates(t)
           /\ \A i \in DOMAIN h.bs :
                LET own == h.bs[i].names
                IN  Legal(h.bs[i].b, (all \ {"!" \o x : x \in own}) \union own, own, h.bs[i].jumps)
           /\ Legal(Tail(b), names, marks \union fresh, j)

Globals == {"io", "range", "len", "str", "Error"}
LegalBody(b, params, globals) == Legal(b, params \union globals, params, {})
WellFormed(prog) ==
    LET k == Analyze(prog)
        main == SelectSeq(prog, LAMBDA t : t[1] \notin {"import", "struct", "fn", "interface", "enum"})
        globals == Globals \union DOMAIN k.fns \union DOMAIN k.structs \union k.enums
        Of(f) == LegalBody(f[5], {f[3][i][1] : i \in DOMAIN f[3]}, globals)
    IN  /\ LegalBody(main, {}, globals)
        /\ \A f \in DOMAIN k.fns : Of(k.fns[f])
        /\ \A x \in DOMAIN k.structs : \A i \in DOMAIN k.structs[x][5] : Of(k.structs[x][5][i])
Compiles(cpp) ==
    LET globals == {f[1] : f \in DOMAIN cpp.fns}
    IN  /\ LegalBody(cpp.main, {}, globals)
        /\ \A f \in DOMAIN cpp.fns : LegalBody(cpp.fns[f][2], Range(cpp.fns[f][1]), globals)
        /\ cpp.aliases \intersect (globals \union DOMAIN cpp.methods) = {}
        /\ \A x \in DOMAIN cpp.methods : \A m \in DOMAIN cpp.methods[x] :
             LegalBody(cpp.methods[x][m][2], Range(cpp.methods[x][m][1]),
                       globals \union (IF cpp.methods[x][m][3] THEN {"const this"} ELSE {}))
=============================================================================
