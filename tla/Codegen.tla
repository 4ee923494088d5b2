------------------------------ MODULE Codegen ------------------------------
(* The code generator of src/compiler/codegen.cpp: the syntax tree of a program to
   C++.  A node is a tuple that starts with its kind: the source's are those of
   Parser, and the emitted ones name the C++ construct that is written.  Layout,
   types and documentation are left out; an <<"error">> node stands for a diagnostic. *)
EXTENDS Integers, SequencesExt

CONSTANTS CppKeywords, Widths, RemoveUnused

-----------------------------------------------------------------------------
(* The helpers of src/stdlib/builtins/builtins.hpp that emitted code calls.  A
   value is <<"int", n>>, <<"size", n>> (the size_t of len), <<"float", n, d>>,
   <<"bool", b>>, <<"str", characters>>, <<"list", values>>,
   <<"error", kind, message>> or <<"struct", name, fields>>; a helper that throws returns
   <<"throw", what>>. *)

SliceEnd == <<"slice_end">>  \* slice_end, the largest long long
EmptySeq == <<"empty_seq">>
Throw(what) == <<"throw", what>>

Least(a, b) == IF a < b THEN a ELSE b
Most(a, b) == IF a < b THEN b ELSE a
NormIndex(i, n) == IF i < 0 THEN i + n ELSE i

Digits == <<"0", "1", "2", "3", "4", "5", "6", "7", "8", "9">>
RECURSIVE Decimal(_)
Decimal(n) == IF n < 0 THEN <<"-">> \o Decimal(-n)
              ELSE IF n < 10 THEN <<Digits[n + 1]>> ELSE Decimal(n \div 10) \o <<Digits[(n % 10) + 1]>>

Str(v) ==
    CASE v[1] \in {"int", "size"} -> <<"str", Decimal(v[2])>>
      [] v[1] = "bool" -> <<"str", IF v[2] THEN <<"T">> ELSE <<"F">>>>
      [] v[1] = "error" -> <<"str", v[3]>>
      [] OTHER -> v

Length(v) == <<"size", Len(v[2])>>
StartsWith(s, prefix) == <<"bool", IsPrefix(prefix[2], s[2])>>
EndsWith(s, suffix) == <<"bool", IsSuffix(suffix[2], s[2])>>

At(s, i) ==
    LET k == NormIndex(i[2], Len(s[2]))
    IN  IF k < 0 \/ k >= Len(s[2]) THEN Throw("out_of_range")
        ELSE IF s[1] = "str" THEN <<"str", <<s[2][k + 1]>>>> ELSE s[2][k + 1]

(* The bounds of a slice, as offsets: Lo may lie past the end of the list. *)
Lo(lo, n) == Most(NormIndex(lo[2], n), 0)
Hi(hi, n) == IF hi = SliceEnd THEN n ELSE Least(NormIndex(hi[2], n), n)
SliceOf(s, lo, hi) ==
    LET n == Len(s[2])
        a == Lo(lo, n)
        b == Hi(hi, n)
    IN  <<s[1], IF a >= b THEN <<>> ELSE SubSeq(s[2], a + 1, b)>>

SliceAssign(v, lo, hi, rhs) ==
    LET n == Len(v[2])
        a == Least(Lo(lo, n), n)
        b == Most(Hi(hi, n), a)
    IN  <<"list", SubSeq(v[2], 1, a) \o (IF rhs = EmptySeq THEN <<>> ELSE rhs[2])
                    \o SubSeq(v[2], b + 1, n)>>

Push(v, x) == <<"list", Append(v[2], x)>>

IsIn(c, x) == IF c[1] = "list" THEN \E i \in DOMAIN c[2] : c[2][i] = x
              ELSE \E i \in 0 .. Len(c[2]) - Len(x[2]) : SubSeq(c[2], i + 1, i + Len(x[2])) = x[2]

(* C++ division truncates; floordiv and mod correct it. *)
Quot(a, b) == LET q == (IF a < 0 THEN -a ELSE a) \div (IF b < 0 THEN -b ELSE b)
              IN  IF (a < 0) # (b < 0) THEN -q ELSE q
Rem(a, b) == a - b * Quot(a, b)
FloorDiv(a, b) ==
    IF b[2] = 0 THEN Throw("domain_error")
    ELSE <<"int", IF Rem(a[2], b[2]) # 0 /\ (a[2] < 0) # (b[2] < 0)
                  THEN Quot(a[2], b[2]) - 1 ELSE Quot(a[2], b[2])>>
Mod(a, b) ==
    LET r == Rem(a[2], b[2])
    IN  IF b[2] = 0 THEN Throw("domain_error")
        ELSE <<"int", IF r # 0 /\ (r < 0) # (b[2] < 0) THEN r + b[2] ELSE r>>
TrueDiv(a, b) == <<"float", a[2], b[2]>>

(* What a catch (...) makes of the exception in flight. *)
CurrentError(e) ==
    CASE e[1] = "error" -> e
      [] e = Throw("out_of_range") -> <<"error", <<"index">>, <<>>>>
      [] e = Throw("domain_error") -> <<"error", <<"arithmetic">>, <<>>>>
      [] OTHER -> <<"error", <<"error">>, <<>>>>

-----------------------------------------------------------------------------
(* The generator. *)

Nil == <<>>

CppIdent(x) == IF x \in CppKeywords THEN x \o "_" ELSE x

-----------------------------------------------------------------------------
(* What the generator asks of a tree. *)

(* The expressions and the blocks a node holds. *)
Kids(e) ==
    SelectSeq(CASE e[1] \in {"member", "unary"} -> <<IF e[1] = "member" THEN e[2] ELSE e[3]>>
                [] e[1] = "index" -> <<e[2], e[3]>>
                [] e[1] = "slice" -> <<e[2], e[3], e[4]>>
                [] e[1] = "binary" -> <<e[3], e[4]>>
                [] e[1] = "list" -> e[2]
                [] e[1] = "init" -> [i \in DOMAIN e[2] |-> e[2][i][2]]
                [] e[1] = "call" -> <<e[2]>> \o [i \in DOMAIN e[3] |-> e[3][i][2]]
                [] OTHER -> <<>>, LAMBDA k : k # Nil)
Bodies(s) ==
    CASE s[1] = "if" -> <<s[3], s[4]>>
      [] s[1] = "while" -> <<s[3]>>
      [] s[1] \in {"for", "with"} -> <<s[4]>>
      [] s[1] = "try" -> <<s[2]>> \o [i \in DOMAIN s[3] |-> s[3][i][3]] \o <<s[5]>>
      [] s[1] = "match" -> [i \in DOMAIN s[3] |-> s[3][i][3]]
      [] OTHER -> <<>>
(* The expressions a statement reads: the name it assigns to is not one. *)
Reads(s) ==
    SelectSeq(CASE s[1] = "let" -> <<s[4]>>
                [] s[1] = "assign" -> IF s[3][1] = "ident" THEN <<s[4]>> ELSE <<s[3], s[4]>>
                [] s[1] \in {"expr", "return", "raise", "if", "while", "match", "with"} -> <<s[2]>>
                [] s[1] = "for" -> <<s[3]>>
                [] s[1] = "try" -> [i \in DOMAIN s[3] |-> s[3][i][2]]
                [] OTHER -> <<>>, LAMBDA e : e # Nil)
      \o IF s[1] = "match" THEN SelectSeq([i \in DOMAIN s[3] |-> s[3][i][2]], LAMBDA e : e # Nil)
         ELSE <<>>

RECURSIVE RefersTo(_, _), HasCall(_), ReadsVar(_, _), SelfRooted(_), MutatesSelf(_), Names(_),
          Stringy(_, _), FlattenAdd(_), IsConst(_, _), IsSwitchLabel(_), ModulePath(_, _),
          UsesWidth(_), Expr(_, _), Stmt(_, _), Block(_, _), Each(_, _)

RefersTo(e, x) == e = <<"ident", x>> \/ \E i \in DOMAIN Kids(e) : RefersTo(Kids(e)[i], x)
HasCall(e) == e[1] = "call" \/ \E i \in DOMAIN Kids(e) : HasCall(Kids(e)[i])
BlockReads(b, x) == \E i \in DOMAIN b : ReadsVar(b[i], x)
ReadsVar(s, x) == \/ \E i \in DOMAIN Reads(s) : RefersTo(Reads(s)[i], x)
                  \/ \E i \in DOMAIN Bodies(s) : BlockReads(Bodies(s)[i], x)

SelfRooted(e) == \/ e = <<"ident", "self">>
                 \/ e[1] \in {"member", "index"} /\ SelfRooted(e[2])
BlockMutatesSelf(b) == \E i \in DOMAIN b : MutatesSelf(b[i])
MutatesSelf(s) == \/ s[1] = "assign" /\ SelfRooted(s[3])
                  \/ \E i \in DOMAIN Bodies(s) : BlockMutatesSelf(Bodies(s)[i])

(* Every name the program introduces. *)
Own(s) ==
    CASE s[1] \in {"let", "struct", "enum", "interface"} -> {s[2]}
      [] s[1] = "assign" -> IF s[3][1] = "ident" THEN {s[3][2]} ELSE {}
      [] s[1] = "for" -> {s[2]}
      [] s[1] = "with" -> {s[3]} \ {""}
      [] s[1] = "try" -> {s[3][i][1] : i \in DOMAIN s[3]} \ {""}
      [] s[1] = "fn" -> {s[2]} \union {s[3][i][1] : i \in DOMAIN s[3]}
      [] OTHER -> {}
Names(b) ==
    UNION {Own(b[i]) \union UNION {Names(Bodies(b[i])[j]) : j \in DOMAIN Bodies(b[i])} \union
           (CASE b[i][1] = "fn" -> Names(b[i][5]) [] b[i][1] = "struct" -> Names(b[i][5]) [] OTHER -> {}) :
             i \in DOMAIN b}

(* What the whole program says of a name, kept while its bodies are emitted; the
   rest of the generator's state is per body: the lets without a value that no
   assignment has realized, the constexpr names, and whether this is a method. *)
OfKind(prog, kind) == SelectSeq(prog, LAMBDA s : s[1] = kind)
Named(decls) == [x \in {decls[i][2] : i \in DOMAIN decls} |->
                   decls[Max({i \in DOMAIN decls : decls[i][2] = x})]]
Analyze(prog) ==
    LET imports == OfKind(prog, "import")
        Key(m) == IF m[3] = "" THEN m[2][1] ELSE m[3]
        roots == {imports[i][2][1] : i \in DOMAIN imports}
    IN  [fns |-> Named(OfKind(prog, "fn")), structs |-> Named(OfKind(prog, "struct")),
         enums |-> DOMAIN Named(OfKind(prog, "enum")), defined |-> Names(prog),
         modules |-> [x \in {Key(imports[i]) : i \in DOMAIN imports} |->
                        LET m == imports[Max({i \in DOMAIN imports : Key(imports[i]) = x})]
                        IN  IF m[3] = "" THEN <<x>> ELSE m[2]],
         aliased |-> roots \ Names(prog),
         deferred |-> {}, consts |-> {}, method |-> FALSE, width |-> FALSE]
Body(k) == [k EXCEPT !.deferred = {}, !.consts = {}]

-----------------------------------------------------------------------------
(* Expressions. *)

ModulePath(e, k) ==          \* Nil: not a path into a module
    CASE e[1] = "ident" -> IF e[2] \in DOMAIN k.modules THEN k.modules[e[2]] ELSE Nil
      [] e[1] = "member" -> LET base == ModulePath(e[2], k)
                            IN  IF base = Nil THEN Nil ELSE Append(base, e[3])
      [] OTHER -> Nil
ModuleNamespace(path, k) == <<"path", IF path[1] \in k.aliased THEN path ELSE <<"::cheatah">> \o path>>

StrCall(e, k) == /\ e[1] = "call" /\ e[2] = <<"ident", "str">> /\ Len(e[3]) = 1
                 /\ "str" \notin k.defined
Stringy(e, k) == \/ e[1] = "string"
                 \/ StrCall(e, k)
                 \/ e[1] = "binary" /\ e[2] = "+" /\ (Stringy(e[3], k) \/ Stringy(e[4], k))

Builtin(f, args) == <<"builtin", f, args>>
Exprs(es, k) == [i \in DOMAIN es |-> Expr(es[i], k)]
Stop(e, k) == IF e = Nil THEN SliceEnd ELSE Expr(e, k)
Start(e, k) == IF e = Nil THEN <<"int", 0>> ELSE Expr(e, k)
CppOp(op) == CASE op = "or" -> "||" [] op = "and" -> "&&" [] op = "not" -> "!" [] OTHER -> op

Concat(l, r, k) ==           \* a string beside something else: the other side is made one
    LET L == Expr(l, k)
        R == Expr(r, k)
    IN  <<"infix", "+", IF Stringy(r, k) /\ ~Stringy(l, k) THEN Builtin("str", <<L>>) ELSE L,
                        IF Stringy(l, k) /\ ~Stringy(r, k) THEN Builtin("str", <<R>>) ELSE R>>

Binary(op, l, r, k) ==
    LET both == <<Expr(l, k), Expr(r, k)>>
    IN  CASE op = "**" -> <<"std::pow">> \o both
          [] op = "/" -> Builtin("truediv", both)
          [] op = "//" -> Builtin("floordiv", both)
          [] op = "%" -> Builtin("mod", both)
          [] op = "in" -> Builtin("contains", <<both[2], both[1]>>)
          [] op = "+" -> Concat(l, r, k)
          [] OTHER -> <<"infix", CppOp(op)>> \o both

(* typed: the literal is built as the type its place declares. *)
List(es, typed, k) ==
    CASE es = <<>> /\ ~typed -> <<"error">>
      [] Len(es) = 1 /\ ~typed /\ es[1][1] = "list" -> <<"vector of", Exprs(es, k)>>
      [] typed -> <<"vector of", Exprs(es, k)>>
      [] OTHER -> <<"vector", Exprs(es, k)>>
Hinted(e, typed, k) == IF e[1] = "list" THEN List(e[2], typed, k) ELSE Expr(e, k)

StructInit(name, inits, k) ==
    LET fields == {k.structs[name][4][i][2] : i \in DOMAIN k.structs[name][4]}
    IN  IF \E i \in DOMAIN inits : inits[i][1] \notin fields THEN <<"error">>
        ELSE <<"struct", name, [i \in DOMAIN inits |-> <<CppIdent(inits[i][1]), Expr(inits[i][2], k)>>]>>

KwargsInOrder(f, args, k) ==  \* mutant: the arguments in the order they were written
    <<"invoke", <<"name", f[2]>>, [i \in DOMAIN args |-> Expr(args[i][2], k)]>>

(* The slots of a call with keyword arguments; a parameter left over takes its default. *)
KwargsCall(f, args, k) ==
    LET params == k.fns[f[2]][3]
        Slot(i) == IF args[i][1] = ""
                   THEN Cardinality({j \in 1 .. i : args[j][1] = ""})
                   ELSE Max({0} \union {j \in DOMAIN params : params[j][1] = args[i][1]})
        filling == [j \in DOMAIN params |-> {i \in DOMAIN args : Slot(i) = j}]
        known == \A i \in DOMAIN args : Slot(i) \in DOMAIN params
        complete == \A j \in DOMAIN params : \/ Cardinality(filling[j]) = 1
                                             \/ filling[j] = {} /\ params[j][3] # Nil
    IN  IF f[1] # "ident" THEN <<"error">>
        ELSE IF f[2] \notin DOMAIN k.fns THEN <<"error">>
        ELSE IF ~known THEN <<"error">>
        ELSE IF ~complete THEN <<"error">>
        ELSE <<"invoke", <<"name", f[2]>>,
               [j \in DOMAIN params |-> IF filling[j] = {} THEN Expr(params[j][3], k)
                                        ELSE Expr(args[Max(filling[j])][2], k)]>>

(* A function's name as a value becomes a lambda that forwards to it. *)
Args(args, bare, k) ==
    [i \in DOMAIN args |->
       LET e == args[i][2]
       IN  CASE bare /\ e[1] = "string" -> <<"chars", e[2]>>
             [] e[1] = "ident" /\ e[2] \in DOMAIN k.fns -> <<"lambda", e[2]>>
             [] OTHER -> Expr(e, k)]

BuiltinNames == [f \in {"len", "str", "append", "startswith", "endswith", "contains", "Error"} |-> f]
Methods == {"append", "startswith", "endswith", "contains"}

Call(f, args, k) ==
    LET user == f[1] = "ident"
        arg == args[1][2]
    IN  CASE \E i \in DOMAIN args : args[i][1] # "" -> KwargsCall(f, args, k)
          [] user /\ f[2] \in DOMAIN k.structs ->
               IF Len(args) = 1 /\ arg[1] = "init" THEN StructInit(f[2], arg[2], k)
               ELSE <<"positional", f[2], Args(args, FALSE, k)>>
          [] user /\ StrCall(<<"call", f, args>>, k) /\ Stringy(arg, k) -> Expr(arg, k)
          [] user /\ f[2] \in DOMAIN BuiltinNames -> Builtin(f[2], Args(args, FALSE, k))
          [] f[1] = "member" /\ f[3] \in Methods /\ ModulePath(f, k) = Nil ->
               Builtin(f[3], <<Expr(f[2], k)>> \o [i \in DOMAIN args |-> Expr(args[i][2], k)])
          [] OTHER -> <<"invoke", Expr(f, k), Args(args, ModulePath(f, k) = <<"io", "print">>, k)>>

Expr(e, k) ==
    CASE e[1] = "string" -> <<"std::string", e[2]>>
      [] e[1] = "number" -> <<"int", e[2]>>
      [] e[1] = "bool" -> e
      [] e = <<"ident", "self">> /\ k.method -> <<"this">>
      [] e[1] = "ident" -> IF e[2] \in DOMAIN k.modules \ k.defined
                           THEN ModuleNamespace(k.modules[e[2]], k) ELSE <<"name", CppIdent(e[2])>>
      [] e[1] = "member" ->
           IF e[2][1] = "ident" /\ e[2][2] \in k.enums THEN <<"enumerator", e[2][2], CppIdent(e[3])>>
           ELSE IF ModulePath(e, k) # Nil THEN ModuleNamespace(ModulePath(e, k), k)
           ELSE <<"field", Expr(e[2], k), CppIdent(e[3])>>
      [] e[1] = "index" -> Builtin("index", <<Expr(e[2], k), Expr(e[3], k)>>)
      [] e[1] = "slice" -> Builtin("slice", <<Expr(e[2], k), Start(e[3], k), Stop(e[4], k)>>)
      [] e[1] = "unary" -> <<"prefix", CppOp(e[2]), Expr(e[3], k)>>
      [] e[1] = "binary" -> Binary(e[2], e[3], e[4], k)
      [] e[1] = "list" -> List(e[2], FALSE, k)
      [] e[1] = "call" -> Call(e[2], e[3], k)
      [] OTHER -> <<"error">>

-----------------------------------------------------------------------------
(* Statements.  G(c, k): the C++ statements emitted and the state they leave. *)

G(c, k) == [c |-> c, k |-> k]

FlattenAdd(e) == IF e[1] = "binary" /\ e[2] = "+" THEN Append(FlattenAdd(e[3]), e[4]) ELSE <<e>>
UsesWidth(ty) == ty[1] = "type" /\ (ty[2] \in Widths \/ \E i \in DOMAIN ty[3] : UsesWidth(ty[3][i]))

IsConst(e, k) ==
    CASE e[1] \in {"number", "bool"} -> TRUE
      [] e[1] = "ident" -> e[2] \in k.consts
      [] e[1] = "unary" -> e[2] \in {"-", "not"} /\ IsConst(e[3], k)
      [] e[1] = "binary" -> /\ e[2] \notin {"/", "//", "%", "**", "in", "^"}
                            /\ IsConst(e[3], k) /\ IsConst(e[4], k)
      [] OTHER -> FALSE
IsSwitchLabel(e) == e[1] = "number" \/ (e[1] = "unary" /\ e[2] = "-" /\ IsSwitchLabel(e[3]))
FallsThrough(b) == b = <<>> \/ Last(b)[1] \notin {"return", "break", "continue", "raise"}

(* A let that nothing after it in its block reads keeps only the calls of its value. *)
Dead(b) == RemoveUnused /\ b[1][1] = "let" /\ b[1][4] # Nil /\ ~BlockReads(Tail(b), b[1][2])
Effects(s, k) == G(IF HasCall(s[4]) THEN <<<<"do", Expr(s[4], k)>>>> ELSE <<>>, k)

Block(b, k) ==
    LET first == IF Dead(b) THEN Effects(b[1], k) ELSE Stmt(b[1], k)
        rest == Block(Tail(b), first.k)
    IN  IF b = <<>> THEN G(<<>>, k) ELSE G(first.c \o rest.c, rest.k)
Each(bs, k) ==               \* blocks emitted one after the other
    LET first == Block(bs[1], k)
        rest == Each(Tail(bs), first.k)
    IN  IF bs = <<>> THEN G(<<>>, k) ELSE G(<<first.c>> \o rest.c, rest.k)

Let(x, ty, v, const, k) ==
    LET k1 == IF const THEN [k EXCEPT !.consts = @ \union {x}] ELSE k
        typed == ty # Nil /\ (UsesWidth(ty) \/ ty[2] = "array")
    IN  IF v = Nil THEN G(<<>>, [k EXCEPT !.deferred = @ \union {x}])
        ELSE IF ty # Nil /\ v = <<"list", <<>>>> THEN G(<<<<"default", CppIdent(x)>>>>, k1)
        ELSE G(<<<<"var", CppIdent(x), Hinted(v, typed, k), const>>>>, k1)

Lvalue(e, k) == IF e[1] = "index" THEN <<"[]", Expr(e[2], k), Expr(e[3], k)>> ELSE Expr(e, k)
SelfAppend(x, v) ==          \* x = x + a + b, where the rest does not read x
    LET ops == FlattenAdd(v)
    IN  /\ Len(ops) > 1 /\ ops[1] = <<"ident", x>>
        /\ \A i \in 2 .. Len(ops) : ~RefersTo(ops[i], x)
Appended(e, k) == IF e[1] = "string" THEN <<"chars", e[2]>> ELSE Expr(e, k)
Assign(op, target, v, k) ==
    LET plain == op = "=" /\ target[1] = "ident"
        x == target[2]
        ops == FlattenAdd(v)
        rhs == IF v = <<"list", <<>>>> THEN EmptySeq ELSE Expr(v, k)
        unset == target[2][1] = "ident" /\ target[2][2] \in k.deferred
    IN  CASE plain /\ x \in k.deferred ->
               G(<<<<"var", CppIdent(x), Expr(v, k), FALSE>>>>, [k EXCEPT !.deferred = @ \ {x}])
          [] plain /\ x \notin k.deferred /\ SelfAppend(x, v) ->
               G(<<<<"append", CppIdent(x), [i \in 1 .. Len(ops) - 1 |-> Appended(ops[i + 1], k)]>>>>, k)
          [] target[1] = "slice" ->
               G(<<<<"do", IF unset THEN <<"error">>
                           ELSE Builtin("slice_assign", <<Expr(target[2], k), Start(target[3], k),
                                                          Stop(target[4], k), rhs>>)>>>>, k)
          [] OTHER -> G(<<<<"set", op, Lvalue(target, k), Expr(v, k)>>>>, k)

For(x, over, body, k) ==
    LET b == Block(body, k)
        range == over[1] = "call" /\ over[2] = <<"ident", "range">>
        a == IF range THEN [i \in DOMAIN over[3] |-> Expr(over[3][i][2], k)] ELSE <<>>
    IN  CASE ~range -> G(<<<<"for each", CppIdent(x), Expr(over, k), b.c>>>>, b.k)
          [] Len(a) = 1 -> G(<<<<"for", CppIdent(x), <<"int", 0>>, a[1], b.c>>>>, b.k)
          [] Len(a) = 2 -> G(<<<<"for", CppIdent(x), a[1], a[2], b.c>>>>, b.k)
          [] OTHER -> G(<<<<"do", <<"error">>>>>>, k)

Try(body, handlers, finally, fin, k) ==
    LET f == IF finally THEN Block(fin, k) ELSE G(<<>>, k)
        b == Block(body, f.k)
        all == {i \in DOMAIN handlers : handlers[i][2] = Nil}
        used == IF all = {} THEN handlers ELSE SubSeq(handlers, 1, Min(all))
        hs == Each([i \in DOMAIN used |-> used[i][3]], b.k)
        catch == <<"catch", b.c,
                   [i \in DOMAIN used |->
                      <<IF used[i][2] = Nil THEN Nil ELSE Expr(used[i][2], k),
                        IF used[i][1] = "" THEN "" ELSE CppIdent(used[i][1]), hs.c[i]>>],
                   all = {}>>
    IN  G(IF finally THEN <<<<"block", <<<<"guard", f.c>>, catch>>>>>> ELSE <<catch>>, hs.k)

Subject == <<"name", "_purr_match">>
RECURSIVE Chain(_, _, _), Grouped(_)
Chain(tests, bodies, const) ==       \* if / else if on the subject; a Nil test is the else
    IF tests = <<>> THEN <<>>
    ELSE IF tests[1] = Nil THEN bodies[1]
    ELSE <<<<"if", <<"infix", "==", Subject, tests[1]>>, bodies[1],
             Chain(Tail(tests), Tail(bodies), const), const>>>>
Grouped(arms) ==             \* neighbours with the same body share it
    IF Len(arms) < 2 THEN arms
    ELSE IF arms[1][2] = arms[2][2]
         THEN Grouped(<<<<arms[1][1] \o arms[2][1], arms[1][2]>>>> \o SubSeq(arms, 3, Len(arms)))
    ELSE <<arms[1]>> \o Grouped(Tail(arms))
Match(subject, cases, const, k) ==
    LET named == SelectSeq(cases, LAMBDA c : c[2] # Nil)
        wild == SelectSeq(cases, LAMBDA c : c[2] = Nil)
        arms == IF wild = <<>> THEN named ELSE Append(named, Last(wild))
        b == Each([i \in DOMAIN arms |-> arms[i][3]], k)
        cx == const \/ (IsConst(subject, k) /\ \A i \in DOMAIN named : IsConst(named[i][2], k))
        switch == named # <<>> /\ \A i \in DOMAIN named : IsSwitchLabel(named[i][2])
        tests == [i \in DOMAIN arms |-> IF arms[i][2] = Nil THEN Nil ELSE Expr(arms[i][2], k)]
        left == [i \in DOMAIN arms |-> IF FallsThrough(arms[i][3]) THEN Append(b.c[i], <<"break">>)
                                       ELSE b.c[i]]
        labelled == Grouped([i \in DOMAIN named |-> <<<<tests[i]>>, left[i]>>])
        subjectVar == <<"var", "_purr_match", Expr(subject, k), cx>>
    IN  G(<<<<"block",
              IF switch /\ ~cx
              THEN <<subjectVar, <<"switch", Subject, labelled,
                                  IF wild = <<>> THEN <<>> ELSE Last(left)>>>>
              ELSE <<subjectVar>> \o Chain(tests, b.c, cx)>>>>, b.k)

If(cond, then, else, const, k) ==
    LET b == Each(<<then, else>>, k)
    IN  G(<<<<"if", Expr(cond, k), b.c[1], b.c[2], const \/ IsConst(cond, k)>>>>, b.k)
With(resource, name, body, k) ==
    LET b == Block(body, k)
        x == IF name = "" THEN "_purr_with" ELSE CppIdent(name)
    IN  G(<<<<"block", <<<<"var", x, Expr(resource, k), FALSE>>>> \o b.c>>>>, b.k)

Stmt(s, k) ==
    CASE s[1] = "let" -> Let(s[2], s[3], s[4], s[5], k)
      [] s[1] = "assign" -> Assign(s[2], s[3], s[4], k)
      [] s[1] = "if" -> If(s[2], s[3], s[4], s[5], k)
      [] s[1] = "while" -> LET b == Block(s[3], k) IN G(<<<<"while", Expr(s[2], k), b.c>>>>, b.k)
      [] s[1] = "for" -> For(s[2], s[3], s[4], k)
      [] s[1] = "with" -> With(s[2], s[3], s[4], k)
      [] s[1] = "return" -> G(<<<<"return", IF s[2] = Nil THEN Nil ELSE Hinted(s[2], k.width, k)>>>>, k)
      [] s[1] = "try" -> Try(s[2], s[3], s[4], s[5], k)
      [] s[1] = "raise" -> G(<<<<"throw", IF s[2] = Nil THEN Nil ELSE Expr(s[2], k)>>>>, k)
      [] s[1] = "expr" -> G(<<<<"do", Expr(s[2], k)>>>>, k)
      [] s[1] = "match" -> Match(s[2], s[3], s[4], k)
      [] s[1] \in {"break", "continue"} -> G(<<s>>, k)
      [] OTHER -> G(<<>>, k)

-----------------------------------------------------------------------------
(* Functions, methods and the program. *)

Fn(f, k) ==                  \* the function, and an overload for every default left out
    LET n == Len(f[3])
        params == [i \in 1 .. n |-> CppIdent(f[3][i][1])]
        fewest == Max({0} \union {i \in 1 .. n : f[3][i][3] = Nil})
    IN  [a \in {<<CppIdent(f[2]), m>> : m \in fewest .. n} |->
           IF a[2] = n THEN <<params, Block(f[5], Body(k)).c>>
           ELSE <<SubSeq(params, 1, a[2]),
                  <<<<"return", <<"invoke", <<"name", CppIdent(f[2])>>,
                                  [i \in 1 .. n |-> IF i <= a[2] THEN <<"name", params[i]>>
                                                    ELSE Expr(f[3][i][3], k)]>>>>>>>>]

Method(m, k) ==              \* <<parameters, body, const>>
    LET self == m[3] # <<>> /\ m[3][1][1] = "self"
        params == IF self THEN Tail(m[3]) ELSE m[3]
    IN  <<[i \in DOMAIN params |-> CppIdent(params[i][1])],
          Block(m[5], [Body(k) EXCEPT !.method = TRUE]).c, ~(self /\ BlockMutatesSelf(m[5]))>>

Emit(prog) ==
    LET k == Analyze(prog)
        body == SelectSeq(prog, LAMBDA s : s[1] \notin {"import", "struct", "fn", "interface", "enum"})
        Methods1(s) == LET ms == k.structs[s][5]
                       IN  [m \in {CppIdent(ms[i][2]) : i \in DOMAIN ms} |->
                              Method(ms[CHOOSE i \in DOMAIN ms : CppIdent(ms[i][2]) = m], k)]
    IN  [fns |-> FoldSet(LAMBDA f, acc : Fn(k.fns[f], k) @@ acc, <<>>, DOMAIN k.fns),
         fields |-> [s \in DOMAIN k.structs |->
                       [i \in DOMAIN k.structs[s][4] |-> CppIdent(k.structs[s][4][i][2])]],
         methods |-> [s \in DOMAIN k.structs |-> Methods1(s)],
         aliases |-> k.aliased,
         main |-> Block(body, Body(k)).c]
=============================================================================
