-------------------------------- MODULE Json --------------------------------
(* The JSON library of src/stdlib/parsers/json: the iterative grammar with its two
   builders (json.cpp), the scanners (scan.hpp), dump, and read<T> into a typed
   value (read.hpp).  A text t is a sequence of characters and i a place in it; a
   scanner returns the set of its results, empty when it fails, and a result starts
   with the place after what was read. *)
EXTENDS Integers, SequencesExt

CONSTANTS Word,              \* 2^64, where the digits of a number wrap
          ExactDigits,       \* digits that cannot wrap: 19
          ExactMantissa,     \* 2^53
          ExactScale,        \* the powers of ten a double holds exactly: 22
          PerOne, MaxShift,   \* the doubles are m * 2^j / PerOne, m < ExactMantissa, j <= MaxShift
          Powers,            \* 10^Powers is above and 10^-Powers below all of them
          IntMax, IntDigits,   \* the int of a typed field and its digits10
          MaxDepth           \* kMaxParseDepth

IntMin == -IntMax - 1
Quote == "\""
Slash == "\\"
At(t, i) == IF i \in DOMAIN t THEN t[i] ELSE "end"
SkipWs(t, i) == Min({j \in i .. Len(t) + 1 : At(t, j) # " "})
Match(t, i, lit) == IF i + Len(lit) <= Len(t) + 1 /\ SubSeq(t, i, i + Len(lit) - 1) = lit
                    THEN {i + Len(lit)} ELSE {}

DigitOf == [d \in {"0", "1", "2", "3", "4", "5", "6", "7", "8", "9"} |->
              CHOOSE n \in 0 .. 9 : d = <<"0", "1", "2", "3", "4", "5", "6", "7", "8", "9">>[n + 1]]
HexOf == [a |-> 10, b |-> 11, c |-> 12, d |-> 13, e |-> 14, f |-> 15] @@ DigitOf
True == <<"t", "r", "u", "e">>
False == <<"f", "a", "l", "s", "e">>
NullText == <<"n", "u", "l", "l">>

-----------------------------------------------------------------------------
(* Strings. *)

RECURSIVE Closing(_, _), DecodeEscapes(_)
Closing(t, i) ==             \* where the string that is open at i is closed
    CASE i > Len(t) -> {}
      [] t[i] = Quote -> {i}
      [] t[i] = Slash -> IF i = Len(t) THEN {} ELSE Closing(t, i + 2)
      [] OTHER -> Closing(t, i + 1)
ScanString(t, i) == {<<q + 1, SubSeq(t, i + 1, q - 1)>> : q \in Closing(t, i + 1)}
Escaped(raw) == \E i \in DOMAIN raw : raw[i] = Slash

Selector == (Quote :> Quote) @@ (Slash :> Slash) @@ ("/" :> "/") @@ ("n" :> "newline")
Hex4(raw, i) ==
    IF i + 3 <= Len(raw) /\ \A k \in 0 .. 3 : raw[i + k] \in DOMAIN HexOf
    THEN {FoldLeft(LAMBDA v, k : 16 * v + HexOf[raw[i + k]], 0, <<0, 1, 2, 3>>)} ELSE {}
Code(cp) == IF cp = 97 THEN "a" ELSE "U+" \o ToString(cp)      \* append_utf8
High == 55296 .. 56319
Low == 56320 .. 57343
Then(raw, n, x) == {<<x>> \o s : s \in DecodeEscapes(SubSeq(raw, n, Len(raw)))}
DecodeEscapes(raw) ==        \* the characters, a \u escape as its code point
    CASE raw = <<>> -> {<<>>}
      [] raw[1] # Slash -> Then(raw, 2, raw[1])
      [] At(raw, 2) \in DOMAIN Selector -> Then(raw, 3, Selector[raw[2]])
      [] At(raw, 2) = "u" ->
           UNION {IF cp \notin High THEN Then(raw, 7, Code(cp))
                  ELSE IF ~(At(raw, 7) = Slash /\ At(raw, 8) = "u") THEN {}
                  ELSE UNION {Then(raw, 13, Code(65536 + 1024 * (cp - 55296) + lo - 56320)) :
                                lo \in Hex4(raw, 9) \intersect Low} : cp \in Hex4(raw, 3)}
      [] OTHER -> {}

(* <<"string", characters, owned>>: not owned is a view into the text. *)
ParseString(t, i, owns) ==
    UNION {IF Escaped(r[2]) THEN {<<r[1], <<"string", s, TRUE>>>> : s \in DecodeEscapes(r[2])}
           ELSE {<<r[1], <<"string", r[2], owns>>>>} : r \in ScanString(t, i)}

-----------------------------------------------------------------------------
(* Numbers: <<"number", negative, u>> is the double of magnitude u / PerOne. *)

Past(t, i) == Min({j \in i .. Len(t) + 1 : At(t, j) \notin DOMAIN DigitOf})
Exactly(digits) == FoldLeft(LAMBDA v, d : 10 * v + DigitOf[d], 0, digits)
Wrapped(digits) == FoldLeft(LAMBDA v, d : (10 * v + DigitOf[d]) % Word, 0, digits)
RECURSIVE Spelled(_)
Spelled(n) == LET d == <<CHOOSE c \in DOMAIN DigitOf : DigitOf[c] = n % 10>>
              IN  IF n < 10 THEN d ELSE Spelled(n \div 10) \o d

(* The double next to n / (d * PerOne), the even one of two; none when that is infinite,
   or zero although n is not. *)
Nearest(n, d) ==
    LET shifts == {j \in 0 .. MaxShift : n \div (2 ^ j * d) < ExactMantissa}
        unit == 2 ^ Min(shifts) * d
        rest == 2 * (n % unit)
        even == (n \div unit) % 2 = 0
        up == rest > unit \/ (rest = unit /\ ~even)
    IN  IF n = 0 THEN {0} ELSE IF shifts = {} THEN {}
        ELSE {(n \div unit + IF up THEN 1 ELSE 0) * (unit \div d)} \ {0, ExactMantissa * 2 ^ MaxShift}
FromChars(m, e) ==           \* std::from_chars of m * 10^e: refuses what is out of range
    CASE m > 0 /\ Len(Spelled(m)) + e \notin 1 - Powers .. Powers -> {}
      [] m > 0 /\ e < 0 -> Nearest(m * PerOne, 10 ^ (-e))
      [] OTHER -> Nearest(m * PerOne * (IF m = 0 THEN 1 ELSE 10 ^ e), 1)

FastIfShort(digits, e) ==    \* mutant: wrapped digits may look small
    Wrapped(digits) < ExactMantissa /\ e \in -ExactScale .. ExactScale
Fast(digits, e) == Len(digits) <= ExactDigits /\ Wrapped(digits) < ExactMantissa
                     /\ e \in -ExactScale .. ExactScale
Scaled(m, e) ==              \* one multiplication or division of doubles
    UNION {IF e < 0 THEN Nearest(x * PerOne, ten) ELSE Nearest(x * ten, PerOne) :
             x \in FromChars(m, 0), ten \in FromChars(10 ^ (IF e < 0 THEN -e ELSE e), 0)}
ParseDouble(t, i) ==
    LET negative == At(t, i) = "-"
        whole == IF negative THEN i + 1 ELSE i
        dot == Past(t, whole)
        fraction == At(t, dot) = "."
        exp == IF fraction THEN Past(t, dot + 1) ELSE dot
        power == At(t, exp) = "e"
        sign == power /\ At(t, exp + 1) \in {"-", "+"}
        from == IF sign THEN exp + 2 ELSE exp + 1
        end == IF power THEN Past(t, from) ELSE exp
        digits == SubSeq(t, whole, dot - 1) \o SubSeq(t, dot + 1, exp - 1)
        ten == IF power THEN Exactly(SubSeq(t, from, end - 1)) ELSE 0
        e == (IF At(t, exp + 1) = "-" THEN -ten ELSE ten) - (IF fraction THEN exp - dot - 1 ELSE 0)
    IN  IF dot = whole \/ (fraction /\ exp = dot + 1) \/ (power /\ end = from) THEN {}
        ELSE {<<end, <<"number", negative, u>>>> :
                u \in IF Fast(digits, e) THEN Scaled(Wrapped(digits), e) ELSE FromChars(Exactly(digits), e)}

IntFits(digits) == Len(digits) <= IntDigits
ParseInt(t, i) ==            \* more digits than are sure to fit are read again, exactly
    LET negative == At(t, i) = "-"
        from == IF negative THEN i + 1 ELSE i
        end == Past(t, from)
        digits == SubSeq(t, from, end - 1)
        Signed(n) == IF negative THEN -n ELSE n
    IN  IF end = from THEN {}
        ELSE IF IntFits(digits) THEN {<<end, <<"int", Signed(Wrapped(digits))>>>>}
        ELSE IF Signed(Exactly(digits)) \notin IntMin .. IntMax THEN {}
        ELSE {<<end, <<"int", Signed(Exactly(digits))>>>>}

-----------------------------------------------------------------------------
(* The builders.  Kinds of container: "array" and "object". *)

Kinds == {"array", "object"}
Owning == [owns |-> TRUE, open |-> [k \in Kinds |-> <<>>]]
Pooled == [owns |-> FALSE, pool |-> [k \in Kinds |-> <<>>], scratch |-> [k \in Kinds |-> <<>>], bases |-> <<>>]
Reserved(n) == [k \in Kinds |-> IF k = "array" THEN n \div 2 + 1 ELSE n \div 4 + 1]

Begin(b, k) == IF b.owns THEN [b EXCEPT !.open[k] = Append(@, <<>>)]
               ELSE [b EXCEPT !.bases = Append(@, Len(b.scratch[k]))]
Add(b, k, x) == IF b.owns THEN [b EXCEPT !.open[k] = Append(Front(@), Append(Last(@), x))]
                ELSE [b EXCEPT !.scratch[k] = Append(@, x)]
Finish(b, k) ==
    IF b.owns THEN [v |-> <<k, Last(b.open[k])>>, b |-> [b EXCEPT !.open[k] = Front(@)]]
    ELSE LET base == Last(b.bases)
             children == SubSeq(b.scratch[k], base + 1, Len(b.scratch[k]))
         IN  [v |-> <<"view", k, Len(b.pool[k]), Len(children)>>,
              b |-> [b EXCEPT !.pool[k] = @ \o children, !.scratch[k] = SubSeq(@, 1, base), !.bases = Front(@)]]

-----------------------------------------------------------------------------
(* The grammar.  stack: the open containers, with the key that awaits its value. *)

Opener == ("[" :> "array") @@ ("{" :> "object")
Closer == [array |-> "]", object |-> "}"]
NoKey == <<"null">>

Scalar(t, i, owns) ==
    CASE At(t, i) = Quote -> ParseString(t, i, owns)
      [] At(t, i) = "t" -> {<<j, <<"bool", TRUE>>>> : j \in Match(t, i, True)}
      [] At(t, i) = "f" -> {<<j, <<"bool", FALSE>>>> : j \in Match(t, i, False)}
      [] At(t, i) = "n" -> {<<j, <<"null">>>> : j \in Match(t, i, NullText)}
      [] OTHER -> ParseDouble(t, i)

Key(t, i, stack, owns) ==    \* the key and its colon, in an object
    IF stack = <<>> \/ Last(stack).kind = "array" THEN {<<i, NoKey>>}
    ELSE LET k == SkipWs(t, i)
             read == IF At(t, k) = Quote THEN ParseString(t, k, owns) ELSE {}
         IN  {<<SkipWs(t, r[1]) + 1, r[2]>> : r \in {q \in read : At(t, SkipWs(t, q[1])) = ":"}}

RECURSIVE ParseValue(_, _, _, _), Attach(_, _, _, _)
ParseValue(t, i, stack, b) ==
    UNION {LET j == SkipWs(t, key[1])
               inner == IF stack = <<>> THEN stack ELSE [stack EXCEPT ![Len(stack)].key = key[2]]
               kind == Opener[t[j]]
               first == SkipWs(t, j + 1)
           IN  IF At(t, j) \notin DOMAIN Opener
               THEN UNION {Attach(t, s[1], inner, [v |-> s[2], b |-> b]) : s \in Scalar(t, j, b.owns)}
               ELSE IF At(t, first) = "end" THEN {}
               ELSE IF t[first] = Closer[kind] THEN Attach(t, first + 1, inner, Finish(Begin(b, kind), kind))
               ELSE IF Len(inner) >= MaxDepth THEN {}
               ELSE ParseValue(t, first, Append(inner, [kind |-> kind, key |-> NoKey]), Begin(b, kind)) :
             key \in Key(t, i, stack, b.owns)}
Attach(t, i, stack, r) ==    \* r: the value that was completed, and the builder
    IF stack = <<>> THEN {<<i, r.v, r.b>>}
    ELSE LET top == Last(stack)
             b == Add(r.b, top.kind, IF top.kind = "object" THEN <<top.key, r.v>> ELSE r.v)
             sep == SkipWs(t, i)
         IN  CASE At(t, sep) = "," -> ParseValue(t, sep + 1, stack, b)
               [] At(t, sep) = Closer[top.kind] -> Attach(t, sep + 1, Front(stack), Finish(b, top.kind))
               [] OTHER -> {}
Parse(t, b) == {r \in ParseValue(t, 1, <<>>, b) : SkipWs(t, r[1]) = Len(t) + 1}

(* The value behind the views of a pooled document. *)
RECURSIVE Resolved(_, _), DumpTo(_)
Resolved(v, b) ==
    LET children == SubSeq(b.pool[v[2]], v[3] + 1, v[3] + v[4])
    IN  IF v[1] # "view" THEN v
        ELSE <<v[2], [i \in DOMAIN children |->
                        IF v[2] = "array" THEN Resolved(children[i], b)
                        ELSE <<children[i][1], Resolved(children[i][2], b)>>]>>

-----------------------------------------------------------------------------
(* dump: code points below 32 alone are written as escapes again. *)

DumpString(s) ==
    LET One(c) == CASE c \in {Quote, Slash} -> <<Slash, c>>
                    [] c = "newline" -> <<Slash, "n">>
                    [] OTHER -> <<c>>
    IN  <<Quote>> \o FlattenSeq([i \in DOMAIN s |-> One(s[i])]) \o <<Quote>>
Zeros(n) == [i \in 1 .. n |-> "0"]
Shortest(u) ==               \* the fewest digits m, and e, such that m * 10^e is read as u
    LET ReadBack(e) == LET m == IF e < 0 THEN (u * 10 ^ (-e)) \div PerOne ELSE u \div (PerOne * 10 ^ e)
                       IN  {k \in {m, m + 1} : FromChars(k, e) = {u}}
        e == Max({i \in -Powers .. Powers - 1 : ReadBack(i) # {}})
    IN  <<CHOOSE m \in ReadBack(e) : TRUE, e>>
DumpNumber(v) ==             \* std::to_chars, which of two lengths prefers the fixed notation
    LET short == IF v[3] = 0 THEN <<0, 0>> ELSE Shortest(v[3])
        digits == Spelled(short[1])
        all == Zeros(1 - short[2] - Len(digits)) \o digits
    IN  (IF v[2] THEN <<"-">> ELSE <<>>)
          \o IF short[2] >= 0 THEN digits \o Zeros(short[2])
             ELSE SubSeq(all, 1, Len(all) + short[2]) \o <<".">> \o SubSeq(all, Len(all) + short[2] + 1, Len(all))
Joined(parts) ==
    FlattenSeq([i \in DOMAIN parts |-> IF i = 1 THEN parts[i] ELSE <<",">> \o parts[i]])
DumpTo(v) ==
    CASE v[1] = "null" -> NullText
      [] v[1] = "bool" -> IF v[2] THEN True ELSE False
      [] v[1] = "number" -> DumpNumber(v)
      [] v[1] = "string" -> DumpString(v[2])
      [] v[1] = "array" -> <<"[">> \o Joined([i \in DOMAIN v[2] |-> DumpTo(v[2][i])]) \o <<"]">>
      [] v[1] = "object" ->
           <<"{">> \o Joined([i \in DOMAIN v[2] |-> DumpString(v[2][i][1][2]) \o <<":">> \o DumpTo(v[2][i][2])])
             \o <<"}">>

-----------------------------------------------------------------------------
(* read<T>.  A type is <<"int">>, <<"bool">>, <<"string">>, <<"view">>, <<"optional", T>>,
   <<"vector", T>>, <<"array", n, T>> or <<"struct", <<<<name, T>>, ...>>>>; a result is
   <<place, value, whether a value was skipped>>, and a struct a sequence of its fields. *)

RECURSIVE SkipValue(_, _, _), ReadValue(_, _, _, _), ReadItems(_, _, _, _, _, _), ReadMembers(_, _, _, _, _, _),
          Fresh(_)
Fresh(T) == CASE T[1] = "int" -> <<"int", 0>>
              [] T[1] = "bool" -> <<"bool", FALSE>>
              [] T[1] = "array" -> <<"list", [i \in 1 .. T[2] |-> Fresh(T[3])]>>
              [] T[1] = "struct" -> <<"struct", [i \in DOMAIN T[2] |-> Fresh(T[2][i][2])]>>
              [] OTHER -> <<"none">>

SkipValue(t, i, depth) ==    \* counts brackets without telling their kinds apart
    LET j == SkipWs(t, i)
        c == At(t, j)
        Next1(at, d) == IF d = 0 THEN {at} ELSE SkipValue(t, at, d)
    IN  CASE c = "end" -> {}
          [] c \in {"[", "{"} -> Next1(j + 1, depth + 1)
          [] c \in {"]", "}"} -> IF depth = 0 THEN {} ELSE Next1(j + 1, depth - 1)
          [] c \in {",", ":"} -> IF depth = 0 THEN {} ELSE Next1(j + 1, depth)
          [] c = Quote -> UNION {Next1(r[1], depth) : r \in ScanString(t, j)}
          [] OTHER -> UNION {Next1(r[1], depth) : r \in Scalar(t, j, FALSE)}

ReadString(t, i, view) ==
    IF At(t, i) # Quote THEN {}
    ELSE UNION {IF ~Escaped(r[2]) THEN {<<r[1], <<"text", r[2]>>, FALSE>>}
                ELSE IF view THEN {}
                ELSE {<<r[1], <<"text", s>>, FALSE>> : s \in DecodeEscapes(r[2])} : r \in ScanString(t, i)}

(* The items of an array; n: how many there must be, -1 for any number.  A fixed array's
   are read into those it has (old), a vector's into new ones. *)
ReadItems(t, i, T, n, old, got) ==
    UNION {LET sep == SkipWs(t, r[1])
               items == [v |-> Append(got.v, r[2]), skipped |-> got.skipped \/ r[3]]
               last == Len(items.v) = n
           IN  CASE At(t, sep) = "]" /\ (n = -1 \/ last) -> {<<sep + 1, <<"list", items.v>>, items.skipped>>}
                 [] At(t, sep) = "," /\ ~last -> ReadItems(t, sep + 1, T, n, old, items)
                 [] OTHER -> {} :
             r \in ReadValue(t, i, T, IF n = -1 THEN Fresh(T) ELSE old[2][Len(got.v) + 1])}
ReadList(t, i, T, n, old) ==
    LET first == SkipWs(t, i + 1)
        empty == At(t, first) = "]" /\ n \in {-1, 0}
    IN  IF At(t, i) # "[" THEN {}
        ELSE IF empty THEN {<<first + 1, <<"list", <<>>>>, FALSE>>}
        ELSE IF n = 0 THEN {} ELSE ReadItems(t, i + 1, T, n, old, [v |-> <<>>, skipped |-> FALSE])

(* One member: the field that is expected next is tried first, byte for byte. *)
Predicted(t, i, name) == Match(t, i, <<Quote>> \o name \o <<Quote, ":">>)
Scanned(t, i) ==             \* the key, decoded, and the place after its colon
    IF At(t, i) # Quote THEN {}
    ELSE UNION {{<<SkipWs(t, r[1]) + 1, s>> :
                   s \in IF At(t, SkipWs(t, r[1])) # ":" THEN {}
                         ELSE IF Escaped(r[2]) THEN DecodeEscapes(r[2]) ELSE {r[2]}} : r \in ScanString(t, i)}
ReadMember(t, i, fields, old, hint) ==       \* <<place, struct, skipped, hint>>
    LET Into(at, f) == {<<r[1], [old EXCEPT ![f] = r[2]], r[3], IF f = Len(fields) THEN 1 ELSE f + 1>> :
                          r \in ReadValue(t, at, fields[f][2], old[f])}
        Found(name) == {f \in DOMAIN fields : fields[f][1] = name}
        general == UNION {IF Found(k[2]) # {} THEN Into(k[1], CHOOSE f \in Found(k[2]) : TRUE)
                          ELSE {<<at, old, TRUE, hint>> : at \in SkipValue(t, k[1], 0)} : k \in Scanned(t, i)}
        fast == IF fields = <<>> THEN {} ELSE Predicted(t, i, fields[hint][1])
    IN  IF fast # {} THEN UNION {Into(at, hint) : at \in fast} ELSE general
ReadMembers(t, i, fields, old, hint, skipped) ==
    UNION {LET sep == SkipWs(t, m[1])
           IN  CASE At(t, sep) = "}" -> {<<sep + 1, <<"struct", m[2]>>, skipped \/ m[3]>>}
                 [] At(t, sep) = "," -> ReadMembers(t, sep + 1, fields, m[2], m[4], skipped \/ m[3])
                 [] OTHER -> {} : m \in ReadMember(t, SkipWs(t, i), fields, old, hint)}

ReadValue(t, i, T, old) ==
    LET j == SkipWs(t, i)
        Plain(rs) == {<<r[1], r[2], FALSE>> : r \in rs}
        null == Match(t, j, NullText)
        first == SkipWs(t, j + 1)
    IN  CASE T[1] = "bool" -> Plain({<<k, <<"bool", TRUE>>>> : k \in Match(t, j, True)}
                                      \union {<<k, <<"bool", FALSE>>>> : k \in Match(t, j, False)})
          [] T[1] = "int" -> Plain(ParseInt(t, j))
          [] T[1] \in {"string", "view"} -> ReadString(t, j, T[1] = "view")
          [] T[1] = "optional" ->
               IF null # {} THEN {<<k, <<"none">>, FALSE>> : k \in null}
               ELSE {<<r[1], <<"some", r[2]>>, r[3]>> : r \in ReadValue(t, j, T[2], Fresh(T[2]))}
          [] T[1] = "vector" -> ReadList(t, j, T[2], -1, old)
          [] T[1] = "array" -> ReadList(t, j, T[3], T[2], old)
          [] T[1] = "struct" ->
               IF At(t, j) # "{" THEN {}
               ELSE IF At(t, first) = "}" THEN {<<first + 1, old, FALSE>>}
               ELSE ReadMembers(t, first, T[2], old[2], 1, FALSE)
ReadText(t, T) == {r \in ReadValue(t, 1, T, Fresh(T)) : SkipWs(t, r[1]) = Len(t) + 1}
=============================================================================
