------------------------------ MODULE JsonText ------------------------------
(* What a JSON text denotes, by RFC 8259 with the allowances this library makes
   (leading zeros, a low surrogate on its own), told by how the text can be cut up
   and not by scanning it; and what Json's operators owe to it. *)
EXTENDS Json

Sub(t, i, j) == SubSeq(t, i, j)
RECURSIVE Trimmed(_)
Trimmed(t) == IF t # <<>> /\ t[1] = " " THEN Trimmed(Tail(t))
              ELSE IF t # <<>> /\ Last(t) = " " THEN Trimmed(Front(t)) ELSE t
AllDigits(s) == s # <<>> /\ \A i \in DOMAIN s : s[i] \in DOMAIN DigitOf

(* The characters between the quotes, cut into units. *)
Unit(u) ==
    CASE Len(u) = 1 -> IF u[1] \in {Quote, Slash} THEN {} ELSE {<<"char", u[1]>>}
      [] Len(u) = 2 /\ u[1] = Slash -> IF u[2] \in DOMAIN Selector THEN {<<"char", Selector[u[2]]>>} ELSE {}
      [] Len(u) = 6 /\ u[1] = Slash /\ u[2] = "u" /\ (\A k \in 3 .. 6 : u[k] \in DOMAIN HexOf) ->
           LET cp == ((HexOf[u[3]] * 16 + HexOf[u[4]]) * 16 + HexOf[u[5]]) * 16 + HexOf[u[6]]
           IN  {<<"code", cp>>}
      [] OTHER -> {}
RECURSIVE Units(_), Paired(_), Values(_), Items(_, _), MemberOf(_)
Units(s) == IF s = <<>> THEN {<<>>}
            ELSE UNION {{<<c>> \o rest : c \in Unit(Sub(s, 1, n)), rest \in Units(Sub(s, n + 1, Len(s)))} :
                          n \in {1, 2, 6} \intersect 1 .. Len(s)}
IsCode(c, range) == c[1] = "code" /\ c[2] \in range
Paired(s) ==                 \* a high surrogate needs a low one, and they are one character
    IF s = <<>> THEN {<<>>}
    ELSE IF ~IsCode(s[1], High) THEN {<<IF s[1][1] = "code" THEN Code(s[1][2]) ELSE s[1][2]>> \o r : r \in Paired(Tail(s))}
    ELSE IF Len(s) = 1 \/ ~IsCode(s[2], Low) THEN {}
    ELSE {<<Code((s[1][2] - 55296) * 1024 + (s[2][2] - 56320) + 65536)>> \o r : r \in Paired(Sub(s, 3, Len(s)))}
Text(t) == IF Len(t) < 2 \/ t[1] # Quote \/ Last(t) # Quote THEN {}
           ELSE UNION {Paired(u) : u \in Units(Sub(t, 2, Len(t) - 1))}

(* Numbers as they are written: <<"number", negative, m, e>> is m * 10^e, with no zero
   at the end of m. *)
RECURSIVE Number(_, _, _)
Number(negative, m, e) == IF m = 0 THEN <<"number", negative, 0, 0>>
                          ELSE IF m % 10 = 0 THEN Number(negative, m \div 10, e + 1)
                          ELSE <<"number", negative, m, e>>
Unsigned(t) ==               \* digits, digits . digits, and either with e and a power
    LET Power(s) == IF AllDigits(s) THEN {Exactly(s)}
                    ELSE IF s # <<>> /\ s[1] \in {"+", "-"} /\ AllDigits(Tail(s))
                    THEN {IF s[1] = "-" THEN -Exactly(Tail(s)) ELSE Exactly(Tail(s))} ELSE {}
        Mantissa(s) == (IF AllDigits(s) THEN {<<Exactly(s), 0>>} ELSE {})
                         \union {<<Exactly(Sub(s, 1, k - 1) \o Sub(s, k + 1, Len(s))), k - Len(s)>> :
                                   k \in {k \in DOMAIN s : s[k] = "." /\ AllDigits(Sub(s, 1, k - 1))
                                                                     /\ AllDigits(Sub(s, k + 1, Len(s)))}}
    IN  Mantissa(t) \union UNION {{<<m[1], m[2] + p>> : m \in Mantissa(Sub(t, 1, k - 1)), p \in Power(Sub(t, k + 1, Len(t)))} :
                                    k \in {k \in DOMAIN t : t[k] = "e"}}
Numbers(t) == IF t # <<>> /\ t[1] = "-" THEN {Number(TRUE, n[1], n[2]) : n \in Unsigned(Tail(t))}
              ELSE {Number(FALSE, n[1], n[2]) : n \in Unsigned(t)}

Cuts(t, c) == {k \in DOMAIN t : t[k] = c}
Items(t, kind) ==            \* what lies between the commas
    LET F(s) == IF kind = "object" THEN MemberOf(s) ELSE Values(s)
    IN  {<<x>> : x \in F(t)}
      \union UNION {{<<x>> \o rest : x \in F(Sub(t, 1, k - 1)), rest \in Items(Sub(t, k + 1, Len(t)), kind)} :
                      k \in Cuts(t, ",")}
MemberOf(t) == UNION {{<<<<"string", name, TRUE>>, v>> : name \in Text(Trimmed(Sub(t, 1, k - 1))),
                                                       v \in Values(Sub(t, k + 1, Len(t)))} : k \in Cuts(t, ":")}
Enclosed(s, open, close) == Len(s) > 1 /\ s[1] = open /\ Last(s) = close
Values(t) ==
    LET s == Trimmed(t)
        inner == Sub(s, 2, Len(s) - 1)
    IN  (CASE s = NullText -> {<<"null">>} [] s = True -> {<<"bool", TRUE>>} [] s = False -> {<<"bool", FALSE>>}
           [] OTHER -> {})
          \union Numbers(s) \union {<<"string", c, TRUE>> : c \in Text(s)}
          \union (IF ~Enclosed(s, "[", "]") THEN {}
                  ELSE IF Trimmed(inner) = <<>> THEN {<<"array", <<>>>>} ELSE {<<"array", x>> : x \in Items(inner, "array")})
          \union (IF ~Enclosed(s, "{", "}") THEN {}
                  ELSE IF Trimmed(inner) = <<>> THEN {<<"object", <<>>>>} ELSE {<<"object", x>> : x \in Items(inner, "object")})

(* The value with every number the double that is nearest, told by comparing them all;
   none when a number is beyond the largest or rounds to zero. *)
Doubles == {m * 2 ^ j : m \in 0 .. ExactMantissa, j \in 0 .. MaxShift}
Twos(u) == Max({j \in 0 .. 30 : u % (2 ^ j) = 0})
Closest(n, d) ==
    LET Distance(u) == IF u * d < n THEN n - u * d ELSE u * d - n
        best == Min({Distance(u) : u \in Doubles})
        tied == {u \in Doubles : Distance(u) = best}
    IN  CHOOSE u \in tied : \A w \in tied : Twos(w) <= Twos(u)
AsDouble(m, e) ==            \* 10^(Powers - 1) * PerOne * the largest magnitude fits TLC's integers
    IF m = 0 THEN {0}
    ELSE IF Len(Spelled(m)) + e \notin 1 - Powers .. Powers THEN {}
    ELSE {Closest(m * PerOne * 10 ^ Max({e, 0}), 10 ^ Max({-e, 0}))} \ {0, ExactMantissa * 2 ^ MaxShift}
RECURSIVE Doubled(_)
Doubled(v) ==
    LET All(S(_)) == IF \E i \in DOMAIN v[2] : S(v[2][i]) = {} THEN {}
                     ELSE {<<v[1], [i \in DOMAIN v[2] |-> CHOOSE x \in S(v[2][i]) : TRUE]>>}
    IN  CASE v[1] = "number" -> {<<"number", v[2], u>> : u \in AsDouble(v[3], v[4])}
          [] v[1] = "array" -> All(Doubled)
          [] v[1] = "object" -> All(LAMBDA m : {<<m[1], x>> : x \in Doubled(m[2])})
          [] OTHER -> {v}

RECURSIVE Depth(_), Owned(_), Copied(_)
Depth(v) == IF v[1] \notin Kinds \/ v[2] = <<>> THEN 0
            ELSE 1 + Max({Depth(IF v[1] = "array" THEN v[2][i] ELSE v[2][i][2]) : i \in DOMAIN v[2]})
Owned(v) == CASE v[1] = "string" -> v[3]
              [] v[1] = "array" -> \A i \in DOMAIN v[2] : Owned(v[2][i])
              [] v[1] = "object" -> \A i \in DOMAIN v[2] : Owned(v[2][i][1]) /\ Owned(v[2][i][2])
              [] OTHER -> TRUE
Copied(v) == CASE v[1] = "string" -> <<"string", v[2], TRUE>>
               [] v[1] = "array" -> <<"array", [i \in DOMAIN v[2] |-> Copied(v[2][i])]>>
               [] v[1] = "object" -> <<"object", [i \in DOMAIN v[2] |-> <<Copied(v[2][i][1]), Copied(v[2][i][2])>>]>>
               [] OTHER -> v

-----------------------------------------------------------------------------
(* The value as T, when it is one.  Numbers must be written as integers in range. *)

RECURSIVE As(_, _, _)
Into(fields, old, v) ==      \* the members in order: the last of a name counts
    FoldLeft(LAMBDA acc, m :
               LET f == {j \in DOMAIN fields : fields[j][1] = m[1][2]}
               IN  IF f = {} THEN acc
                   ELSE UNION {{[s EXCEPT ![j] = x] : x \in As(m[2], fields[j][2], s[j])} : s \in acc, j \in f},
             {old}, v)
As(v, T, old) ==
    CASE T[1] = "int" -> IF v[1] # "number" \/ v[4] < 0 THEN {}
                         ELSE LET n == (IF v[2] THEN -1 ELSE 1) * v[3] * 10 ^ v[4]
                              IN  IF n \in IntMin .. IntMax THEN {<<"int", n>>} ELSE {}
      [] T[1] = "bool" -> IF v[1] = "bool" THEN {v} ELSE {}
      [] T[1] \in {"string", "view"} -> IF v[1] = "string" THEN {<<"text", v[2]>>} ELSE {}
      [] T[1] = "optional" -> IF v = <<"null">> THEN {<<"none">>} ELSE {<<"some", x>> : x \in As(v, T[2], Fresh(T[2]))}
      [] T[1] \in {"vector", "array"} ->
           IF v[1] # "array" \/ (T[1] = "array" /\ Len(v[2]) # T[2]) THEN {}
           ELSE LET E == Last(T)
                    parts == [i \in DOMAIN v[2] |-> As(v[2][i], E, IF T[1] = "array" THEN old[2][i] ELSE Fresh(E))]
                IN  IF \E i \in DOMAIN parts : parts[i] = {} THEN {}
                    ELSE {<<"list", [i \in DOMAIN parts |-> CHOOSE x \in parts[i] : TRUE]>>}
      [] T[1] = "struct" -> IF v[1] # "object" THEN {} ELSE {<<"struct", s>> : s \in Into(T[2], old[2], v[2])}

-----------------------------------------------------------------------------
(* Both builders accept a text exactly when it denotes a value that is not nested too
   deeply and whose numbers are in the range of a double, and build that value, each
   number rounded once, to the nearest double; an owning document has no view into the text; the
   pools of the other never outgrow what was reserved for them, so that no view dangles;
   and what dump writes is read as the same value. *)
DocumentIsTheText(t) ==
    LET meant == UNION {Doubled(v) : v \in {v \in Values(t) : Depth(v) <= MaxDepth}}
        owned == Parse(t, Owning)
        pooled == Parse(t, Pooled)
    IN  /\ {r[2] : r \in owned} = {v : v \in meant}
        /\ {Copied(Resolved(r[2], r[3])) : r \in pooled} = meant
        /\ \A r \in ParseValue(t, 1, <<>>, Pooled) : \A k \in Kinds : Len(r[3].pool[k]) <= Reserved(Len(t))[k]
        /\ \A v \in meant : {r[2] : r \in Parse(DumpTo(v), Owning)} = {v}

(* A text is read into a T exactly when it denotes a value that is one, and then as it;
   but where a member is skipped, what its value is like is not looked into except that
   its numbers must be in the range of a double, integers may not be written with a
   fraction or a power, and a view cannot hold escapes. *)
TypedIsTheText(t, T) ==
    LET meant == UNION {As(v, T, Fresh(T)) : v \in Values(t)}
        inRange == {v \in Values(t) : Doubled(v) # {}}
        got == ReadText(t, T)
        plain == \A i \in DOMAIN t : t[i] \notin {".", "e", Slash}
    IN  /\ plain => UNION {As(v, T, Fresh(T)) : v \in inRange} \subseteq {r[2] : r \in got}
        /\ \A r \in got : r[3] \/ r[2] \in meant
=============================================================================
