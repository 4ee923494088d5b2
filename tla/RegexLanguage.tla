--------------------------- MODULE RegexLanguage ---------------------------
(***************************************************************************)
(* What a regular expression means, apart from how it is matched: the      *)
(* spans of a text it matches, and how it is written. An expression is a   *)
(* tree: a byte class with its spelling, the empty group, a concatenation, *)
(* an alternation or a quantified expression.                              *)
(***************************************************************************)
EXTENDS Naturals, Integers, Sequences, FiniteSets, FiniteSetsExt, SequencesExt

One(cls, spelling) == [op |-> "one", cls |-> cls, spelling |-> spelling]
Nothing == [op |-> "nothing"]
Cat(a, b) == [op |-> "cat", a |-> a, b |-> b]
Alt(a, b) == [op |-> "alt", a |-> a, b |-> b]
Rep(q, a) == [op |-> "rep", q |-> q, a |-> a]

\* The source of a tree, with no parentheses but the ones it needs.
RECURSIVE Spell(_)
Spell(e) ==
    LET group(s) == <<"(">> \o s \o <<")">>
        within(f, ops) == IF f.op \in ops THEN group(Spell(f)) ELSE Spell(f)
    IN  CASE e.op = "one" -> e.spelling
          [] e.op = "nothing" -> <<"(", ")">>
          [] e.op = "cat" -> within(e.a, {"alt"}) \o within(e.b, {"alt"})
          [] e.op = "alt" -> Spell(e.a) \o <<"|">> \o Spell(e.b)
          [] e.op = "rep" -> within(e.a, {"cat", "alt"}) \o <<e.q>>

(***************************************************************************)
(* The grammar, without classes: an alternation of concatenations of       *)
(* quantified atoms. Well parenthesised or not, a source either derives    *)
(* from it or does not, however it is read.                                *)
(***************************************************************************)
RECURSIVE IsAlternation(_)
IsAtom(s) ==
    \/ Len(s) = 1 /\ s[1] \notin {"(", ")", "|", "*", "+", "?", "\\"}
    \/ Len(s) = 2 /\ s[1] = "\\"
    \/ Len(s) >= 2 /\ s[1] = "(" /\ Last(s) = ")" /\ IsAlternation(SubSeq(s, 2, Len(s) - 1))
RECURSIVE IsQuantified(_)
IsQuantified(s) ==
    IsAtom(s) \/ (Len(s) > 1 /\ Last(s) \in {"*", "+", "?"} /\ IsQuantified(Front(s)))
RECURSIVE IsConcatenation(_)
IsConcatenation(s) ==
    s = << >> \/ \E k \in 0 .. Len(s) - 1 :
        IsQuantified(SubSeq(s, k + 1, Len(s))) /\ IsConcatenation(SubSeq(s, 1, k))
IsAlternation(s) ==
    IsConcatenation(s) \/ \E k \in 1 .. Len(s) :
        s[k] = "|" /\ IsConcatenation(SubSeq(s, k + 1, Len(s))) /\ IsAlternation(SubSeq(s, 1, k - 1))

Then(R, S) == {<<p[1][1], p[2][2]>> : p \in {q \in R \X S : q[1][2] = q[2][1]}}

RECURSIVE OneOrMore(_)
OneOrMore(R) == LET RR == R \union Then(R, R) IN IF RR = R THEN R ELSE OneOrMore(RR)

\* The spans <<i, j>> of t that e matches.
RECURSIVE Spans(_, _)
Spans(e, t) ==
    LET nowhere == {<<i, i>> : i \in 0 .. Len(t)}
    IN  CASE e.op = "one" -> {<<i - 1, i>> : i \in {j \in 1 .. Len(t) : t[j] \in e.cls}}
          [] e.op = "nothing" -> nowhere
          [] e.op = "cat" -> Then(Spans(e.a, t), Spans(e.b, t))
          [] e.op = "alt" -> Spans(e.a, t) \union Spans(e.b, t)
          [] e.op = "rep" -> CASE e.q = "*" -> nowhere \union OneOrMore(Spans(e.a, t))
                               [] e.q = "+" -> OneOrMore(Spans(e.a, t))
                               [] OTHER -> nowhere \union Spans(e.a, t)

\* An expression between its anchors.
Anchored(e, start, end) == [body |-> e, start |-> start, end |-> end]
Spelled(s) == (IF s.start THEN <<"^">> ELSE << >>) \o Spell(s.body)
                 \o (IF s.end THEN <<"$">> ELSE << >>)
Meaning(s, t) ==
    {m \in Spans(s.body, t) : (s.start => m[1] = 0) /\ (s.end => m[2] = Len(t))}

\* Leftmost, then longest.
LeftmostLongest(M) ==
    LET begin == Min({m[1] : m \in M})
    IN  <<begin, Max({m[2] : m \in {n \in M : n[1] = begin}})>>
=============================================================================
