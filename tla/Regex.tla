------------------------------- MODULE Regex -------------------------------
(***************************************************************************)
(* The regular-expression engine: a pattern is parsed by recursive descent *)
(* into a Thompson program, which is run as a DFA whose states are the     *)
(* sets of program counters alive at a position. The program is shared by  *)
(* every call on a Pattern, and so is what the calls learn: the bytes that *)
(* lead from the unanchored start back to it, which later scans skip.      *)
(*                                                                         *)
(* The interning of state sets and the flat transition table are pure      *)
(* caches of Step and are left out. Positions count from 0.                *)
(***************************************************************************)
EXTENDS RegexLanguage

CONSTANTS Bytes,        \* the bytes there are, as one-character strings
          Newline,
          Escapes,      \* the letters that name a class after \, with the class
          Below,        \* the order of the bytes: Below[lo, hi] is the range lo-hi
          MaxDepth,     \* kMaxParseDepth
          FalseHits, Window, Block,   \* the tuning of the literal scan
          Budget,       \* candidates find() tries before it asks for existence
          Sources,      \* the anchored expressions that are compiled
          Texts         \* the inputs they match

VARIABLES source,    \* history: the expression the pattern was compiled from
          pattern,   \* the compiled Pattern
          learned    \* Dfa::ustart_self

-----------------------------------------------------------------------------
(***************************************************************************)
(* The compiler. c is its state: the source, the position, the program,    *)
(* the error, the nesting depth, whether it emits the reversed program,    *)
(* and the fragment just parsed with its dangling exits.                   *)
(***************************************************************************)
End == "end"
Peek(c) == IF c.i < Len(c.src) THEN c.src[c.i + 1] ELSE End
Get(c) == [c EXCEPT !.i = @ + 1]
Fails(c, why) == [c EXCEPT !.err = why]
Accept(cls) == [op |-> "Byte", cls |-> cls, x |-> 0, y |-> 0]
Inst(op, x, y) == [op |-> op, cls |-> {}, x |-> x, y |-> y]

Patch(prog, holes, target) ==
    [pc \in DOMAIN prog |->
        [prog[pc] EXCEPT !.x = IF <<pc, 0>> \in holes THEN target ELSE @,
                         !.y = IF <<pc, 1>> \in holes THEN target ELSE @]]

\* One instruction after the program so far; start and holes are the fragment's.
Emit(c, in, start, holes) ==
    [c EXCEPT !.prog = Append(@, in), !.start = start, !.holes = holes]
ByteFrag(c, cls) == Emit(c, Accept(cls), Len(c.prog) + 1, {<<Len(c.prog) + 1, 0>>})

\* Inside [...]: a first ] is literal; an escape may name a class; lo-hi unless ] follows.
RECURSIVE ClassItems(_, _, _)
ClassItems(c, cls, first) ==
    IF Peek(c) = End \/ (Peek(c) = "]" /\ ~first) THEN [c |-> c, cls |-> cls]
    ELSE LET escaped == Peek(c) = "\\" /\ c.i + 1 < Len(c.src)
             d == IF escaped THEN Get(Get(c)) ELSE Get(c)
             ch == d.src[d.i]
         IN  IF escaped /\ ch \in DOMAIN Escapes
             THEN ClassItems(d, cls \union Escapes[ch], FALSE)
             ELSE IF Peek(d) = "-" /\ d.i + 1 < Len(d.src) /\ d.src[d.i + 2] # "]"
             THEN ClassItems(Get(Get(d)), cls \union Below[ch, d.src[d.i + 2]], FALSE)
             ELSE ClassItems(d, cls \union {ch}, FALSE)

ParseClass(c) ==
    LET neg == Peek(Get(c)) = "^"
        items == ClassItems(IF neg THEN Get(Get(c)) ELSE Get(c), {}, TRUE)
    IN  IF Peek(items.c) # "]" THEN Fails(items.c, "unbalanced [")
        ELSE ByteFrag(Get(items.c), IF neg THEN Bytes \ (items.cls \union {Newline}) ELSE items.cls)

RECURSIVE ParseAlt(_)

Closed(out) ==
    IF out.err # "" THEN out
    ELSE IF Peek(out) # ")" THEN Fails(out, "unbalanced (")
    ELSE Get([out EXCEPT !.depth = @ - 1])
ParseGroup(c) ==
    IF c.depth + 1 > MaxDepth THEN Fails(Get(c), "pattern nested too deeply")
    ELSE Closed(ParseAlt([Get(c) EXCEPT !.depth = @ + 1]))

ParseAtom(c) ==
    LET ch == Peek(c)
    IN  CASE ch = "(" -> ParseGroup(c)
          [] ch = "[" -> ParseClass(c)
          [] ch = "." -> ByteFrag(Get(c), Bytes \ {Newline})
          [] ch = "\\" -> IF Peek(Get(c)) = End THEN Fails(Get(c), "trailing backslash")
                          ELSE LET e == Peek(Get(c))
                               IN  ByteFrag(Get(Get(c)), IF e \in DOMAIN Escapes THEN Escapes[e] ELSE {e})
          [] ch \in {")", "|", "*", "+", "?"} -> Fails(c, "unexpected metacharacter")
          [] OTHER -> ByteFrag(Get(c), {ch})

\* A quantifier puts a split after the atom's instructions.
Quantified(c, q) ==
    LET s == Len(c.prog) + 1
        d == Emit(c, Inst("Split", c.start, 0), s, {<<s, 1>>})
    IN  CASE q = "*" -> [d EXCEPT !.prog = Patch(@, c.holes, s)]
          [] q = "+" -> [d EXCEPT !.prog = Patch(@, c.holes, s), !.start = c.start]
          [] OTHER -> [d EXCEPT !.holes = c.holes \union {<<s, 1>>}]

RECURSIVE ParseQuantifiers(_)
ParseQuantifiers(c) ==
    IF c.err = "" /\ Peek(c) \in {"*", "+", "?"}
    THEN ParseQuantifiers(Quantified(Get(c), Peek(c)))
    ELSE c
ParseRepeat(c) == ParseQuantifiers(ParseAtom(c))

\* acc, then the next fragment; before it when the program is the reversed one.
Concat(acc, r) ==
    IF acc.start = 0 THEN r
    ELSE IF ~r.reversed THEN [r EXCEPT !.prog = Patch(@, acc.holes, r.start), !.start = acc.start]
    ELSE [r EXCEPT !.prog = Patch(@, r.holes, acc.start), !.holes = acc.holes]

RECURSIVE ParseItems(_), ItemsAfter(_, _)
ParseItems(acc) ==
    IF acc.err # "" \/ Peek(acc) \in {End, "|", ")"} THEN acc ELSE ItemsAfter(acc, ParseRepeat(acc))
ItemsAfter(acc, r) == IF r.err # "" THEN r ELSE ParseItems(Concat(acc, r))

\* Nothing to concatenate is a jump that passes through.
Passing(acc) ==
    LET s == Len(acc.prog) + 1
    IN  IF acc.err = "" /\ acc.start = 0 THEN Emit(acc, Inst("Jmp", 0, 0), s, {<<s, 0>>}) ELSE acc
ParseConcat(c) == Passing(ParseItems([c EXCEPT !.start = 0, !.holes = {}]))

RECURSIVE ParseAlternatives(_), Alternative(_, _)
ParseAlternatives(left) ==
    IF left.err # "" \/ Peek(left) # "|" THEN left ELSE Alternative(left, ParseConcat(Get(left)))
Alternative(left, right) ==
    IF right.err # "" THEN right
    ELSE ParseAlternatives(Emit(right, Inst("Split", left.start, right.start),
                                Len(right.prog) + 1, left.holes \union right.holes))
ParseAlt(c) == ParseAlternatives(ParseConcat(c))

Compiler(src, prog, reversed) ==
    [src |-> src, i |-> 0, prog |-> prog, err |-> "", depth |-> 0, reversed |-> reversed,
     start |-> 0, holes |-> {}]

\* The program of a parsed pattern, its exits led to a Match.
Finished(c) == Append(Patch(c.prog, c.holes, Len(c.prog) + 1), Inst("Match", 0, 0))

-----------------------------------------------------------------------------
(***************************************************************************)
(* The DFA: sets of program counters. The empty set is the dead state.     *)
(***************************************************************************)
RECURSIVE Closure(_, _, _)
Closure(prog, work, seen) ==
    IF work \subseteq seen THEN {pc \in seen : prog[pc].op \in {"Byte", "Match"}}
    ELSE LET new == work \ seen
         IN  Closure(prog, {prog[pc].x : pc \in {q \in new : prog[q].op \in {"Jmp", "Split"}}}
                              \union {prog[pc].y : pc \in {q \in new : prog[q].op = "Split"}},
                     seen \union new)

StartState(prog, entry) == Closure(prog, {entry}, {})
Step(prog, state, b) ==
    Closure(prog, {prog[pc].x : pc \in {q \in state : prog[q].op = "Byte" /\ b \in prog[q].cls}}, {})
Accepting(prog, state) == \E pc \in state : prog[pc].op = "Match"

\* The literal chain a match must start with: Byte instructions of one byte, in a line.
RECURSIVE LitFrom(_, _)
LitFrom(prog, pc) ==
    IF prog[pc].op = "Byte" /\ Cardinality(prog[pc].cls) = 1
    THEN <<CHOOSE b \in prog[pc].cls : TRUE>> \o LitFrom(prog, prog[pc].x)
    ELSE << >>
Lit(prog, pc) == IF Len(LitFrom(prog, pc)) < 2 THEN << >> ELSE LitFrom(prog, pc)

NoPattern == [ok |-> FALSE, error |-> "none"]
Rejected(why) == [ok |-> FALSE, error |-> why]

\* A pattern from its forward parse c and, when it is anchored only at the end, the
\* reversed one.
Parsed(prog, start, c, reversed, rprog, rentry, anchoredStart, anchoredEnd) ==
    [ok |-> TRUE, error |-> "", prog |-> prog,
     astart |-> start, ustart |-> StartState(prog, 1),
     anchoredStart |-> anchoredStart, anchoredEnd |-> anchoredEnd,
     first |-> UNION {prog[pc].cls : pc \in start},
     matchesEmpty |-> Accepting(prog, start),
     lit |-> Lit(prog, c.start),
     reversed |-> reversed,
     rprog |-> rprog, rstart |-> IF reversed THEN StartState(rprog, rentry) ELSE {}]
Linked(prog, c, rc, anchoredStart, anchoredEnd) ==
    LET reversed == anchoredEnd /\ ~anchoredStart
    IN  Parsed(prog, StartState(prog, c.start), c, reversed,
               IF reversed THEN Finished(rc) ELSE << >>, rc.start, anchoredStart, anchoredEnd)
Built(c, rc, anchoredStart, anchoredEnd) ==
    IF c.err # "" THEN Rejected(c.err)
    ELSE IF c.i # Len(c.src) THEN Rejected("unexpected trailing input")
    ELSE Linked([Finished(c) EXCEPT ![1].x = c.start], c, rc, anchoredStart, anchoredEnd)

\* compile: strip the anchors, parse, and put the any-byte prefix of an unanchored search
\* before the body; a pattern anchored only at the end gets the reversed program too.
Compile(src) ==
    LET anchoredStart == src # << >> /\ src[1] = "^"
        tail == IF anchoredStart THEN Tail(src) ELSE src
        anchoredEnd == tail # << >> /\ Last(tail) = "$"
        body == IF anchoredEnd THEN Front(tail) ELSE tail
    IN  Built(ParseAlt(Compiler(body, <<Inst("Split", 0, 2), [Accept(Bytes) EXCEPT !.x = 1]>>, FALSE)),
              ParseAlt(Compiler(body, << >>, TRUE)), anchoredStart, anchoredEnd)

-----------------------------------------------------------------------------
(***************************************************************************)
(* Scanning. At(t, p) is the byte at offset p; Nowhere, no such offset.    *)
(***************************************************************************)
Nowhere == -1
At(t, p) == t[p + 1]
LeftmostOf(S) == IF S = {} THEN Nowhere ELSE Min(S)
LitAt(t, p, lit) == \A j \in 0 .. Len(lit) - 1 : At(t, p + j) = lit[j + 1]

\* The far end of a run of the byte c, forward and backward.
SkipRunForward(t, p, c) == Min({q \in p .. Len(t) : q = Len(t) \/ At(t, q) # c})
SkipRunBackward(t, p, c) == Max({q \in 0 .. p : q = 0 \/ At(t, q - 1) # c})

\* The literal scan in blocks of candidates, then the tail.
RECURSIVE ScanBlocks(_, _, _)
ScanBlocks(t, i, lit) ==
    LET k == Len(lit)
        hits(last) == {q \in i .. last : LitAt(t, q, lit)}
    IN  IF i + k + Block - 1 > Len(t) THEN LeftmostOf(hits(Len(t) - k))
        ELSE IF hits(i + Block - 1) # {} THEN Min(hits(i + Block - 1))
        ELSE ScanBlocks(t, i + Block, lit)

\* The sweep for the first byte of the literal; too many false hits in a window change to blocks.
RECURSIVE Sweep(_, _, _, _, _)
Sweep(t, i, lit, misses, window) ==
    LET hit == LeftmostOf({q \in i .. Len(t) - Len(lit) : At(t, q) = lit[1]})
    IN  IF hit = Nowhere THEN Nowhere
        ELSE IF LitAt(t, hit, lit) THEN hit
        ELSE IF misses + 1 < FalseHits THEN Sweep(t, hit + 1, lit, misses + 1, window)
        ELSE IF hit + 1 - window >= Window THEN Sweep(t, hit + 1, lit, 0, hit + 1)
        ELSE ScanBlocks(t, hit + 1, lit)

\* skip_to_candidate: the next offset a match can begin at.
SkipToCandidate(d, t, i) ==
    IF d.lit # << >> THEN Sweep(t, i, d.lit, 0, i)
    ELSE LeftmostOf({q \in i .. Len(t) - 1 : At(t, q) \in d.first})

\* run_anchored: from the start of the text; need_end asks for an accept at its end.
RECURSIVE RunAnchored(_, _, _, _, _)
RunAnchored(d, t, p, needEnd, state) ==
    IF Accepting(d.prog, state) /\ (~needEnd \/ p = Len(t)) THEN TRUE
    ELSE IF p = Len(t) THEN FALSE
    ELSE LET next == Step(d.prog, state, At(t, p))
         IN  next # {} /\ RunAnchored(d, t, p + 1, needEnd, next)

\* Mutant: every byte that leaves the state as it was is learned, whichever state it was.
LearnAny(d, known, state, next, b) == IF next = state THEN known \union {b} ELSE known
\* A byte the unanchored start maps to itself is learned.
Learn(d, known, state, next, b) ==
    IF next = state /\ state = d.ustart THEN known \union {b} ELSE known

\* run_unanchored: one pass; in the start state it skips the learned bytes, then to the next
\* candidate; elsewhere a byte that leaves the state as it was is skipped with its whole run.
RECURSIVE RunUnanchored(_, _, _, _, _)
RunUnanchored(d, t, p, state, known) ==
    LET q == IF state # d.ustart THEN p
             ELSE Min({k \in p .. Len(t) : k = Len(t) \/ At(t, k) \notin known})
        at == IF state = d.ustart /\ q < Len(t) /\ d.first # {} THEN SkipToCandidate(d, t, q) ELSE q
        b == At(t, at)
        next == Step(d.prog, state, b)
        more == Learn(d, known, state, next, b)
    IN  IF at = Nowhere \/ at = Len(t) THEN [found |-> FALSE, known |-> known]
        ELSE IF Accepting(d.prog, next) THEN [found |-> TRUE, known |-> known]
        ELSE RunUnanchored(d, t, IF next = state /\ state # d.ustart
                                 THEN SkipRunForward(t, at + 1, b) ELSE at + 1,
                           next, more)

\* The backward pass of the reversed program: the smallest offset it accepts at, from best.
\* The search stops at the first (stop), find goes on to the leftmost.
RECURSIVE RunReverse(_, _, _, _, _, _)
RunReverse(d, t, p, state, best, stop) ==
    IF p = 0 THEN best
    ELSE LET b == At(t, p - 1)
             next == Step(d.rprog, state, b)
             q == IF next = state THEN SkipRunBackward(t, p - 1, b) ELSE p - 1
         IN  IF next = {} THEN best
             ELSE IF ~Accepting(d.rprog, next) THEN RunReverse(d, t, q, next, best, stop)
             ELSE IF stop THEN p - 1
             ELSE RunReverse(d, t, q, next, q, stop)

(***************************************************************************)
(* The calls: the answer, and what the pattern has learned after it.       *)
(***************************************************************************)
FullMatch(d, t) == d.ok /\ RunAnchored(d, t, 0, TRUE, d.astart)

Search(d, known, t) ==
    IF ~d.ok THEN [found |-> FALSE, known |-> known]
    ELSE IF d.anchoredStart
         THEN [found |-> RunAnchored(d, t, 0, d.anchoredEnd, d.astart), known |-> known]
    ELSE IF d.matchesEmpty THEN [found |-> TRUE, known |-> known]
    ELSE IF d.reversed
         THEN [found |-> RunReverse(d, t, Len(t), d.rstart, Nowhere, TRUE) # Nowhere, known |-> known]
    ELSE RunUnanchored(d, t, 0, d.ustart, known)

\* The longest match from i: the last accept before the machine dies.
RECURSIVE LongestFrom(_, _, _, _, _)
LongestFrom(d, t, p, state, best) ==
    LET now == IF Accepting(d.prog, state) /\ (~d.anchoredEnd \/ p = Len(t)) THEN p ELSE best
    IN  IF state = {} \/ p = Len(t) THEN now
        ELSE LongestFrom(d, t, p + 1, Step(d.prog, state, At(t, p)), now)

NoMatch == <<Nowhere, Nowhere>>

\* Candidates from the left; when the budget is spent one unanchored pass settles existence.
RECURSIVE Candidates(_, _, _, _, _)
Candidates(d, known, t, i, budget) ==
    LET skip == ~d.anchoredStart /\ ~d.matchesEmpty /\ d.first # {}
        at == IF skip THEN SkipToCandidate(d, t, i) ELSE i
        probe == RunUnanchored(d, t, 0, d.ustart, known)
        seen == IF budget = 1 THEN probe.known ELSE known
        end == LongestFrom(d, t, at, d.astart, Nowhere)
    IN  IF i > (IF d.anchoredStart THEN 0 ELSE Len(t)) \/ at = Nowhere
        THEN [found |-> NoMatch, known |-> known]
        ELSE IF budget = 1 /\ ~probe.found THEN [found |-> NoMatch, known |-> seen]
        ELSE IF end # Nowhere THEN [found |-> <<at, end>>, known |-> seen]
        ELSE Candidates(d, seen, t, at + 1, budget - 1)

Find(d, known, t) ==
    IF ~d.ok THEN [found |-> NoMatch, known |-> known]
    ELSE IF d.reversed
         THEN LET best == RunReverse(d, t, Len(t), d.rstart,
                                     IF d.matchesEmpty THEN Len(t) ELSE Nowhere, FALSE)
              IN  [found |-> IF best = Nowhere THEN NoMatch ELSE <<best, Len(t)>>, known |-> known]
    ELSE Candidates(d, known, t, 0, Budget)

-----------------------------------------------------------------------------
NoSource == Anchored(Nothing, FALSE, FALSE)

RegexInit == source = NoSource /\ pattern = NoPattern /\ learned = {}

CompileOne(s) ==
    /\ pattern = NoPattern
    /\ source' = s
    /\ pattern' = Compile(Spelled(s))
    /\ UNCHANGED learned

SearchOne(t) ==
    /\ pattern.ok
    /\ learned' = Search(pattern, learned, t).known
    /\ UNCHANGED <<source, pattern>>

FindOne(t) ==
    /\ pattern.ok
    /\ learned' = Find(pattern, learned, t).known
    /\ UNCHANGED <<source, pattern>>

RegexNext ==
    \/ \E s \in Sources : CompileOne(s)
    \/ \E t \in Texts : SearchOne(t) \/ FindOne(t)

-----------------------------------------------------------------------------
\* Whatever a pattern d, compiled from src, has learned from the calls before, search,
\* full_match and find answer what the expression means: some match, a match of the whole
\* text, the leftmost-longest match, none of them missed by a skip, an early death or the
\* backward pass.
AnswersAreTheLanguage(src, d, known) ==
    d # NoPattern =>
        /\ d.ok
        /\ \A t \in Texts :
             LET M == Meaning(src, t)
             IN  /\ Search(d, known, t).found = (M # {})
                 /\ FullMatch(d, t) = (<<0, Len(t)>> \in M)
                 /\ Find(d, known, t).found = IF M = {} THEN NoMatch ELSE LeftmostLongest(M)

\* A source is compiled exactly when the grammar has it.
CompilesTheGrammar(s) == Compile(s).ok = IsAlternation(s)
=============================================================================
