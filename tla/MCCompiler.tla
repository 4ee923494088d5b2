----------------------------- MODULE MCCompiler -----------------------------
(* The stages of the compiler side by side for TLC: a behaviour writes the   *)
(* input of one stage, and the others stay as they are.                      *)
CONSTANTS MaxText, MaxLines, MaxTokens, MaxStatements, Allowed, MaxTurns, Wrap, RemoveUnused

VARIABLES stage, text, expect, tree, damage, program
lexerVars == <<text, expect>>
parserVars == <<tree, damage>>
vars == <<stage, lexerVars, parserVars, program>>

L == INSTANCE MCLexer WITH Letters <- {"a", "e", "c", "p", "n", "f"}, Digits <- {"1"}, Keywords <- {<<"f", "n">>}
S == INSTANCE MCParser WITH
       Identifiers <- {"a", "b", "T", "of", "const", "constexpr", "finally", "self", "p", "_"},
       Numbers <- {"1"}, Strings <- {"s"}, CppBlocks <- {"cpp{}"}
G == INSTANCE MCCodegen WITH CppKeywords <- {"new", "delete"}, Widths <- {"i8"}

NoText == text = <<>> /\ expect = <<"free">>
Init == /\ S!Init /\ G!Init
        /\ \/ stage = "lexer" /\ L!Init
           \/ stage \in {"parser", "codegen"} /\ NoText
Next == /\ UNCHANGED stage
        /\ \/ stage = "lexer" /\ L!Next /\ UNCHANGED <<parserVars, program>>
           \/ stage = "parser" /\ S!Next /\ UNCHANGED <<lexerVars, program>>
           \/ stage = "codegen" /\ G!Next /\ UNCHANGED <<lexerVars, parserVars>>
Spec == Init /\ [][Next]_vars

-----------------------------------------------------------------------------
(* Each property is about every input that a step writes.                    *)

(* Source text becomes the longest tokens there are, and its comments the      *)
(* documentation of what stands below them (lexer.cpp, attach_docs).           *)
SourceIsRead == [][stage = "lexer" => L!TokensAreTheLongest(text', expect') /\ L!DocsAreTheCommentsAbove(text', expect')]_vars

(* A program is read as it was written, and damage never passes in silence     *)
(* (parser.cpp, parse).                                                        *)
ReadsWhatIsWritten == [][stage = "parser" => S!ReadsWhatIsWritten(tree', damage')]_vars

(* The C++ of a program does what the program means (codegen.cpp, run).        *)
MeansTheSame == [][stage = "codegen" => G!MeansTheSame(program')]_vars
=============================================================================
