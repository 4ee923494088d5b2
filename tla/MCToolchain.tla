---------------------------- MODULE MCToolchain ----------------------------
(***************************************************************************)
(* Instances of Toolchain: one trusted and one other code key, one runtime *)
(* key, a toolchain the host can run the output of and one it cannot.      *)
(***************************************************************************)
EXTENDS Toolchain

CONSTANTS good, other, rtkey, none, absent, empty, notree

MCRuns(rt) == rt.toolchain = 1
Plain(k) == [key |-> k, sum |-> FALSE, rt |-> FALSE, rtkey |-> none, toolchain |-> 1]
MCLibFlags == {Plain(good)}
MCProgFlags ==
    {Plain(none), [Plain(good) EXCEPT !.rtkey = rtkey],
     [Plain(other) EXCEPT !.sum = TRUE, !.rt = TRUE, !.toolchain = 2]}

\* State constraint. MaxTotal bounds runs, edits, loads and lost writes together (two less
\* once an emission and a build overlapped); biome's commands touch no file of the other
\* components and the host none of the emitter, so biome is explored alone and the host
\* while no emission is under way. One write is lost in the latest runs: where there are no
\* more than two, none overlaps another and the host has not begun.
CONSTANT MaxTotal
Made == 2 * MaxRuns - bounds.lib - bounds.prog
Used == Made + (MaxEdits - bounds.edit) + (MaxLoads - loads)
Lost == Cardinality(run["lib"].lost) + Cardinality(run["prog"].lost)
Budget ==
    /\ Used + Lost <= IF raced THEN MaxTotal - 2 ELSE MaxTotal
    /\ Lost = 0 \/ (Lost = 1 /\ Made <= 2 /\ ~raced /\ host.pc = "rest")
    /\ commands > 0 => Used = 0
    /\ host.pc # "rest" => Settled("lib")
=============================================================================
