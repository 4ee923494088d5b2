----------------------------- MODULE MCNdarray -----------------------------
(* Short programs over two names and small shapes. *)
EXTENDS Numpy

CONSTANTS MaxStatements
VARIABLES count
vars == <<arrays, heap, done, count>>

Shapes == {<<>>, <<1>>, <<2>>, <<3>>, <<0>>, <<2, 2>>, <<2, 1>>}
BadShapes == {<<-1>>, <<3, 3>>}
Counted(dims) == [k \in 1 .. (IF ToSize(dims) /\ Product(dims) # TooLarge THEN Product(dims) ELSE 0) |-> k]
Slices == {<<0, 2>>, <<1, End>>, <<-2, -1>>, <<-9, 1>>, <<2, 1>>, <<5, 9>>}
Ops == {"+", "-"}
Scalars == {<<"scalar", 1>>}
Views(slices) == {<<"name", y>> : y \in Names} \union {<<"slice", y, s[1], s[2]>> : y \in Names, s \in slices}
                   \union UNION {{<<"stretch", y, <<2, 2>>>>, <<"map", y>>} : y \in Names}
Copies(shapes) == {<<"copy", y, d>> : y \in Names, d \in shapes}
Arrays == Views(Slices) \union Copies({<<2>>, <<2, 1>>, <<1, 1, 1>>, <<2, 2>>}) \union {<<"stretch", y, <<3, 3>>>> : y \in Names}
Operands == Views({<<0, 2>>, <<1, End>>, <<5, 9>>}) \union Copies({<<2>>, <<1, 1, 1>>}) \union Scalars

(* The program stops at an exception.  Its first two statements give both names an
   array; the rest are any. *)
Init == ArrayInit /\ count = 0
MakeOne == \E x \in IF arrays = <<>> THEN {"x"} ELSE {"y"}, d \in Shapes \union BadShapes : Make(x, d, Counted(d))
BindOne == \E x \in {"y"}, o \in Arrays : Bind(x, o)
Prepared == DOMAIN arrays = Names
ComputeOne == \E x \in {"y"}, op \in Ops, l, r \in Operands, block \in Blocks :
                Prepared /\ ~(IsScalar(l) /\ IsScalar(r)) /\ Compute(x, op, l, r, block)
UpdateOne == \E x \in Names, op \in Ops, o \in Operands, block \in Blocks : Prepared /\ Update(x, op, o, block)
IntoOne == \E x, y, z \in Names, op \in Ops, block \in Blocks : Prepared /\ Into(x, op, y, z, block)
SetOne == \E x \in Names, ix \in {<<1>>, <<-1>>, <<-3>>, <<1, -1>>, <<0, 2>>} : Prepared /\ SetItem(x, ix, 0)
FillOne == \E x \in Names, s \in Slices, o \in Operands \union {<<"nothing">>} : Prepared /\ Fill(x, s[1], s[2], o)
Next == /\ count < MaxStatements /\ done.ok /\ count' = count + 1
        /\ \/ MakeOne \/ BindOne \/ ComputeOne \/ UpdateOne \/ IntoOne \/ SetOne \/ FillOne
Spec == Init /\ [][Next]_vars
=============================================================================
