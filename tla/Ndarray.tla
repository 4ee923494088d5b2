------------------------------ MODULE Ndarray ------------------------------
(* ndarray: named arrays that are views {buffer, shape, strides, offset} into
   shared buffers, and what the statements of a program do to them: building,
   slicing, stretching and copying, element and slice assignment, and arithmetic
   in its allocating, in-place and buffer-reusing forms (ndarray.hpp).  A buffer
   nobody refers to is freed, as std::shared_ptr does. *)
EXTENDS Integers, Sequences, FiniteSets, SequencesExt

CONSTANTS Names,      \* the program's variables
          Word,       \* numbers of elements: 0 .. Word - 1
          SizeMax,    \* std::numeric_limits<size_t>::max()
          Lanes,      \* accumulators of reduce_lanes
          Edge,       \* items shown at each end of an abbreviated axis
          Threshold,  \* elements from which an array is shown abbreviated
          Blocks      \* how many elements a vectorized loop may read before it writes

VARIABLES arrays,     \* name -> view, for the names that are bound
          heap,       \* buffer -> its elements
          done        \* the last statement: [what, ok]; ok is FALSE when it threw
arrayVars == <<arrays, heap, done>>

ASSUME NdarrayAssumption ==
    /\ IsFiniteSet(Names) /\ Blocks \subseteq Nat \ {0}
    /\ Word \in Nat \ {0} /\ SizeMax \in Nat \ {0}

NotANumber == Word
Elements == 0 .. Word
TooLarge == -1

Combine(op, x, y) ==
    IF NotANumber \in {x, y} THEN NotANumber
    ELSE CASE op = "+" -> (x + y) % Word
           [] op = "-" -> (x - y) % Word
           [] op = "*" -> (x * y) % Word
           [] op = "/" -> IF y = 0 THEN NotANumber ELSE x \div y
           [] op = "r-" -> (y - x) % Word
           [] op = "r/" -> IF x = 0 THEN NotANumber ELSE y \div x
Reversed(op) == CASE op = "-" -> "r-" [] op = "/" -> "r/" [] OTHER -> op

-----------------------------------------------------------------------------
(* Shapes, strides and positions. *)
ContiguousStrides(shape) ==
    LET step[i \in DOMAIN shape] == IF i = Len(shape) THEN 1 ELSE step[i + 1] * shape[i + 1] IN step
Times(t, d) == IF t = TooLarge \/ (d # 0 /\ t > SizeMax \div d) THEN TooLarge ELSE t * d
Products(shape) == LET t[k \in 0 .. Len(shape)] == IF k = 0 THEN 1 ELSE Times(t[k - 1], shape[k]) IN t
Product(shape) == Products(shape)[Len(shape)]
ToSize(dims) == \A i \in DOMAIN dims : dims[i] >= 0
Sizable(dims) == ToSize(dims) /\ Product(dims) # TooLarge

Size(a) == Product(a.shape)
IsContiguous(a) == a.strides = ContiguousStrides(a.shape)
Offsets(a, ix) == LET off[k \in 0 .. Len(ix)] == IF k = 0 THEN a.offset ELSE off[k - 1] + ix[k] * a.strides[k] IN off
Position(a, ix) == Offsets(a, ix)[Len(ix)]

(* The odometer: the index after idx, the last axis fastest, <<>> after the last. *)
CanAdvance(idx, shape) == {i \in DOMAIN idx : idx[i] + 1 < shape[i]}
NextIndex(idx, shape) ==
    LET k == CHOOSE i \in CanAdvance(idx, shape) : \A j \in CanAdvance(idx, shape) : j <= i
    IN  IF CanAdvance(idx, shape) = {} THEN <<>>
        ELSE [i \in DOMAIN idx |-> IF i < k THEN idx[i] ELSE IF i = k THEN idx[i] + 1 ELSE 0]
Origin(shape) == [i \in DOMAIN shape |-> 0]
(* The indices of a walk of Product(shape) rounds, which ends when the odometer wraps. *)
Onward(trail, shape) ==
    LET next == NextIndex(trail[Len(trail)], shape) IN IF next = <<>> THEN trail ELSE Append(trail, next)
Trails(shape) ==
    LET trail[k \in 1 .. Product(shape)] == IF k = 1 THEN <<Origin(shape)>> ELSE Onward(trail[k - 1], shape) IN trail
Walk(shape) == IF Product(shape) > 0 THEN Trails(shape)[Product(shape)] ELSE <<>>

(* The cells of a view in C order: as one block, or index by index.  The walk looks
   at its first index before it knows whether there is one: at() throws on it. *)
Cell(a, k) == <<"cell", a.buffer, k + 1>>
Flat(a) == [k \in 1 .. Size(a) |-> Cell(a, a.offset + k - 1)]
Walked(a) == LET ixs == Walk(a.shape) IN [k \in DOMAIN ixs |-> Cell(a, Position(a, ixs[k]))]
Refused(shape) == \E i \in DOMAIN shape : shape[i] = 0
Read(h, t) == IF t[1] = "cell" THEN h[t[2]][t[3]] ELSE t[2]
Put(h, cell, e) == [h EXCEPT ![cell[2]][cell[3]] = e]

-----------------------------------------------------------------------------
(* What an operation gives: a heap and an array, or an exception. *)
Throw == [ok |-> FALSE]
Got(h, a) == [ok |-> TRUE, heap |-> h, array |-> a]
Contiguous(buffer, shape) == [buffer |-> buffer, shape |-> shape, strides |-> ContiguousStrides(shape), offset |-> 0]
Unused(h) == CHOOSE b \in 1 .. Cardinality(DOMAIN h) + 1 : b \notin DOMAIN h
With(f, x, value) == [y \in DOMAIN f \union {x} |-> IF y = x THEN value ELSE f[y]]
Alloc(h, shape, elements) == Got(With(h, Unused(h), elements), Contiguous(Unused(h), shape))

(* array, zeros, ones, full, arange and the _like forms: a fresh buffer. *)
Fresh(h, dims, elements) ==
    IF ~Sizable(dims) THEN Throw ELSE Alloc(h, dims, elements)

CopiedAsView(h, a, dims) ==
    IF ~Sizable(dims) \/ Product(dims) # Size(a) THEN Throw ELSE Got(h, [Contiguous(a.buffer, dims) EXCEPT !.offset = a.offset])
(* A fresh buffer of the elements in C order, by a block copy or by the walk. *)
InCOrder(h, a, dims) ==
    LET cells == IF IsContiguous(a) THEN Flat(a) ELSE Walked(a)
    IN  IF Size(a) = TooLarge \/ (~IsContiguous(a) /\ Refused(a.shape)) THEN Throw
        ELSE Alloc(h, dims, [k \in DOMAIN cells |-> Read(h, cells[k])])
(* reshape and astype. *)
Copied(h, a, dims) == IF ~Sizable(dims) \/ Product(dims) # Size(a) THEN Throw ELSE InCOrder(h, a, dims)
(* conj, real, imag, sqrt ... abs: Function stands for any function of an element. *)
Function(e) == IF e = NotANumber THEN e ELSE (e * e) % Word
MappedInPlace(copy) ==
    IF ~copy.ok THEN Throw
    ELSE Got([copy.heap EXCEPT ![copy.array.buffer] = [k \in DOMAIN @ |-> Function(@[k])]], copy.array)
Mapped(h, a) == MappedInPlace(InCOrder(h, a, a.shape))

(* a[lo:hi]: the rows lo up to hi of the same buffer.  End stands for slice_end. *)
End == SizeMax
Bound(i, n) == IF i < 0 THEN i + n ELSE i
SliceUnclamped(h, a, lo, hi) ==
    LET n == a.shape[1]
        from == Bound(lo, n)
        to == IF hi = End THEN n ELSE Bound(hi, n)
    IN  IF a.shape = <<>> THEN Throw
        ELSE Got(h, [a EXCEPT !.shape[1] = IF to < from THEN 0 ELSE to - from, !.offset = a.offset + from * a.strides[1]])
Slice(h, a, lo, hi) ==
    LET n == a.shape[1]
        Within(x) == IF x < 0 THEN 0 ELSE IF x > n THEN n ELSE x
        from == Within(Bound(lo, n))
        to == IF hi = End THEN n ELSE Within(Bound(hi, n))
    IN  IF a.shape = <<>> THEN Throw
        ELSE Got(h, [a EXCEPT !.shape[1] = IF to < from THEN 0 ELSE to - from, !.offset = a.offset + from * a.strides[1]])

(* Broadcasting: the common shape, and the view whose stretched axes have stride 0. *)
Padded(shape, n) == [i \in 1 .. n |-> IF i <= n - Len(shape) THEN 1 ELSE shape[i - (n - Len(shape))]]
Longest(s, t) == IF Len(s) < Len(t) THEN Len(t) ELSE Len(s)
Broadcastable(s, t) ==
    LET n == Longest(s, t) IN \A i \in 1 .. n : LET p == Padded(s, n)[i] q == Padded(t, n)[i] IN p = q \/ 1 \in {p, q}
BroadcastShapes(s, t) ==
    LET n == Longest(s, t) IN [i \in 1 .. n |-> IF Padded(t, n)[i] = 1 THEN Padded(s, n)[i] ELSE Padded(t, n)[i]]
CanStretch(a, target) ==
    /\ Len(a.shape) <= Len(target)
    /\ LET pad == Len(target) - Len(a.shape) IN \A i \in DOMAIN a.shape : a.shape[i] \in {1, target[pad + i]}
BroadcastTo(a, target) ==
    LET pad == Len(target) - Len(a.shape)
        Kept(j) == j > pad /\ a.shape[j - pad] = target[j]
    IN  [a EXCEPT !.shape = target,
                  !.strides = [j \in DOMAIN target |-> IF j > pad /\ Kept(j) THEN a.strides[j - pad] ELSE 0]]

-----------------------------------------------------------------------------
(* Arithmetic, into the contiguous block of a view.  A vectorized loop reads a block of
   elements before it writes them, which shows only when the destination overlaps a source. *)
OneBlock(h, op, to, left, right, places) ==
    [h EXCEPT ![to.buffer] = [p \in DOMAIN @ |->
        LET i == p - to.offset IN IF i \in places THEN Combine(op, Read(h, left[i]), Read(h, right[i])) ELSE @[p]]]
Transform(h, op, to, left, right, block) ==
    LET n == Size(to)
        after[j \in 0 .. n] ==
            IF j = 0 THEN h
            ELSE OneBlock(after[j - 1], op, to, left, right, ((j - 1) * block + 1 .. j * block) \intersect (1 .. n))
    IN  after[(n + block - 1) \div block]

(* One element read once, then used for every one. *)
Repeated(h, a, n) == [k \in 1 .. n |-> <<"value", Read(h, Cell(a, a.offset))>>]

(* The loop of binary_op and binary_op_into: array by scalar, scalar by array, two
   blocks, or the walk over the stretched views. *)
LoopOver(h, a, b, av, bv, shape) ==
    IF Size(b) = 1 /\ a.shape = shape /\ IsContiguous(a)
    THEN [walks |-> FALSE, left |-> Flat(a), right |-> Repeated(h, b, Size(a))]
    ELSE IF Size(a) = 1 /\ b.shape = shape /\ IsContiguous(b)
    THEN [walks |-> FALSE, left |-> Repeated(h, a, Size(b)), right |-> Flat(b)]
    ELSE IF IsContiguous(av) /\ IsContiguous(bv) THEN [walks |-> FALSE, left |-> Flat(av), right |-> Flat(bv)]
    ELSE [walks |-> TRUE, left |-> Walked(av), right |-> Walked(bv)]
LoopFor(h, a, b, shape) == LoopOver(h, a, b, BroadcastTo(a, shape), BroadcastTo(b, shape), shape)

Computed(op, new, do, block) ==
    IF do.walks /\ Refused(new.array.shape) THEN Throw
    ELSE Got(Transform(new.heap, op, new.array, do.left, do.right, IF do.walks THEN 1 ELSE block), new.array)
Unsized(a, b, shape) == TooLarge \in {Size(a), Size(b), Product(shape)}       \* size() throws
FreshFor(h, op, a, b, shape) ==
    IF Unsized(a, b, shape) THEN Throw
    ELSE Computed(op, Alloc(h, shape, [k \in 1 .. Product(shape) |-> 0]), LoopFor(h, a, b, shape), 1)
BinaryOp(h, op, a, b) ==
    IF ~Broadcastable(a.shape, b.shape) THEN Throw ELSE FreshFor(h, op, a, b, BroadcastShapes(a.shape, b.shape))

(* add(out, a, b) and the like: into a buffer the caller has. *)
BinaryOpInto(h, op, out, a, b, block) ==
    IF \/ ~Broadcastable(a.shape, b.shape)
       \/ out.shape # BroadcastShapes(a.shape, b.shape)
       \/ ~IsContiguous(out)
       \/ Unsized(a, b, out.shape)
    THEN Throw ELSE Computed(op, Got(h, out), LoopFor(h, a, b, out.shape), block)

(* a op= b: through a's buffer where the layouts allow it, else a fresh result. *)
CompoundApply(h, op, a, b, block) ==
    CASE Unsized(a, b, a.shape) -> Throw
      [] ~Unsized(a, b, a.shape) /\ IsContiguous(a) /\ Size(b) = 1 ->
            Got(Transform(h, op, a, Flat(a), Repeated(h, b, Size(a)), block), a)
      [] ~Unsized(a, b, a.shape) /\ IsContiguous(a) /\ Size(b) # 1 /\ b.shape = a.shape /\ IsContiguous(b) ->
            Got(Transform(h, op, a, Flat(a), Flat(b), block), a)
      [] OTHER -> BinaryOp(h, op, a, b)

(* The operands of an expression.  All but a name are temporaries, and a temporary
   array is an expiring value: its buffer may be reused. *)
Operand(h, o) ==
    CASE o[1] = "name" -> IF o[2] \in DOMAIN arrays THEN Got(h, arrays[o[2]]) ELSE Throw
      [] o[1] = "slice" -> IF o[2] \in DOMAIN arrays THEN Slice(h, arrays[o[2]], o[3], o[4]) ELSE Throw
      [] o[1] = "stretch" -> IF o[2] \in DOMAIN arrays /\ CanStretch(arrays[o[2]], o[3])
                             THEN Got(h, BroadcastTo(arrays[o[2]], o[3])) ELSE Throw
      [] o[1] = "copy" -> IF o[2] \in DOMAIN arrays THEN Copied(h, arrays[o[2]], o[3]) ELSE Throw
      [] o[1] = "map" -> IF o[2] \in DOMAIN arrays THEN Mapped(h, arrays[o[2]]) ELSE Throw
      [] o[1] = "nothing" -> Throw        \* a[lo:hi] = []: an array cannot shrink
      [] o[1] = "scalar" -> Alloc(h, <<>>, <<o[2]>>)
IsScalar(o) == o[1] = "scalar"
Expiring(o) == o[1] \notin {"name", "scalar"}

ReuseUnreversed(h, op, l, r, a, b, block) ==
    CASE IsScalar(l) /\ Expiring(r) /\ op \in {"+", "*"} -> CompoundApply(h, op, b, a, block)
      [] Expiring(l) -> CompoundApply(h, op, a, b, block)
      [] l[1] = "name" /\ Expiring(r) -> CompoundApply(h, op, b, a, block)
      [] OTHER -> BinaryOp(h, op, a, b)
(* a op b: the overload that the operands' value categories select. *)
Reuse(h, op, l, r, a, b, block) ==
    CASE IsScalar(l) /\ Expiring(r) /\ op \in {"+", "*"} -> CompoundApply(h, op, b, a, block)
      [] Expiring(l) -> CompoundApply(h, op, a, b, block)
      [] l[1] = "name" /\ Expiring(r) -> CompoundApply(h, Reversed(op), b, a, block)
      [] OTHER -> BinaryOp(h, op, a, b)
BothThere(op, l, r, left, right, block) ==
    IF ~right.ok THEN Throw ELSE Reuse(right.heap, op, l, r, left.array, right.array, block)
LeftThere(op, l, r, left, block) ==
    IF ~left.ok THEN Throw ELSE BothThere(op, l, r, left, Operand(left.heap, r), block)
Binary(h, op, l, r, block) == LeftThere(op, l, r, Operand(h, l), block)

-----------------------------------------------------------------------------
(* Statements. *)
Finish(what, result, bound) ==
    IF ~result.ok THEN done' = [what |-> what, ok |-> FALSE] /\ UNCHANGED <<arrays, heap>>
    ELSE /\ done' = [what |-> what, ok |-> TRUE]
         /\ arrays' = bound
         /\ heap' = LET live == {bound[x].buffer : x \in DOMAIN bound} IN [b \in live |-> result.heap[b]]
Assign(what, x, result) == Finish(what, result, IF result.ok THEN With(arrays, x, result.array) ELSE arrays)

Make(x, dims, elements) == Assign(<<"make", x, dims, elements>>, x, Fresh(heap, dims, elements))
Bind(x, o) == Assign(<<"bind", x, o>>, x, Operand(heap, o))
Compute(x, op, l, r, block) == Assign(<<"compute", x, op, l, r>>, x, Binary(heap, op, l, r, block))
Updated(op, a, right, block) == IF right.ok THEN CompoundApply(right.heap, op, a, right.array, block) ELSE Throw
Update(x, op, o, block) ==
    x \in DOMAIN arrays /\ Assign(<<"update", x, op, o>>, x, Updated(op, arrays[x], Operand(heap, o), block))
Into(x, op, y, z, block) ==
    /\ {x, y, z} \subseteq DOMAIN arrays
    /\ Finish(<<"into", x, op, <<"name", y>>, <<"name", z>>>>,
              BinaryOpInto(heap, op, arrays[x], arrays[y], arrays[z], block), arrays)

(* x[i, ...] = v, of one index at least: a negative index counts from the end of its axis. *)
SetItem(x, ix, v) ==
    LET a == arrays[x]
        from == [i \in DOMAIN ix |-> Bound(ix[i], a.shape[i])]
        inside == Len(ix) = Len(a.shape) /\ \A i \in DOMAIN ix : from[i] \in 0 .. a.shape[i] - 1
        put == Put(heap, Cell(a, Position(a, from)), v)
    IN  x \in DOMAIN arrays /\ ix # <<>> /\ Finish(<<"item", x, ix, v>>, IF inside THEN Got(put, a) ELSE Throw, arrays)

(* x[lo:hi] = e: a scalar or a broadcastable array, element by element in order. *)
CopyOne(h, to, from) == Put(h, to, Read(h, from))
CopyIn(h, to, from) ==
    LET after[j \in 0 .. Len(to)] == IF j = 0 THEN h ELSE CopyOne(after[j - 1], to[j], from[j]) IN after[Len(to)]
Filled(a, dst, src, scalar) ==
    LET shape == dst.array.shape
        from == IF scalar THEN Repeated(src.heap, src.array, Size(dst.array)) ELSE Walked(BroadcastTo(src.array, shape))
    IN  IF ~dst.ok THEN Throw
        ELSE IF ~src.ok \/ Size(dst.array) = TooLarge THEN Throw
        ELSE IF Refused(shape) THEN Got(heap, a)
        ELSE IF ~CanStretch(src.array, shape) THEN Throw
        ELSE Got(CopyIn(src.heap, Walked(dst.array), from), a)
Fill(x, lo, hi, o) ==
    /\ x \in DOMAIN arrays
    /\ Finish(<<"fill", x, lo, hi, o>>,
              Filled(arrays[x], Slice(heap, arrays[x], lo, hi), Operand(heap, o), IsScalar(o)), arrays)

ArrayInit == arrays = <<>> /\ heap = <<>> /\ done = [what |-> <<"start">>, ok |-> TRUE]

-----------------------------------------------------------------------------
(* Reading: sum by lanes, and the nested text, abbreviated when it is large. *)
Plus(h, cells) == FoldLeft(LAMBDA t, c : t + Read(h, c), 0, cells)
SumWholeLanes(h, a) ==
    LET rounds == Size(a) \div Lanes
        lane == [j \in 1 .. Lanes |-> Plus(h, [k \in 1 .. rounds |-> Flat(a)[(k - 1) * Lanes + j]])]
    IN  IF IsContiguous(a) THEN FoldLeft(LAMBDA t, s : t + s, 0, lane) ELSE Plus(h, Walked(a))
Sum(h, a) ==
    LET n == Size(a)
        whole == n - (n % Lanes)
        lane == [j \in 1 .. Lanes |->
                   Plus(h, [k \in 1 .. whole \div Lanes |-> Flat(a)[(k - 1) * Lanes + j]])]
    IN  IF ~IsContiguous(a) THEN Plus(h, Walked(a))
        ELSE FoldLeft(LAMBDA t, s : t + s, 0, lane) + Plus(h, SubSeq(Flat(a), whole + 1, n))

Dots == "..."
Items(n, abbreviate) ==
    IF abbreviate /\ n > 2 * Edge
    THEN [i \in 1 .. Edge |-> <<i - 1>>] \o <<<<>>>> \o [i \in 1 .. Edge |-> <<n - Edge + i - 1>>]
    ELSE [i \in 1 .. n |-> <<i - 1>>]
Format(h, a, abbreviate) ==
    LET text[idx \in Seq(Nat)] ==
            IF Len(idx) = Len(a.shape) THEN <<"number", h[a.buffer][Position(a, idx) + 1]>>
            ELSE LET items == Items(a.shape[Len(idx) + 1], abbreviate)
                 IN  <<"list", [k \in DOMAIN items |-> IF items[k] = <<>> THEN <<Dots>> ELSE text[idx \o items[k]]]>>
    IN  text[<<>>]
Text(h, a) == Format(h, a, FALSE)
Pretty(h, a) == Format(h, a, Size(a) > Threshold)

(* Any program: statements over every shape, bound, operand and element.  A list that
   is made into an array has as many elements as its shape says. *)
Operators == {"+", "-", "*", "/"}
AnyOperand ==
    ({"name", "map"} \X Names) \union ({"slice"} \X Names \X Int \X Int) \union ({"stretch"} \X Names \X Seq(Nat))
    \union ({"copy"} \X Names \X Seq(Int)) \union ({"scalar"} \X Elements) \union {<<"nothing">>}
ArrayNext ==
    \/ \E x \in Names, dims \in Seq(Int), elements \in Seq(Elements) :
          (Sizable(dims) => Len(elements) = Product(dims)) /\ Make(x, dims, elements)
    \/ \E x \in Names, o \in AnyOperand : Bind(x, o)
    \/ \E x \in Names, op \in Operators, l, r \in AnyOperand, block \in Blocks :
          ~(IsScalar(l) /\ IsScalar(r)) /\ Compute(x, op, l, r, block)
    \/ \E x \in Names, op \in Operators, o \in AnyOperand, block \in Blocks : Update(x, op, o, block)
    \/ \E x, y, z \in Names, op \in Operators, block \in Blocks : Into(x, op, y, z, block)
    \/ \E x \in Names, ix \in Seq(Int), v \in Elements : SetItem(x, ix, v)
    \/ \E x \in Names, lo, hi \in Int, o \in AnyOperand : Fill(x, lo, hi, o)
ArraySpec == ArrayInit /\ [][ArrayNext]_arrayVars

-----------------------------------------------------------------------------
(* What must hold of the views. *)
Indices(shape) ==
    {ix \in [DOMAIN shape -> UNION {0 .. shape[i] - 1 : i \in DOMAIN shape}] : \A i \in DOMAIN shape : ix[i] < shape[i]}
(* Where an index of a broadcast result looks in an operand of the given shape. *)
Pull(ix, shape) == [i \in DOMAIN shape |-> IF shape[i] = 1 THEN 0 ELSE ix[i + Len(ix) - Len(shape)]]
Value(h, a) == [shape |-> a.shape, at |-> [ix \in Indices(a.shape) |-> h[a.buffer][Position(a, ix) + 1]]]
CellsOf(a) == {<<a.buffer, Position(a, ix)>> : ix \in Indices(a.shape)}

(* The heap holds elements only, and every view lies within its buffer, whatever was
   sliced, stretched or reshaped before: each index of a view is an element of its
   buffer, and so is each place of the block that a contiguous view is taken for;
   views are not checked when they are built (ndarray.hpp:341), nor is a read or a
   write through them (ndarray.hpp:502). *)
ViewsAreSound ==
    /\ \A b \in DOMAIN heap : heap[b] \in Seq(Elements)
    /\ \A x \in DOMAIN arrays : LET a == arrays[x] IN
          /\ a.buffer \in DOMAIN heap /\ Len(a.strides) = Len(a.shape)
          /\ \A ix \in Indices(a.shape) : Position(a, ix) + 1 \in DOMAIN heap[a.buffer]
          /\ IsContiguous(a) => \A k \in 1 .. Size(a) : a.offset + k \in DOMAIN heap[a.buffer]

(* The views an expression has of existing cells, and the one it may compute into. *)
IsView(o) == o[1] \in {"name", "slice", "stretch"}
ViewOf(o) == CASE o[1] = "name" -> arrays[o[2]]
               [] o[1] = "slice" -> Slice(heap, arrays[o[2]], o[3], o[4]).array
               [] o[1] = "stretch" -> BroadcastTo(arrays[o[2]], o[3])
Sources(o) == IF IsView(o) THEN CellsOf(ViewOf(o)) ELSE {}
Now(x) == Value(heap, arrays[x])
Later(x) == Value(heap', arrays'[x])
(* What a statement may change: the elements it names, and the view it reuses. *)
Targets(s) ==
    CASE s[1] \in {"update", "into", "item"} -> CellsOf(arrays[s[2]])
      [] s[1] = "fill" -> CellsOf(Slice(heap, arrays[s[2]], s[3], s[4]).array)
      [] s[1] = "compute" -> UNION {Sources(o) : o \in {o \in {s[4], s[5]} : Expiring(o)}}
      [] OTHER -> {}
(* A statement changes no element of another name's array but those it writes to
   by name and those of a view that expires in it (ndarray.hpp:1172); an exception
   changes nothing. *)
OnlyTargetsChange ==
    [][/\ ~done'.ok => UNCHANGED <<arrays, heap>>
       /\ done'.ok => \A y \in DOMAIN arrays \ {done'.what[2]} :
             /\ arrays'[y] = arrays[y]
             /\ \A ix \in Indices(arrays[y].shape) :
                   \/ <<arrays[y].buffer, Position(arrays[y], ix)>> \in Targets(done'.what)
                   \/ Later(y).at[ix] = Now(y).at[ix]]_arrayVars
=============================================================================
