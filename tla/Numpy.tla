------------------------------- MODULE Numpy -------------------------------
(* The reference for Ndarray: an array as a function from indices to numbers and
   the meaning of every statement on such functions, with no buffers, strides or
   fast paths.  The properties say that the views compute these meanings. *)
EXTENDS Ndarray

(* Broadcasting a function, and when shapes do. *)
Stretch(f, shape) == [shape |-> shape, at |-> [ix \in Indices(shape) |-> f.at[Pull(ix, f.shape)]]]
Combines(s, t) == Broadcastable(s, t) /\ \A shape \in {s, t, BroadcastShapes(s, t)} : Sizable(shape)
Fits(shape, target) == Broadcastable(shape, target) /\ BroadcastShapes(shape, target) = target

(* The rows a slice selects: those between the bounds, counted from either end. *)
Rows(n, lo, hi) ==
    LET from == IF lo < 0 THEN lo + n ELSE lo
        to == IF hi = End THEN n ELSE IF hi < 0 THEN hi + n ELSE hi
    IN  {i \in 0 .. n - 1 : from <= i /\ i < to}
SliceMeans(f, lo, hi) ==
    LET rows == Rows(f.shape[1], lo, hi)
        first == CHOOSE i \in rows : \A j \in rows : i <= j
        shape == [f.shape EXCEPT ![1] = Cardinality(rows)]
    IN  [shape |-> shape, at |-> [ix \in Indices(shape) |-> f.at[[ix EXCEPT ![1] = ix[1] + first]]]]
InOrder(f) == LET order == Walk(f.shape) IN [k \in 1 .. Cardinality(Indices(f.shape)) |-> f.at[order[k]]]
Reshaped(elements, shape) ==
    LET order == Walk(shape)
    IN  [shape |-> shape,
         at |-> [ix \in Indices(shape) |-> elements[CHOOSE k \in DOMAIN order : order[k] = ix]]]
Image(f) == [shape |-> f.shape, at |-> [ix \in Indices(f.shape) |-> Function(f.at[ix])]]

(* The meaning of an operand; Legal says when it has one. *)
NameOf(o) == o[2]
Of(o) == Value(heap, arrays[NameOf(o)])
LegalFor(o, shape) ==
    CASE o[1] = "slice" -> shape # <<>>
      [] o[1] = "stretch" -> Fits(shape, o[3])
      [] o[1] = "copy" -> Sizable(o[3]) /\ Product(o[3]) = Product(shape)
      [] o[1] = "map" -> Sizable(shape)
      [] o[1] = "name" -> TRUE
Legal(o) ==
    \/ o[1] = "scalar"
    \/ o[1] # "nothing" /\ NameOf(o) \in DOMAIN arrays /\ LegalFor(o, arrays[NameOf(o)].shape)
Means(o) ==
    CASE o[1] = "scalar" -> [shape |-> <<>>, at |-> [ix \in Indices(<<>>) |-> o[2]]]
      [] o[1] = "name" -> Of(o)
      [] o[1] = "slice" -> SliceMeans(Of(o), o[3], o[4])
      [] o[1] = "stretch" -> Stretch(Of(o), o[3])
      [] o[1] = "map" -> Image(Of(o))
      [] o[1] = "copy" -> Reshaped(InOrder(Of(o)), o[3])
Combined(op, f, g) ==
    LET shape == BroadcastShapes(f.shape, g.shape)
    IN  [shape |-> shape,
         at |-> [ix \in Indices(shape) |-> Combine(op, f.at[Pull(ix, f.shape)], g.at[Pull(ix, g.shape)])]]
Count(o) == Cardinality(Indices(Means(o).shape))

-----------------------------------------------------------------------------
(* What is not claimed of a statement.
   The shape of a result: a buffer that is reused for an operand with a single
   element keeps its own shape, whatever the rank of the other. *)
Keeps(reused, other) == Count(other) = 1 /\ Len(Means(other).shape) > Len(Means(reused).shape)
(* Cells written while they are still to be read, other than in step. *)
InStep(to, from) == to.shape = from.shape /\ Flat(to) = Walked(from)
Overlap(to, o) ==
    IsContiguous(to) /\ IsView(o) /\ CellsOf(to) \intersect Sources(o) # {} /\ ~InStep(to, ViewOf(o))
Destination(l, r) == IF Expiring(l) THEN l ELSE r
Clobbers(l, r) ==
    LET to == Destination(l, r)
    IN  IsView(to) /\ Expiring(to) /\ \E o \in {l, r} : Overlap(ViewOf(to), o) /\ Count(o) # 1
(* A single element is read once, unless the other operand is not a block of the
   result's shape. *)
ReadOnce(to, o, other) == Count(o) = 1 /\ IsContiguous(arrays[NameOf(other)]) /\ arrays[NameOf(other)].shape = to.shape

Same(f, g) == f.shape = g.shape /\ \A ix \in DOMAIN f.at : f.at[ix] = g.at[ix]
(* What became of a statement that should give f: an exception exactly when it
   has no meaning, though an empty result may be refused (the walk's at(),
   ndarray.hpp:502), else f, unless it is exempt. *)
Judge(result, legal, empty, exempt, f) ==
    /\ ~done'.ok => ~legal \/ empty
    /\ done'.ok => legal /\ (exempt \/ Same(result, f))

BindMeans(x, o) == Judge(Later(x), Legal(o), Count(o) = 0, FALSE, Means(o))
ComputeMeans(x, op, l, r) ==
    Judge(Later(x), Legal(l) /\ Legal(r) /\ Combines(Means(l).shape, Means(r).shape),
                    (Legal(l) /\ Legal(r)) => 0 \in {Count(l), Count(r)},
                    (Expiring(l) /\ Keeps(l, r)) \/ (Expiring(r) /\ Keeps(r, l)) \/ Clobbers(l, r),
                    Combined(op, Means(l), Means(r)))
UpdateMeans(x, op, o) ==
    LET me == <<"name", x>>
    IN  Judge(Later(x), Legal(o) /\ Combines(Now(x).shape, Means(o).shape), Legal(o) => 0 \in {Count(o), Count(me)},
              Keeps(me, o) \/ (Overlap(arrays[x], o) /\ Count(o) # 1), Combined(op, Now(x), Means(o)))
IntoMeans(x, op, l, r) ==
    LET f == Combined(op, Means(l), Means(r))
        to == arrays[x]
    IN  Judge(Later(x), Combines(Means(l).shape, Means(r).shape) /\ f.shape = Now(x).shape /\ IsContiguous(to),
              0 \in {Count(l), Count(r)},
              (Overlap(to, l) /\ ~ReadOnce(to, l, r)) \/ (Overlap(to, r) /\ ~ReadOnce(to, r, l)), f)
(* Element by element in order, which an array that reads what was written, or that
   has several indices for a cell, can tell. *)
Aliased(a) == \E ix, jx \in Indices(a.shape) : ix # jx /\ Position(a, ix) = Position(a, jx)
FillMeans(x, lo, hi, o) ==
    LET shape == SliceMeans(Now(x), lo, hi).shape
        to == Slice(heap, arrays[x], lo, hi).array
    IN  Judge(SliceMeans(Later(x), lo, hi),
              /\ Now(x).shape # <<>> /\ Legal(o) /\ Sizable(shape)
              /\ Fits(Means(o).shape, shape) \/ Indices(shape) = {},
              Count(o) = 0,
              (IsView(o) /\ CellsOf(to) \intersect Sources(o) # {}) \/ Aliased(to),
              Stretch(Means(o), shape))
ItemMeans(x, at, v) ==
    LET shape == Now(x).shape
        chosen == {ix \in Indices(shape) : Len(ix) = Len(at) /\ \A i \in DOMAIN ix : at[i] \in {ix[i], ix[i] - shape[i]}}
    IN  /\ done'.ok = (chosen # {})
        /\ done'.ok => \A ix \in chosen : Later(x).at[ix] = v
LastMeansWhatItSays ==
    LET s == done'.what
    IN  CASE s[1] = "bind" -> BindMeans(s[2], s[3])
          [] s[1] = "compute" -> ComputeMeans(s[2], s[3], s[4], s[5])
          [] s[1] = "update" -> UpdateMeans(s[2], s[3], s[4])
          [] s[1] = "into" -> IntoMeans(s[2], s[3], s[4], s[5])
          [] s[1] = "fill" -> FillMeans(s[2], s[3], s[4], s[5])
          [] s[1] = "item" -> ItemMeans(s[2], s[3], s[4])
          [] OTHER -> TRUE
(* Each statement has its meaning: the elements and the shape that broadcasting,
   slicing and C order give, and an exception exactly when there is no meaning,
   through whichever path and buffer it is computed (ndarray.hpp:1172-1500). *)
ComputesTheBroadcast == [][LastMeansWhatItSays]_arrayVars

(* The elements that a text shows, in order. *)
Opened(texts) == FlattenSeq([i \in DOMAIN texts |-> IF texts[i][1] = "list" THEN texts[i][2] ELSE <<texts[i]>>])
Shown(text, rank) ==
    LET level[d \in 0 .. rank] == IF d = 0 THEN <<text>> ELSE Opened(level[d - 1])
        numbers == SelectSeq(level[rank], LAMBDA item : item[1] = "number")
    IN  [k \in DOMAIN numbers |-> numbers[k][2]]
Outer(i, n) == i < Edge \/ i >= n - Edge
(* Reading agrees with the elements: sum adds each of them once, the nested text
   shows all of them in order, and the abbreviated one the first and last of every
   long axis (ndarray.hpp:2062-2243). *)
ReadsAgree ==
    \A x \in {x \in DOMAIN arrays : Size(arrays[x]) # TooLarge} : LET a == arrays[x] f == Now(x) IN
        /\ (~Refused(a.shape) \/ IsContiguous(a)) => Sum(heap, a) = FoldLeft(LAMBDA t, e : t + e, 0, InOrder(f))
        /\ Shown(Text(heap, a), Len(a.shape)) = InOrder(f)
        /\ Size(a) > Threshold =>
              Shown(Pretty(heap, a), Len(a.shape)) =
                SelectSeq([k \in DOMAIN Walk(a.shape) |->
                             LET ix == Walk(a.shape)[k]
                             IN  IF \A i \in DOMAIN ix : Outer(ix[i], a.shape[i]) THEN f.at[ix] ELSE -1],
                          LAMBDA e : e # -1)

(* An expression changes no array: a buffer is only reused when it is safe to, no
   flag, no surprise mutation (ndarray.hpp:1202). *)
NoSurpriseMutation ==
    [][done'.what[1] = "compute" => \A y \in DOMAIN arrays \ {done'.what[2]} : Same(Later(y), Now(y))]_arrayVars
=============================================================================
