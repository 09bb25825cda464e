------------------------------- MODULE Numeric -------------------------------
(***************************************************************************)
(* The algorithms of stl_numeric.h, the comparisons of ranges of             *)
(* stl_algobase.h, and valarrays.  Iterators are positions of a sequence m *)
(* of integers, and a result may be written where the arguments are.       *)
(* power has the concatenation of sequences, which does not commute, as    *)
(* its operation.                                                          *)
(***************************************************************************)
EXTENDS Integers, Sequences
LOCAL INSTANCE SequencesExt
LOCAL INSTANCE FiniteSetsExt

\* The positions that a loop goes through
Visited(first, last) == [n \in 1 .. last - first |-> first + n - 1]

Accumulate(m, first, last, init) ==
    FoldLeft(LAMBDA value, p : value + m[p], init, Visited(first, last))

InnerProduct(m, first1, last1, first2, init) ==
    FoldLeft(LAMBDA value, p : value + m[p] * m[first2 + p - first1], init, Visited(first1, last1))

\* A step has the value that it keeps, and m as it has changed it.
StartAt(m, first, result) == [value |-> m[first], m |-> [m EXCEPT ![result] = m[first]]]

PartialSum(m, first, last, result) ==
    LET summed(t, p) ==
            LET value == t.value + t.m[p]
            IN [value |-> value, m |-> [t.m EXCEPT ![result + p - first] = value]]
    IN IF first = last THEN m
       ELSE FoldLeft(summed, StartAt(m, first, result), Visited(first + 1, last)).m

\* Mutant: the element before is read where its difference may have been written.
AdjacentDifferenceReread(m, first, last, result) ==
    LET subtracted(t, p) ==
            [value |-> t.m[p], m |-> [t.m EXCEPT ![result + p - first] = t.m[p] - t.m[p - 1]]]
    IN IF first = last THEN m
       ELSE FoldLeft(subtracted, StartAt(m, first, result), Visited(first + 1, last)).m

AdjacentDifference(m, first, last, result) ==
    LET subtracted(t, p) ==
            [value |-> t.m[p], m |-> [t.m EXCEPT ![result + p - first] = t.m[p] - t.value]]
    IN IF first = last THEN m
       ELSE FoldLeft(subtracted, StartAt(m, first, result), Visited(first + 1, last)).m

\* The loop of __power after the first bit of n that is set
RECURSIVE PowerFrom(_, _, _)
PowerFrom(x, n, result) ==
    IF n = 0 THEN result
    ELSE PowerFrom(x \o x, n \div 2, IF n % 2 = 1 THEN result \o x \o x ELSE result)

RECURSIVE Power(_, _)
Power(x, n) ==
    IF n = 0 THEN << >>
    ELSE IF n % 2 = 0 THEN Power(x \o x, n \div 2)
    ELSE PowerFrom(x, n \div 2, x)

Iota(m, first, last, value) ==
    [p \in DOMAIN m |-> IF p \in first .. last - 1 THEN value + p - first ELSE m[p]]

-----------------------------------------------------------------------------
(* Comparisons of s from first on with y *)

\* How far mismatch gets: y must be as long as what it is compared with.
Mismatch(s, first, last, y) ==
    Min({p \in first .. last - 1 : s[p] # y[1 + p - first]} \union {last})

EqualRanges(s, first, last, y) == \A p \in first .. last - 1 : s[p] = y[1 + p - first]

\* The first p at which the loops of the comparisons leave, at an end of the ranges at last
LeavesAt(s, y) ==
    Min({p \in 1 .. Min({Len(s), Len(y)}) : s[p] # y[p]} \union {Min({Len(s), Len(y)}) + 1})

LexicographicalCompare(s, y) ==
    LET p == LeavesAt(s, y)
    IN IF p \in DOMAIN s /\ p \in DOMAIN y THEN s[p] < y[p]
       ELSE p = Len(s) + 1 /\ p # Len(y) + 1

LexicographicalCompare3Way(s, y) ==
    LET p == LeavesAt(s, y)
    IN IF p \in DOMAIN s /\ p \in DOMAIN y THEN IF s[p] < y[p] THEN -1 ELSE 1
       ELSE IF p = Len(y) + 1 THEN IF p = Len(s) + 1 THEN 0 ELSE 1
       ELSE -1
-----------------------------------------------------------------------------
(* Subsets of a valarray: its elements have the indices 0, 1, ... of the code. *)

SliceIndices(s) == [i \in 1 .. s.length |-> s.start + (i - 1) * s.stride]

\* A gslice is its start, and the lengths and strides of its dimensions.
GsliceSize(g) == FoldLeft(LAMBDA n, length : n * length, g.lengths[1], Tail(g.lengths))

\* Mutant: a dimension that starts again does not take its steps back.
CarryOnly(g, t, dim) ==
    [t EXCEPT !.index = @ + g.strides[dim], !.indices[dim] = (@ + 1) % g.lengths[dim],
              !.more = t.indices[dim] + 1 < g.lengths[dim]]

\* What _M_incr does to one dimension: there are no more carries if the dimension goes on.
StepIn(g, t, dim) ==
    LET next == t.indices[dim] + 1 IN
    IF next # g.lengths[dim]
    THEN [t EXCEPT !.index = @ + g.strides[dim], !.indices[dim] = next, !.more = TRUE]
    ELSE IF dim # 1
    THEN [t EXCEPT !.index = @ + g.strides[dim] - g.strides[dim] * g.lengths[dim], !.indices[dim] = 0]
    ELSE [t EXCEPT !.index = @ + g.strides[dim], !.indices[dim] = next]

\* _Gslice_Iter::_M_incr, from the last dimension to the first that goes on
Incr(g, t) ==
    FoldRight(LAMBDA dim, u : IF u.more THEN u ELSE StepIn(g, u, dim),
              [dim \in DOMAIN g.lengths |-> dim], [t EXCEPT !.more = FALSE])

\* The indices that a gslice goes through.  A length of 0 is never reached.
RECURSIVE IndicesFrom(_, _)
IndicesFrom(g, t) ==
    LET next == Incr(g, t)
    IN << t.index >> \o IF next.more THEN IndicesFrom(g, next) ELSE << >>

GsliceIndices(g) ==
    IndicesFrom(g, [index |-> g.start, indices |-> [dim \in DOMAIN g.lengths |-> 0], more |-> TRUE])

MaskIndices(mask) == SelectSeq([i \in DOMAIN mask |-> i - 1], LAMBDA i : mask[i + 1])

\* A valarray made of a subset of x, and x after its subset was assigned to.  The loops go
\* through the subset in order; those of computed assignment are all like the one of +=.
Subset(x, indices) == [i \in DOMAIN indices |-> x[indices[i] + 1]]

AssignSubset(x, indices, y, added) ==
    FoldLeft(LAMBDA s, i : [s EXCEPT ![indices[i] + 1] = IF added THEN @ + y[i] ELSE y[i]], x,
             [i \in DOMAIN indices |-> i])

Shift(x, n) ==
    LET size == Len(x)
        zeros == [i \in DOMAIN x |-> 0] IN
    IF n >= 0 THEN IF n < size THEN SubSeq(x, n + 1, size) \o SubSeq(zeros, 1, n) ELSE zeros
    ELSE IF -n < size THEN SubSeq(zeros, 1, -n) \o SubSeq(x, 1, size + n) ELSE zeros

\* The remainder has the sign of m, as it has in C.
CShift(x, m) ==
    LET size == Len(x)
        rest == IF m >= 0 THEN m % size ELSE -((-m) % size)
        n == IF rest < 0 THEN rest + size ELSE rest
    IN SubSeq(x, n + 1, size) \o SubSeq(x, 1, n)
=============================================================================
