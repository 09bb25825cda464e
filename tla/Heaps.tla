-------------------------------- MODULE Heaps --------------------------------
(***************************************************************************)
(* Heaps in ranges (stl_heap.h).  A range is a sequence s with iterators     *)
(* that are positions, one past its end included; a heap begins at first,   *)
(* and hole, top, child and parent count from there as in the code.        *)
(***************************************************************************)
EXTENDS Integers, Sequences
LOCAL INSTANCE SequencesExt

\* operator< on elements: only their keys are compared.
Less(x, y) == x.key < y.key
Same(x, y) == x.key = y.key

Swapped(s, i, j) == [s EXCEPT ![i] = s[j], ![j] = s[i]]

RECURSIVE PushHole(_, _, _, _, _)
PushHole(s, first, hole, top, value) ==
    LET parent == (hole - 1) \div 2
    IN IF hole > top /\ Less(s[first + parent], value)
       THEN PushHole([s EXCEPT ![first + hole] = s[first + parent]], first, parent, top, value)
       ELSE [s EXCEPT ![first + hole] = value]

PushHeap(s, first, last) == PushHole(s, first, last - first - 1, 0, s[last - 1])

\* Mutant: the smaller child moves up.
LargerChildSmaller(s, first, hole) ==
    IF Less(s[first + 2 * hole + 2], s[first + 2 * hole + 1]) THEN 2 * hole + 2 ELSE 2 * hole + 1

LargerChild(s, first, hole) ==
    IF Less(s[first + 2 * hole + 2], s[first + 2 * hole + 1]) THEN 2 * hole + 1 ELSE 2 * hole + 2

\* The hole moves down along the larger children, to where there are not two.
RECURSIVE SiftDown(_, _, _, _)
SiftDown(s, first, hole, len) ==
    IF 2 * hole + 2 >= len THEN [s |-> s, hole |-> hole]
    ELSE LET child == LargerChild(s, first, hole)
         IN SiftDown([s EXCEPT ![first + hole] = s[first + child]], first, child, len)

AdjustHeap(s, first, hole, len, value) ==
    LET down == SiftDown(s, first, hole, len)
        child == 2 * down.hole + 1
    IN IF child + 1 = len
       THEN PushHole([down.s EXCEPT ![first + down.hole] = down.s[first + child]],
                     first, child, hole, value)
       ELSE PushHole(down.s, first, down.hole, hole, value)

\* The largest element goes to result, and value takes its place in the heap.
PopTo(s, first, last, result, value) ==
    AdjustHeap([s EXCEPT ![result] = s[first]], first, 0, last - first, value)

PopHeap(s, first, last) == PopTo(s, first, last - 1, last - 1, s[last - 1])

MakeHeap(s, first, last) ==
    LET len == last - first
        down(r, i) == LET parent == len \div 2 - i IN AdjustHeap(r, first, parent, len, r[first + parent])
    IN FoldLeft(down, s, [i \in 1 .. len \div 2 |-> i])

SortHeap(s, first, last) ==
    FoldLeft(LAMBDA r, i : PopHeap(r, first, last - i + 1), s, [i \in 1 .. last - first - 1 |-> i])

\* is_heap, where parent advances after every second child
IsHeap(s, first, last) ==
    \A child \in 1 .. last - first - 1 : ~Less(s[first + (child - 1) \div 2], s[first + child])
=============================================================================
